------------------------ MODULE RemoteVerifierProofs ------------------------
(***************************************************************************)
(* What holds of RemoteVerifier for every set of requests and tokens and   *)
(* every setting of its constants.                                         *)
(***************************************************************************)
EXTENDS RemoteVerifier, TaskLockProofs

(* An entry of the negative cache. *)
Entry == [key : {CacheKey(k) : k \in Cookie}, at : Nat]
-----------------------------------------------------------------------------
(* Lemmas about the limiter, the cache and the latch. *)

\* Asking for a slot keeps the limiter typed.
LEMMA TakeSlotKeeps ==
  ASSUME holders \in SUBSET Caller, line \in Seq(Caller), NEW c \in Caller,
         Limiter!TakeSlot(c)
  PROVE  holders' \in SUBSET Caller /\ line' \in Seq(Caller)
<1>1. Append(line, c) \in Seq(Caller)
  BY AppendProperties
<1> QED
  BY <1>1 DEF Limiter!TakeSlot

\* So does giving one back, to the longest waiting.
LEMMA GiveBackKeeps ==
  ASSUME holders \in SUBSET Caller, line \in Seq(Caller), NEW c \in Caller,
         Limiter!GiveBack(c)
  PROVE  holders' \in SUBSET Caller /\ line' \in Seq(Caller)
<1>1. CASE line = <<>>
  BY <1>1 DEF Limiter!GiveBack
<1>2. CASE line # <<>>
  <2>1. Head(line) \in Caller /\ Tail(line) \in Seq(Caller)
    BY <1>2, HeadTailProperties
  <2> QED
    BY <1>2, <2>1 DEF Limiter!GiveBack
<1> QED
  BY <1>1, <1>2

\* So does leaving the line, or a slot just handed over.
LEMMA AbandonKeeps ==
  ASSUME holders \in SUBSET Caller, line \in Seq(Caller), NEW c \in Caller,
         Limiter!Abandon(c)
  PROVE  holders' \in SUBSET Caller /\ line' \in Seq(Caller)
<1>1. CASE c \in holders
  BY <1>1, GiveBackKeeps DEF Limiter!Abandon
<1>2. CASE c \notin holders
  <2>1. PICK i \in DOMAIN line : line' = Limiter!RemoveAt(line, i) /\ UNCHANGED holders
    BY <1>2 DEF Limiter!Abandon
  <2>2. i \in 1..Len(line)
    BY LenProperties
  <2>3. line' = RemoveAt(line, i)
    BY <2>1 DEF Limiter!RemoveAt, RemoveAt
  <2> QED
    BY <2>1, <2>2, <2>3, RemoveAtProperties
<1> QED
  BY <1>1, <1>2

(* The place of a key that is there. *)
LEMMA PositionIsAPlace ==
  ASSUME entries \in Seq(Entry), NEW key, Cache!Has(key)
  PROVE  Cache!Position(key) \in 1..Len(entries)
<1>1. PICK i \in DOMAIN entries : entries[i].key = key
  BY DEF Cache!Has
<1>2. Cache!Position(key) \in DOMAIN entries
  BY <1>1 DEF Cache!Position
<1> QED
  BY <1>2, LenProperties

(* Asking for a key may delete an entry, and changes no other. *)
LEMMA AskingKeeps ==
  ASSUME entries \in Seq(Entry), NEW key
  PROVE  /\ Cache!AfterAsking(key) \in Seq(Entry)
         /\ \A j \in DOMAIN Cache!AfterAsking(key) :
              \E i \in DOMAIN entries : Cache!AfterAsking(key)[j] = entries[i]
<1>1. CASE Ttl > 0 /\ Cache!Has(key) /\ ~Cache!Holds(key)
  <2> DEFINE p == Cache!Position(key)
             r == RemoveAt(entries, p)
  <2>1. p \in 1..Len(entries)
    BY <1>1, PositionIsAPlace
  <2>2. Cache!AfterAsking(key) = r
    BY <1>1 DEF Cache!AfterAsking, Cache!RemoveAt, RemoveAt
  <2> HIDE DEF p
  <2>3. /\ r \in Seq(Entry)
        /\ Len(r) = Len(entries) - 1
        /\ \A j \in 1..(Len(entries) - 1) :
             r[j] = IF j < p THEN entries[j] ELSE entries[j + 1]
    BY <2>1, RemoveAtProperties
  <2> HIDE DEF r
  <2>4. /\ Len(entries) \in Nat
        /\ DOMAIN entries = 1..Len(entries)
        /\ DOMAIN r = 1..(Len(entries) - 1)
    BY <2>3, LenProperties
  <2> QED
    BY <2>1, <2>2, <2>3, <2>4
<1>2. CASE ~(Ttl > 0 /\ Cache!Has(key) /\ ~Cache!Holds(key))
  BY <1>2 DEF Cache!AfterAsking
<1> QED
  BY <1>1, <1>2

(* What eviction leaves is an end of what was there. *)
LEMMA EvictedKeeps ==
  ASSUME entries \in Seq(Entry)
  PROVE  /\ Cache!Evicted \in Seq(Entry)
         /\ \A j \in 1..Len(Cache!Evicted) :
              \E i \in DOMAIN entries : Cache!Evicted[j] = entries[i]
<1>1. CASE Len(entries) < MaxRemembered
  BY <1>1, LenProperties DEF Cache!Evicted
<1>2. CASE ~(Len(entries) < MaxRemembered)
  <2> DEFINE low == Len(entries) - MaxRemembered + 2
             r == SubSeq(entries, low, Len(entries))
  <2>1. Cache!Evicted = r
    BY <1>2 DEF Cache!Evicted
  <2>2. /\ Len(entries) \in Nat
        /\ DOMAIN entries = 1..Len(entries)
        /\ low \in Int
        /\ low >= 2
        /\ low <= Len(entries) + 1
    BY <1>2, LenProperties, RemoteAssumption
  <2> HIDE DEF low
  <2>3. \A i \in low..Len(entries) : entries[i] \in Entry
    BY <2>2, ElementOfSeq
  <2>4. /\ r \in Seq(Entry)
        /\ Len(r) = IF low <= Len(entries) THEN Len(entries) - low + 1 ELSE 0
        /\ \A j \in 1..(Len(entries) - low + 1) : r[j] = entries[low + j - 1]
    BY <2>2, <2>3, SubSeqProperties
  <2> HIDE DEF r
  <2>5. ASSUME NEW j \in 1..Len(r)
        PROVE  \E i \in DOMAIN entries : r[j] = entries[i]
    <3>1. j \in 1..(Len(entries) - low + 1) /\ low + j - 1 \in DOMAIN entries
      BY <2>2, <2>4
    <3> QED
      BY <2>4, <3>1
  <2> QED
    BY <2>1, <2>4, <2>5
<1> QED
  BY <1>1, <1>2

(* Remembering a cookie adds its key and no other. *)
LEMMA RememberingKeeps ==
  ASSUME entries \in Seq(Entry), now \in Nat, NEW k \in Cookie
  PROVE  /\ Cache!AfterRemembering(CacheKey(k)) \in Seq(Entry)
         /\ \A j \in DOMAIN Cache!AfterRemembering(CacheKey(k)) :
              LET key == Cache!AfterRemembering(CacheKey(k))[j].key
              IN  key = CacheKey(k) \/ \E i \in DOMAIN entries : key = entries[i].key
<1> DEFINE r == Cache!AfterRemembering(CacheKey(k))
<1>1. CASE Ttl = 0
  BY <1>1 DEF Cache!AfterRemembering
<1>2. CASE Ttl # 0 /\ Cache!Has(CacheKey(k))
  <2> DEFINE p == Cache!Position(CacheKey(k))
  <2>1. p \in 1..Len(entries)
    BY <1>2, PositionIsAPlace
  <2>2. r = [entries EXCEPT ![p].at = now]
    BY <1>2 DEF Cache!AfterRemembering
  <2>e. \A e \in Entry : [e EXCEPT !.at = now] \in Entry
    BY DEF Entry
  <2>3. entries[p] \in Entry /\ [entries[p] EXCEPT !.at = now] \in Entry
    <3> HIDE DEF p
    <3>1. entries[p] \in Entry
      BY <2>1, ElementOfSeq
    <3> QED
      BY <3>1, <2>e
  <2>4. r = [entries EXCEPT ![p] = [entries[p] EXCEPT !.at = now]]
    BY <2>2
  <2> HIDE DEF p
  <2>5. r \in Seq(Entry)
    BY <2>1, <2>3, <2>4, ExceptSeq
  <2>6. DOMAIN r = DOMAIN entries /\ \A j \in DOMAIN r : r[j].key = entries[j].key
    BY <2>4, <2>3 DEF Entry
  <2> QED
    BY <2>5, <2>6
<1>3. CASE Ttl # 0 /\ ~Cache!Has(CacheKey(k))
  <2> DEFINE new == [key |-> CacheKey(k), at |-> now]
  <2>1. r = Append(Cache!Evicted, new)
    BY <1>3 DEF Cache!AfterRemembering
  <2>2. new \in Entry /\ new.key = CacheKey(k)
    BY DEF Entry
  <2> HIDE DEF new
  <2>3. /\ r \in Seq(Entry)
        /\ Len(r) = Len(Cache!Evicted) + 1
        /\ \A i \in 1..Len(Cache!Evicted) : r[i] = Cache!Evicted[i]
        /\ r[Len(Cache!Evicted) + 1] = new
    BY <2>1, <2>2, EvictedKeeps, AppendProperties
  <2>4. Len(Cache!Evicted) \in Nat /\ DOMAIN r = 1..(Len(Cache!Evicted) + 1)
    BY <2>3, EvictedKeeps, LenProperties
  <2> HIDE DEF r
  <2>5. ASSUME NEW j \in DOMAIN r
        PROVE  r[j].key = CacheKey(k) \/ \E i \in DOMAIN entries : r[j].key = entries[i].key
    <3>1. CASE j = Len(Cache!Evicted) + 1
      BY <2>2, <2>3, <3>1
    <3>2. CASE j # Len(Cache!Evicted) + 1
      <4>1. j \in 1..Len(Cache!Evicted)
        BY <2>4, <3>2
      <4> QED
        BY <2>3, <4>1, EvictedKeeps
    <3> QED
      BY <3>1, <3>2
  <2> QED
    BY <2>3, <2>5 DEF r
<1> QED
  BY <1>1, <1>2, <1>3

(* The latch is set in the future, and never in negative time. *)
LEMMA LatchKeeps ==
  ASSUME now \in Nat, blockedUntil \in Nat \cup {Never}, NEW values \in RetryAfter
  PROVE  /\ Backoff!AfterAsking \in Nat \cup {Never}
         /\ Backoff!Backoff(values) \in Nat /\ Backoff!Backoff(values) <= MaxBackoff
         /\ Backoff!AfterObserving(values) \in Nat \cup {Never}
<1>1. values \in Seq(Int) /\ (values # <<>> => Head(values) \in Int)
  BY RemoteAssumption, HeadTailProperties
<1>2. MinBackoff \in Nat /\ MaxBackoff \in Nat /\ MinBackoff <= MaxBackoff
      /\ DefaultBackoff \in Nat /\ DefaultBackoff <= MaxBackoff
  BY RemoteAssumption
<1>3. Backoff!Backoff(values) \in Nat /\ Backoff!Backoff(values) <= MaxBackoff
  BY <1>1, <1>2 DEF Backoff!Backoff, Backoff!Clamped
<1> QED
  BY <1>3 DEF Backoff!AfterAsking, Backoff!AfterObserving, Backoff!Latched
-----------------------------------------------------------------------------
(* Type correctness. *)

\* Whatever a response or a failed probe comes to is an answer.
LEMMA OutcomesAreAnswers ==
  /\ NullOutcome \in Answers
  /\ \A k : Unreachable(k) \in Answers
  /\ \A r, fits : DocumentOutcome(r, fits) \in Answers
BY DEF NullOutcome, Unreachable, DocumentOutcome, Answers

(* What a stretch of one request may do to the requests. *)
OthersKeepPlace(c) == \A d \in Caller \ {c} : pc'[d] = pc[d]

RequestsTyped ==
  /\ pc \in [Caller -> Places]
  /\ answer \in [Caller -> Answers]
  /\ reply \in [Caller -> Replies]

LocksTyped ==
  /\ owner \in Caller \cup {NoOne}
  /\ waiters \in Seq(Caller)

SlotsTyped ==
  /\ holders \in SUBSET Caller
  /\ line \in Seq(Caller)

\* Ending a request keeps the types and leaves the others alone.
LEMMA EndKeeps ==
  ASSUME TypeOK, NEW c \in Caller, NEW outcome \in Answers, End(c, outcome)
  PROVE  RequestsTyped' /\ OthersKeepPlace(c) /\ pc'[c] = "done"
BY DEF TypeOK, RequestsTyped, OthersKeepPlace, End, Places, Replies

\* Going on past the readiness gate keeps the types.
LEMMA ProceedKeeps ==
  ASSUME TypeOK, NEW c \in Caller, NEW k, Proceed(c, k)
  PROVE  /\ RequestsTyped' /\ SlotsTyped' /\ OthersKeepPlace(c)
         /\ pc'[c] = IF k = NoCookie THEN "done" ELSE "queued"
<1>1. CASE k = NoCookie
  <2>1. End(c, "ready") /\ UNCHANGED limiter
    BY <1>1 DEF Proceed
  <2>2. "ready" \in Answers
    BY DEF Answers
  <2> QED
    BY <1>1, <2>1, <2>2, EndKeeps DEF TypeOK, SlotsTyped, limiter
<1>2. CASE k # NoCookie
  <2>1. Limiter!TakeSlot(c) /\ pc' = [pc EXCEPT ![c] = "queued"] /\ UNCHANGED <<answer, reply>>
    BY <1>2 DEF Proceed
  <2>2. SlotsTyped'
    BY <2>1, TakeSlotKeeps DEF TypeOK, SlotsTyped
  <2> QED
    BY <1>2, <2>1, <2>2 DEF TypeOK, RequestsTyped, OthersKeepPlace, Places
<1> QED
  BY <1>1, <1>2

\* So does coming to the readiness gate, open or not.
LEMMA ReadyKeeps ==
  ASSUME TypeOK, NEW c \in Caller, NEW k, Ready(c, k)
  PROVE  /\ RequestsTyped' /\ LocksTyped' /\ SlotsTyped' /\ OthersKeepPlace(c)
         /\ pc'[c] \in {"done", "entering", "waiting"} \/ (pc'[c] = "queued" /\ k # NoCookie)
<1>1. CASE probedOk
  <2>1. Proceed(c, k) /\ UNCHANGED lock
    BY <1>1 DEF Ready
  <2> QED
    BY <2>1, ProceedKeeps DEF TypeOK, LocksTyped, lock
<1>2. CASE ~probedOk /\ contractFailed
  <2>1. End(c, "misconfigured") /\ UNCHANGED <<lock, limiter>>
    BY <1>2 DEF Ready
  <2>2. "misconfigured" \in Answers
    BY DEF Answers
  <2> QED
    BY <2>1, <2>2, EndKeeps DEF TypeOK, LocksTyped, SlotsTyped, lock, limiter
<1>3. CASE ~probedOk /\ ~contractFailed
  <2>1. Acquire(c) /\ UNCHANGED limiter
    BY <1>3 DEF Ready
  <2>2. LocksTyped'
    BY <2>1, JoinKeeps DEF Acquire, TakeLock, JoinLine, TypeOK, LocksTyped
  <2>3. RequestsTyped' /\ OthersKeepPlace(c) /\ pc'[c] \in {"entering", "waiting"}
    BY <2>1 DEF Acquire, TypeOK, RequestsTyped, OthersKeepPlace, Places
  <2> QED
    BY <2>1, <2>2, <2>3 DEF TypeOK, SlotsTyped, limiter
<1> QED
  BY <1>1, <1>2, <1>3

(* A request that asks for a slot, or holds one, presents a cookie. *)
CookieNamed == \A c \in Caller : pc[c] \in {"queued", "fetching"} => cookie[c] \in Cookie

TInv == TypeOK /\ CookieNamed

\* The first state is typed.
LEMMA InitTInv == Init => TInv
<1> SUFFICES ASSUME Init PROVE TInv
  OBVIOUS
<1>1. entries = <<>> /\ waiters = <<>> /\ line = <<>>
  BY DEF Init
<1>2. entries \in Seq(Entry) /\ waiters \in Seq(Caller) /\ line \in Seq(Caller)
  BY <1>1, EmptySeq
<1> QED
  BY <1>2 DEF Init, TInv, TypeOK, CookieNamed, Entry, Places, Answers, Replies, Statuses

(* A request that arrives presents what it presents. *)
LEMMA ArrivesKeeps ==
  ASSUME TypeOK, NEW c \in Caller, NEW k \in Cookie \cup {NoCookie}, Arrives(c, k)
  PROVE  /\ cookie' \in [Caller -> Cookie \cup {NoCookie}]
         /\ seen' \in [Caller -> SUBSET Statuses]
         /\ cookie'[c] = k
         /\ \A d \in Caller \ {c} : cookie'[d] = cookie[d]
         /\ UNCHANGED <<spentAt, passed>>
<1>1. k # NoCookie => session[k.token] \in Statuses
  BY DEF TypeOK, Cookie
<1> QED
  BY <1>1 DEF TypeOK, Arrives

\* Every step keeps the types.
LEMMA NextTInv == TInv /\ [Next]_vars => TInv'
<1> SUFFICES ASSUME TypeOK, CookieNamed, [Next]_vars PROVE TInv'
  BY DEF TInv
<1> USE DEF probe, lock, limiter, request, world, history
\* The pieces of the invariant that a step may disturb, put together again.
<1>0. ASSUME RequestsTyped', LocksTyped', SlotsTyped',
             probedOk' \in BOOLEAN, contractFailed' \in BOOLEAN,
             probeAttemptedAt' \in Nat \cup {Never}, previous' \in Nat \cup {Never},
             entries' \in Seq(Entry), blockedUntil' \in Nat \cup {Never},
             cookie' \in [Caller -> Cookie \cup {NoCookie}],
             now' \in Nat, session' \in [Token -> Statuses], keyring' \in BOOLEAN,
             spentAt' \in Nat \cup {Never}, seen' \in [Caller -> SUBSET Statuses],
             passed' \in SUBSET Caller
      PROVE  TypeOK'
  BY <1>0 DEF TypeOK, RequestsTyped, LocksTyped, SlotsTyped, Entry
<1>e. entries \in Seq(Entry)
  BY DEF TypeOK, Entry
<1>t. RequestsTyped /\ LocksTyped /\ SlotsTyped
  BY DEF TypeOK, RequestsTyped, LocksTyped, SlotsTyped
\* A request refused at one of the local gates.
<1>1. ASSUME NEW c \in Caller, NEW k \in Cookie \cup {NoCookie}, NEW outcome \in Answers,
             Arrives(c, k), End(c, outcome), UNCHANGED <<probe, blockedUntil, lock, limiter, world>>,
             entries' \in Seq(Entry)
      PROVE  TInv'
  <2>1. RequestsTyped' /\ OthersKeepPlace(c) /\ pc'[c] = "done"
    BY <1>1, EndKeeps
  <2>2. /\ cookie' \in [Caller -> Cookie \cup {NoCookie}]
        /\ seen' \in [Caller -> SUBSET Statuses]
        /\ \A d \in Caller \ {c} : cookie'[d] = cookie[d]
        /\ UNCHANGED <<spentAt, passed>>
    BY <1>1, ArrivesKeeps
  <2>3. TypeOK'
    BY <1>0, <1>1, <2>1, <2>2, <1>t DEF TypeOK, LocksTyped, SlotsTyped
  <2>4. CookieNamed'
    BY <2>1, <2>2 DEF CookieNamed, OthersKeepPlace
  <2> QED
    BY <2>3, <2>4 DEF TInv
\* A request that is let into the readiness gate.
<1>2. ASSUME NEW c \in Caller, NEW k \in Cookie \cup {NoCookie},
             Arrives(c, k), Ready(c, k), UNCHANGED <<probe, world>>,
             entries' \in Seq(Entry), blockedUntil' \in Nat \cup {Never}
      PROVE  TInv'
  <2>1. /\ RequestsTyped' /\ LocksTyped' /\ SlotsTyped' /\ OthersKeepPlace(c)
        /\ pc'[c] \in {"done", "entering", "waiting"} \/ (pc'[c] = "queued" /\ k # NoCookie)
    BY <1>2, ReadyKeeps
  <2>2. /\ cookie' \in [Caller -> Cookie \cup {NoCookie}]
        /\ seen' \in [Caller -> SUBSET Statuses]
        /\ cookie'[c] = k
        /\ \A d \in Caller \ {c} : cookie'[d] = cookie[d]
        /\ UNCHANGED <<spentAt, passed>>
    BY <1>2, ArrivesKeeps
  <2>3. TypeOK'
    BY <1>0, <1>2, <2>1, <2>2 DEF TypeOK
  <2>4. CookieNamed'
    BY <1>2, <2>1, <2>2 DEF CookieNamed, OthersKeepPlace
  <2> QED
    BY <2>3, <2>4 DEF TInv
<1>3. ASSUME NEW c \in Caller, NEW k \in Cookie, Gates(c, k)
      PROVE  TInv'
  <2>1. CASE RefusedForged(c, k)
    BY <1>1, <1>e, <2>1 DEF RefusedForged, Answers
  <2>2. CASE RefusedRemembered(c, k)
    BY <1>1, <1>e, <2>2, OutcomesAreAnswers DEF RefusedRemembered
  <2>3. CASE RefusedLatched(c, k)
    <3>1. entries' \in Seq(Entry)
      BY <1>e, <2>3, AskingKeeps DEF RefusedLatched
    <3> QED
      BY <1>1, <2>3, <3>1 DEF RefusedLatched, Answers
  <2>4. CASE Admit(c, k)
    <3>1. entries' \in Seq(Entry)
      BY <1>e, <2>4, AskingKeeps DEF Admit
    <3>2. blockedUntil' \in Nat \cup {Never}
      BY <2>4 DEF Admit, Backoff!AfterAsking, TypeOK
    <3> QED
      BY <1>2, <2>4, <3>1, <3>2 DEF Admit
  <2> QED
    BY <1>3, <2>1, <2>2, <2>3, <2>4 DEF Gates
<1>4. ASSUME NEW c \in Caller, RefusedUnread(c) \/ Prepare(c)
      PROVE  TInv'
  <2>1. CASE RefusedUnread(c)
    BY <1>1, <1>e, <2>1 DEF RefusedUnread, Answers
  <2>2. CASE Prepare(c)
    BY <1>2, <1>e, <2>2 DEF Prepare, TypeOK
  <2> QED
    BY <1>4, <2>1, <2>2
\* A later stretch of a request, whose cookie stays what it was.
<1>5. ASSUME NEW c \in Caller, OthersKeepPlace(c),
             pc'[c] \in {"queued", "fetching"} => cookie[c] \in Cookie,
             RequestsTyped', LocksTyped', SlotsTyped',
             probedOk' \in BOOLEAN, contractFailed' \in BOOLEAN,
             probeAttemptedAt' \in Nat \cup {Never}, previous' \in Nat \cup {Never},
             entries' \in Seq(Entry), blockedUntil' \in Nat \cup {Never},
             spentAt' \in Nat \cup {Never}, passed' \in SUBSET Caller,
             UNCHANGED <<cookie, world, seen>>
      PROVE  TInv'
  <2>1. TypeOK'
    BY <1>0, <1>5 DEF TypeOK
  <2>2. CookieNamed'
    BY <1>5 DEF CookieNamed, OthersKeepPlace
  <2> QED
    BY <2>1, <2>2 DEF TInv
\* A request that is answered while it waits, holds the lock or a slot.
<1>6. ASSUME NEW c \in Caller, NEW outcome \in Answers, End(c, outcome),
             LocksTyped', SlotsTyped',
             UNCHANGED <<probedOk, contractFailed, probeAttemptedAt, previous>>,
             entries' \in Seq(Entry), blockedUntil' \in Nat \cup {Never},
             UNCHANGED spentAt, passed' \in SUBSET Caller,
             UNCHANGED <<cookie, world, seen>>
      PROVE  TInv'
  <2>1. RequestsTyped' /\ OthersKeepPlace(c) /\ pc'[c] = "done"
    BY <1>6, EndKeeps
  <2> QED
    BY <1>5, <1>6, <2>1 DEF TypeOK
<1>7. ASSUME NEW c \in Caller, Rechecked(c)
      PROVE  TInv'
  <2>1. LocksTyped'
    BY <1>7, ReleaseKeeps DEF Rechecked, TypeOK, LocksTyped
  <2>2. CASE probedOk
    <3>1. Proceed(c, cookie[c])
      BY <1>7, <2>2 DEF Rechecked
    <3>2. /\ RequestsTyped' /\ SlotsTyped' /\ OthersKeepPlace(c)
          /\ pc'[c] = IF cookie[c] = NoCookie THEN "done" ELSE "queued"
      BY <3>1, ProceedKeeps
    <3>3. pc'[c] \in {"queued", "fetching"} => cookie[c] \in Cookie
      BY <3>2 DEF TypeOK
    <3> QED
      BY <1>5, <1>7, <1>e, <2>1, <3>2, <3>3 DEF Rechecked, TypeOK
  <2>3. CASE ~probedOk
    <3>1. PICK outcome \in Answers : End(c, outcome) /\ UNCHANGED limiter
      BY <1>7, <2>3, OutcomesAreAnswers DEF Rechecked, Answers
    <3> QED
      BY <1>6, <1>7, <1>e, <1>t, <2>1, <3>1 DEF Rechecked, TypeOK, SlotsTyped
  <2> QED
    BY <2>2, <2>3
<1>8. ASSUME NEW c \in Caller, BeginProbe(c)
      PROVE  TInv'
  <2>1. RequestsTyped' /\ OthersKeepPlace(c) /\ pc'[c] = "probing"
    BY <1>8 DEF BeginProbe, StartProbe, TypeOK, RequestsTyped, OthersKeepPlace, Places
  <2> QED
    BY <1>5, <1>8, <1>e, <1>t, <2>1
       DEF BeginProbe, StartProbe, TypeOK, LocksTyped, SlotsTyped
\* However a probe ends, the lock goes on and the window is a time.
<1>9. ASSUME NEW c \in Caller, NEW stamp \in Nat \cup {Never}, ProbeEnds(c, stamp),
             RequestsTyped', SlotsTyped', OthersKeepPlace(c),
             pc'[c] \in {"queued", "fetching"} => cookie[c] \in Cookie,
             probedOk' \in BOOLEAN, contractFailed' \in BOOLEAN,
             spentAt' \in Nat \cup {Never}
      PROVE  TInv'
  <2>1. LocksTyped'
    BY <1>9, ReleaseKeeps DEF ProbeEnds, TypeOK, LocksTyped
  <2> QED
    BY <1>5, <1>9, <1>e, <2>1 DEF ProbeEnds, TypeOK
<1>10. ASSUME NEW c \in Caller, ProbeSucceeds(c)
       PROVE  TInv'
  <2>1. /\ RequestsTyped' /\ SlotsTyped' /\ OthersKeepPlace(c)
        /\ pc'[c] = IF cookie[c] = NoCookie THEN "done" ELSE "queued"
    BY <1>10, ProceedKeeps DEF ProbeSucceeds
  <2>2. pc'[c] \in {"queued", "fetching"} => cookie[c] \in Cookie
    BY <2>1 DEF TypeOK
  <2> QED
    BY <1>9, <1>10, <2>1, <2>2 DEF ProbeSucceeds, TypeOK
<1>11. ASSUME NEW c \in Caller, ProbeRefused(c) \/ ProbeFails(c) \/ ProbeCancelled(c)
       PROVE  TInv'
  <2>1. PICK outcome \in Answers : End(c, outcome)
    BY <1>11, OutcomesAreAnswers DEF ProbeRefused, ProbeFails, ProbeCancelled, Answers
  <2>2. RequestsTyped' /\ OthersKeepPlace(c) /\ pc'[c] = "done"
    BY <2>1, EndKeeps
  <2>3. /\ UNCHANGED <<holders, line, probedOk>>
        /\ contractFailed' \in BOOLEAN
        /\ spentAt' \in Nat \cup {Never}
    BY <1>11 DEF ProbeRefused, ProbeFails, ProbeCancelled, TypeOK
  <2>4. PICK stamp \in Nat \cup {Never} : ProbeEnds(c, stamp)
    BY <1>11 DEF ProbeRefused, ProbeFails, ProbeCancelled, TypeOK
  <2> QED
    BY <1>9, <1>t, <2>2, <2>3, <2>4 DEF TypeOK, SlotsTyped
<1>12. ASSUME NEW c \in Caller, WaitCancelled(c)
       PROVE  TInv'
  <2>1. LocksTyped'
    BY <1>12, WithdrawKeeps DEF WaitCancelled, TypeOK, LocksTyped
  <2> QED
    BY <1>6, <1>12, <1>e, <1>t, <2>1 DEF WaitCancelled, Answers, SlotsTyped, TypeOK
<1>13. ASSUME NEW c \in Caller, Send(c)
       PROVE  TInv'
  <2>1. RequestsTyped' /\ OthersKeepPlace(c) /\ cookie[c] \in Cookie
    BY <1>13 DEF Send, TypeOK, RequestsTyped, OthersKeepPlace, Places, CookieNamed
  <2> QED
    BY <1>5, <1>13, <1>e, <1>t, <2>1 DEF Send, TypeOK, LocksTyped, SlotsTyped
<1>14. ASSUME NEW c \in Caller, QueueTimesOut(c) \/ QueueCancelled(c)
       PROVE  TInv'
  <2>1. SlotsTyped'
    BY <1>14, AbandonKeeps DEF QueueTimesOut, QueueCancelled, TypeOK, SlotsTyped
  <2>2. PICK outcome \in Answers : End(c, outcome)
    BY <1>14 DEF QueueTimesOut, QueueCancelled, Answers
  <2> QED
    BY <1>6, <1>14, <1>e, <1>t, <2>1, <2>2
       DEF QueueTimesOut, QueueCancelled, LocksTyped, TypeOK
<1>15. ASSUME NEW c \in Caller, FetchAnswers(c)
       PROVE  TInv'
  <2>1. SlotsTyped'
    BY <1>15, GiveBackKeeps DEF FetchAnswers, TypeOK, SlotsTyped
  <2>2. PICK outcome \in Answers : End(c, outcome)
    BY <1>15, OutcomesAreAnswers DEF FetchAnswers
  <2>3. cookie[c] \in Cookie
    BY <1>15 DEF FetchAnswers, CookieNamed
  <2>4. entries' \in Seq(Entry)
    BY <1>15, <1>e, <2>3, RememberingKeeps DEF FetchAnswers, TypeOK
  <2> QED
    BY <1>6, <1>15, <1>t, <2>1, <2>2, <2>4 DEF FetchAnswers, LocksTyped, TypeOK
<1>16. ASSUME NEW c \in Caller, NEW values \in RetryAfter, FetchLimited(c, values)
       PROVE  TInv'
  <2>1. SlotsTyped'
    BY <1>16, GiveBackKeeps DEF FetchLimited, TypeOK, SlotsTyped
  <2>2. blockedUntil' \in Nat \cup {Never}
    BY <1>16, LatchKeeps DEF FetchLimited, TypeOK
  <2>3. passed' \in SUBSET Caller
    BY <1>16 DEF FetchLimited, InFlight, TypeOK
  <2> QED
    BY <1>6, <1>16, <1>e, <1>t, <2>1, <2>2, <2>3
       DEF FetchLimited, Answers, LocksTyped, TypeOK
<1>17. ASSUME NEW c \in Caller, FetchFails(c) \/ FetchRaises(c) \/ FetchCancelled(c)
       PROVE  TInv'
  <2>1. SlotsTyped'
    BY <1>17, GiveBackKeeps DEF FetchFails, FetchRaises, FetchCancelled, TypeOK, SlotsTyped
  <2>2. PICK outcome \in Answers : FetchLeft(c, outcome)
    BY <1>17 DEF FetchFails, FetchRaises, FetchCancelled, Answers
  <2> QED
    BY <1>6, <1>e, <1>t, <2>1, <2>2 DEF FetchLeft, LocksTyped, TypeOK
<1>18. ASSUME NEW c \in Caller, UpstreamReplies(c)
       PROVE  TInv'
  <2>1. PICK r \in {Truth(cookie[c]), "crossed", "limited"} :
          reply' = [reply EXCEPT ![c] = r]
    BY <1>18 DEF UpstreamReplies
  <2>2. cookie[c] \in Cookie
    BY <1>18 DEF UpstreamReplies, CookieNamed
  <2>3. r \in Replies
    BY <2>1, <2>2 DEF Truth, Replies, Statuses, TypeOK, Cookie
  <2>4. RequestsTyped' /\ OthersKeepPlace(c)
    BY <1>18, <2>1, <2>3 DEF UpstreamReplies, RequestsTyped, OthersKeepPlace, TypeOK
  <2> QED
    BY <1>5, <1>18, <1>e, <1>t, <2>2, <2>4
       DEF UpstreamReplies, LocksTyped, SlotsTyped, TypeOK
<1>19. ASSUME NEW c \in Caller, Return(c)
       PROVE  TInv'
  <2>1. /\ cookie' \in [Caller -> Cookie \cup {NoCookie}]
        /\ seen' \in [Caller -> SUBSET Statuses]
        /\ passed' \in SUBSET Caller
    BY <1>19 DEF Return, TypeOK
  <2>2. RequestsTyped'
    BY <1>19 DEF Return, RequestsTyped, TypeOK, Places, Answers
  <2>3. TypeOK'
    BY <1>0, <1>19, <1>e, <1>t, <2>1, <2>2 DEF Return, TypeOK, LocksTyped, SlotsTyped
  <2>4. CookieNamed'
    BY <1>19 DEF Return, CookieNamed, TypeOK
  <2> QED
    BY <2>3, <2>4 DEF TInv
<1>20. ASSUME NEW t \in Token, NEW status \in Statuses, SessionChanges(t, status)
       PROVE  TInv'
  <2>1. /\ session' \in [Token -> Statuses]
        /\ seen' \in [Caller -> SUBSET Statuses]
    BY <1>20 DEF SessionChanges, TypeOK
  <2>2. TypeOK'
    BY <1>20, <2>1 DEF SessionChanges, TypeOK
  <2>3. CookieNamed'
    BY <1>20 DEF SessionChanges, CookieNamed
  <2> QED
    BY <2>2, <2>3 DEF TInv
<1>21. ASSUME Tick PROVE TInv'
  <2>1. TypeOK'
    BY <1>21 DEF Tick, TypeOK
  <2>2. CookieNamed'
    BY <1>21 DEF Tick, CookieNamed
  <2> QED
    BY <2>1, <2>2 DEF TInv
<1>22. ASSUME UNCHANGED vars PROVE TInv'
  BY <1>22 DEF vars, TInv, TypeOK, CookieNamed
<1>23. ASSUME NEW c \in Caller, Turn(c) \/ ProbeAnswered(c) \/ FetchEnds(c)
       PROVE  TInv'
  BY <1>7, <1>8, <1>10, <1>11, <1>15, <1>16, <1>17, <1>23
     DEF Turn, ProbeAnswered, FetchEnds
<1>24. ASSUME Next PROVE TInv'
  BY <1>3, <1>4, <1>11, <1>12, <1>13, <1>14, <1>17, <1>18, <1>19, <1>20, <1>21, <1>23, <1>24
     DEF Next
<1> QED
  BY <1>22, <1>24

(* Every variable keeps its type, whatever requests arrive and however they
   end. *)
THEOREM RemoteTypeCorrect == Spec => []TypeOK
<1>1. TInv => TypeOK
  BY DEF TInv
<1> QED
  BY <1>1, InitTInv, NextTInv, PTL DEF Spec
-----------------------------------------------------------------------------
(* The readiness gate. *)

(* The request whose probe is in flight holds the lock, and probes only while
   nothing is established. *)
ProberHoldsLock == \A c \in Caller : pc[c] = "probing" => owner = c

ProbesOnlyUnknown == Probing => ~probedOk /\ ~contractFailed

(* The stamp a cancelled probe would go back to is the last answered probe's;
   with none in flight, that is the stamp itself. *)
WindowKept ==
  /\ ~Probing => probeAttemptedAt = spentAt
  /\ Probing => previous = spentAt

GateKept == ProberHoldsLock /\ ProbesOnlyUnknown /\ FailClosed /\ WindowKept

InGate(d) == pc[d] \in {"queued", "fetching"}

\* At the start nothing is probed, and the window is the abstract one.
LEMMA InitGate == Init => GateKept /\ Attempt!Init
<1> SUFFICES ASSUME Init PROVE GateKept /\ Attempt!Init
  OBVIOUS
<1>1. \A c \in Caller : pc[c] = "idle"
  BY DEF Init
<1>2. ~Probing
  BY <1>1 DEF Probing
<1> QED
  BY <1>1, <1>2
     DEF Init, GateKept, ProberHoldsLock, ProbesOnlyUnknown, FailClosed, WindowKept,
         Attempt!Init

(* What a stretch does to the places of requests it ends, or lets into the gate. *)
LEMMA EndMoves ==
  ASSUME TypeOK, NEW c \in Caller, NEW outcome, End(c, outcome)
  PROVE  OthersKeepPlace(c) /\ pc'[c] = "done"
BY DEF TypeOK, OthersKeepPlace, End

\* Past the readiness gate a request is answered or queues for a slot.
LEMMA ProceedMoves ==
  ASSUME TypeOK, NEW c \in Caller, NEW k, Proceed(c, k)
  PROVE  OthersKeepPlace(c) /\ pc'[c] \in {"done", "queued"}
BY ProceedKeeps

\* At the gate it is answered, goes on, or waits to probe; nobody else moves.
LEMMA ReadyMoves ==
  ASSUME TypeOK, NEW c \in Caller, NEW k, Ready(c, k)
  PROVE  /\ OthersKeepPlace(c)
         /\ pc'[c] \in {"done", "entering", "waiting"} \/ (pc'[c] = "queued" /\ probedOk)
         /\ owner # NoOne => owner' = owner
<1>1. CASE probedOk
  BY <1>1, ReadyKeeps DEF Ready, lock
<1>2. CASE ~probedOk
  <2>1. pc'[c] \in {"done", "entering", "waiting"}
    BY <1>2 DEF Ready, End, Acquire, TypeOK
  <2> QED
    BY <1>2, <2>1, ReadyKeeps DEF Ready, Acquire, LockIsFree, TakeLock, JoinLine, lock
<1> QED
  BY <1>1, <1>2

(* Every step is a step of ThrottledAttempt, or one it does not see, and keeps
   the gate in order. *)
LEMMA NextGate ==
  TypeOK /\ GateKept /\ [Next]_vars => GateKept' /\ [Attempt!Next]_(Attempt!vars)
<1> SUFFICES ASSUME TypeOK, ProberHoldsLock, ProbesOnlyUnknown, FailClosed, WindowKept,
                    [Next]_vars
             PROVE  GateKept' /\ [Attempt!Next]_(Attempt!vars)
  BY DEF GateKept
<1> DEFINE Goal == GateKept' /\ [Attempt!Next]_(Attempt!vars)
<1> USE DEF Attempt!vars, probe, lock, limiter, request, world, history
<1>n. NoOne \notin Caller
  BY RemoteAssumption
<1>p. pc \in [Caller -> Places]
  BY DEF TypeOK
\* Steps during which no probe starts or ends.
<1>1. ASSUME \A d \in Caller : pc'[d] = "probing" <=> pc[d] = "probing",
             \A d \in Caller : pc[d] = "probing" => owner' = owner,
             \A d \in Caller : InGate(d)' => InGate(d) \/ probedOk,
             UNCHANGED <<probe, spentAt>>,
             UNCHANGED now \/ (now' > now)
      PROVE  Goal
  <2>1. Probing' = Probing
    BY <1>1 DEF Probing
  <2>2. ProberHoldsLock'
    BY <1>1 DEF ProberHoldsLock
  <2>3. ProbesOnlyUnknown' /\ WindowKept'
    BY <1>1, <2>1 DEF ProbesOnlyUnknown, WindowKept
  <2>4. FailClosed'
    BY <1>1 DEF FailClosed, InGate
  <2>5. Attempt!Tick \/ UNCHANGED Attempt!vars
    BY <1>1, <2>1 DEF Attempt!Tick
  <2> QED
    BY <2>2, <2>3, <2>4, <2>5 DEF GateKept, Attempt!Next
\* A stretch of a request that is not probing, before and after.
<1>2. ASSUME NEW c \in Caller, OthersKeepPlace(c), pc[c] # "probing", pc'[c] # "probing",
             InGate(c)' => InGate(c) \/ probedOk,
             \A d \in Caller \ {c} : pc[d] = "probing" => owner' = owner,
             UNCHANGED <<probe, spentAt, now>>
      PROVE  Goal
  <2>1. \A d \in Caller : pc'[d] = "probing" <=> pc[d] = "probing"
    BY <1>2 DEF OthersKeepPlace
  <2>2. \A d \in Caller : pc[d] = "probing" => owner' = owner
    BY <1>2
  <2>3. \A d \in Caller : InGate(d)' => InGate(d) \/ probedOk
    BY <1>2 DEF OthersKeepPlace, InGate
  <2> HIDE DEF Goal
  <2> QED
    BY <1>1, <1>2, <2>1, <2>2, <2>3
<1>3. ASSUME NEW c \in Caller, NEW k \in Cookie, Gates(c, k)
      PROVE  Goal
  <2>1. pc[c] = "idle" /\ UNCHANGED <<probe, spentAt, now>>
    BY <1>3 DEF Gates, RefusedForged, RefusedRemembered, RefusedLatched, Admit, Arrives
  <2>2. /\ OthersKeepPlace(c)
        /\ pc'[c] \in {"done", "entering", "waiting"} \/ (pc'[c] = "queued" /\ probedOk)
        /\ owner # NoOne => owner' = owner
    BY <1>3, EndMoves, ReadyMoves
       DEF Gates, RefusedForged, RefusedRemembered, RefusedLatched, Admit
  <2>3. \A d \in Caller : pc[d] = "probing" => owner' = owner
    BY <1>n, <2>2 DEF ProberHoldsLock
  <2> HIDE DEF Goal
  <2> QED
    BY <1>2, <2>1, <2>2, <2>3 DEF InGate
<1>4. ASSUME NEW c \in Caller, Prepare(c) \/ RefusedUnread(c)
      PROVE  Goal
  <2>1. pc[c] = "idle" /\ UNCHANGED <<probe, spentAt, now>>
    BY <1>4 DEF Prepare, RefusedUnread, Arrives
  <2>2. /\ OthersKeepPlace(c)
        /\ pc'[c] \in {"done", "entering", "waiting"} \/ (pc'[c] = "queued" /\ probedOk)
        /\ owner # NoOne => owner' = owner
    BY <1>4, EndMoves, ReadyMoves DEF Prepare, RefusedUnread
  <2>3. \A d \in Caller : pc[d] = "probing" => owner' = owner
    BY <1>n, <2>2 DEF ProberHoldsLock
  <2> HIDE DEF Goal
  <2> QED
    BY <1>2, <2>1, <2>2, <2>3 DEF InGate
<1>5. ASSUME NEW c \in Caller, Rechecked(c)
      PROVE  Goal
  <2>1. owner = c /\ pc[c] # "probing" /\ UNCHANGED <<probe, spentAt, now>>
    BY <1>5 DEF Rechecked, HasTurn
  <2>2. OthersKeepPlace(c) /\ (pc'[c] = "done" \/ (pc'[c] = "queued" /\ probedOk))
    BY <1>5, EndMoves, ProceedMoves DEF Rechecked
  <2>3. \A d \in Caller : pc[d] # "probing"
    BY <2>1 DEF ProberHoldsLock
  <2> HIDE DEF Goal
  <2> QED
    BY <1>2, <2>1, <2>2, <2>3 DEF InGate
<1>6. ASSUME NEW c \in Caller, BeginProbe(c)
      PROVE  Goal
  <2>1. \A d \in Caller : pc[d] # "probing"
    BY <1>6 DEF BeginProbe, StartProbe, HasTurn, ProberHoldsLock
  <2>2. pc'[c] = "probing" /\ \A d \in Caller \ {c} : pc'[d] = pc[d]
    BY <1>6, <1>p DEF BeginProbe, StartProbe
  <2>3. ~Probing /\ Probing'
    BY <2>1, <2>2 DEF Probing
  <2>4. owner' = c /\ previous' = spentAt' /\ probeAttemptedAt = spentAt
    BY <1>6, <2>3 DEF BeginProbe, StartProbe, HasTurn, WindowKept
  <2>5. ProberHoldsLock'
    BY <2>1, <2>2, <2>4 DEF ProberHoldsLock
  <2>6. ProbesOnlyUnknown' /\ WindowKept'
    BY <1>6, <2>3, <2>4 DEF BeginProbe, StartProbe, ProbesOnlyUnknown, WindowKept
  <2>7. FailClosed'
    BY <1>6, <2>2 DEF BeginProbe, StartProbe, FailClosed
  <2>8. Attempt!Begin
    BY <1>6, <2>3, <2>4
       DEF BeginProbe, StartProbe, MayProbe, Attempt!Begin, Attempt!WindowOpen
  <2> QED
    BY <2>5, <2>6, <2>7, <2>8 DEF GateKept, Attempt!Next
\* A probe ends: an answer spends the window, a cancellation does not.
<1>7. ASSUME NEW c \in Caller, NEW stamp, ProbeEnds(c, stamp), OthersKeepPlace(c),
             pc'[c] = "done" \/ (pc'[c] = "queued" /\ probedOk'),
             ~(probedOk' /\ contractFailed'),
             \/ stamp = probeAttemptedAt /\ spentAt' = probeAttemptedAt
             \/ stamp = previous /\ UNCHANGED spentAt
      PROVE  Goal
  <2>1. Probing /\ ~probedOk /\ owner = c
    BY <1>7 DEF ProbeEnds, Probing, ProbesOnlyUnknown, ProberHoldsLock
  <2>2. \A d \in Caller : pc'[d] # "probing"
    BY <1>7, <2>1 DEF OthersKeepPlace, ProberHoldsLock
  <2>3. ~Probing'
    BY <2>2 DEF Probing
  <2>4. probeAttemptedAt' = spentAt'
    BY <1>7, <2>1 DEF ProbeEnds, WindowKept
  <2>5. ProberHoldsLock' /\ ProbesOnlyUnknown' /\ WindowKept'
    BY <2>2, <2>3, <2>4 DEF ProberHoldsLock, ProbesOnlyUnknown, WindowKept
  <2>6. FailClosed'
    BY <1>7, <2>1 DEF OthersKeepPlace, FailClosed
  <2>7. Attempt!Complete \/ Attempt!Abort
    BY <1>7, <2>1, <2>3 DEF ProbeEnds, Attempt!Complete, Attempt!Abort
  <2> QED
    BY <2>5, <2>6, <2>7 DEF GateKept, Attempt!Next
<1>8. ASSUME NEW c \in Caller, ProbeSucceeds(c)
      PROVE  Goal
  <2>1. OthersKeepPlace(c) /\ pc'[c] \in {"done", "queued"}
    BY <1>8, ProceedMoves DEF ProbeSucceeds
  <2>2. ProbeEnds(c, probeAttemptedAt) /\ probedOk' /\ spentAt' = probeAttemptedAt
    BY <1>8 DEF ProbeSucceeds
  <2>3. ~contractFailed'
    BY <1>8 DEF ProbeSucceeds, ProbeEnds, Probing, ProbesOnlyUnknown
  <2> HIDE DEF Goal
  <2> QED
    BY <1>7, <2>1, <2>2, <2>3
<1>9. ASSUME NEW c \in Caller, ProbeRefused(c) \/ ProbeFails(c) \/ ProbeCancelled(c)
      PROVE  Goal
  <2>1. PICK stamp : /\ ProbeEnds(c, stamp)
                     /\ \/ stamp = probeAttemptedAt /\ spentAt' = probeAttemptedAt
                        \/ stamp = previous /\ UNCHANGED spentAt
    BY <1>9 DEF ProbeRefused, ProbeFails, ProbeCancelled
  <2>2. PICK outcome : End(c, outcome)
    BY <1>9 DEF ProbeRefused, ProbeFails, ProbeCancelled
  <2>3. OthersKeepPlace(c) /\ pc'[c] = "done"
    BY <2>2, EndMoves
  <2>4. ~probedOk'
    BY <1>9 DEF ProbeRefused, ProbeFails, ProbeCancelled, ProbeEnds, Probing,
                ProbesOnlyUnknown
  <2> HIDE DEF Goal
  <2> QED
    BY <1>7, <2>1, <2>3, <2>4
<1>10. ASSUME NEW c \in Caller, WaitCancelled(c)
       PROVE  Goal
  <2>1. OthersKeepPlace(c) /\ pc'[c] = "done" /\ pc[c] = "waiting"
    BY <1>10, EndMoves DEF WaitCancelled
  <2>2. \A d \in Caller \ {c} : pc[d] = "probing" => owner' = owner
    BY <1>10 DEF WaitCancelled, Withdraw, LeaveLine, ProberHoldsLock
  <2>3. UNCHANGED <<probe, spentAt, now>>
    BY <1>10 DEF WaitCancelled
  <2> HIDE DEF Goal
  <2> QED
    BY <1>2, <2>1, <2>2, <2>3 DEF InGate
<1>11. ASSUME NEW c \in Caller,
              \/ Send(c) \/ QueueTimesOut(c) \/ QueueCancelled(c) \/ FetchEnds(c)
              \/ FetchRaises(c) \/ FetchCancelled(c) \/ UpstreamReplies(c)
       PROVE  Goal
  <2>1. /\ InGate(c)
        /\ UNCHANGED <<probe, owner, spentAt, now>>
        /\ OthersKeepPlace(c)
        /\ pc'[c] # "probing"
    <3>1. CASE Send(c) \/ UpstreamReplies(c)
      BY <3>1 DEF Send, UpstreamReplies, InGate, OthersKeepPlace, TypeOK
    <3>2. CASE ~(Send(c) \/ UpstreamReplies(c))
      <4>1. PICK outcome : End(c, outcome)
        BY <1>11, <3>2
           DEF QueueTimesOut, QueueCancelled, FetchEnds, FetchAnswers, FetchLimited,
               FetchFails, FetchRaises, FetchCancelled, FetchLeft
      <4>2. InGate(c) /\ UNCHANGED <<probe, owner, spentAt, now>>
        BY <1>11, <3>2
           DEF QueueTimesOut, QueueCancelled, FetchEnds, FetchAnswers, FetchLimited,
               FetchFails, FetchRaises, FetchCancelled, FetchLeft, InGate
      <4> QED
        BY <4>1, <4>2, EndMoves
    <3> QED
      BY <3>1, <3>2
  <2> HIDE DEF Goal
  <2> QED
    BY <1>2, <2>1 DEF InGate
<1>12. ASSUME NEW c \in Caller, Return(c)
       PROVE  Goal
  <2>1. /\ pc[c] = "done" /\ pc'[c] = "idle" /\ OthersKeepPlace(c)
        /\ UNCHANGED <<probe, owner, spentAt, now>>
    BY <1>12 DEF Return, OthersKeepPlace, TypeOK
  <2> HIDE DEF Goal
  <2> QED
    BY <1>2, <2>1 DEF InGate
<1>13. ASSUME \/ \E t \in Token, status \in Statuses : SessionChanges(t, status)
              \/ Tick
              \/ UNCHANGED vars
       PROVE  Goal
  <2>1. UNCHANGED <<probe, owner, spentAt, pc>>
    BY <1>13 DEF SessionChanges, Tick, vars
  <2>2. UNCHANGED now \/ (now' > now)
    BY <1>13 DEF SessionChanges, Tick, vars, TypeOK
  <2>3. \A d \in Caller : InGate(d)' => InGate(d)
    BY <2>1 DEF InGate
  <2> HIDE DEF Goal
  <2> QED
    BY <1>1, <2>1, <2>2, <2>3
<1> HIDE DEF Goal
<1>14. ASSUME NEW c \in Caller, Turn(c) \/ ProbeAnswered(c)
       PROVE  Goal
  BY <1>5, <1>6, <1>8, <1>9, <1>14 DEF Turn, ProbeAnswered
<1>15. ASSUME Next PROVE Goal
  BY <1>3, <1>4, <1>9, <1>10, <1>11, <1>12, <1>13, <1>14, <1>15 DEF Next
<1>16. Goal
  BY <1>13, <1>15
<1> QED
  BY <1>16 DEF Goal

(* No cookie is sent before upstream has been shown to honour the contract, and
   never to one found not to: the gate fails closed for any number of requests. *)
THEOREM GateFailsClosed == Spec => []FailClosed
<1>1. GateKept => FailClosed
  BY DEF GateKept
<1> QED
  BY <1>1, InitGate, NextGate, RemoteTypeCorrect, PTL DEF Spec

(* Seen from upstream, the contract probe is a throttled attempt: probes come
   one at a time and a full window apart, however many requests arrive. *)
THEOREM ProbeThrottled == Spec => ProbeIsThrottled
BY InitGate, NextGate, RemoteTypeCorrect, PTL DEF Spec, ProbeIsThrottled, Attempt!Spec
-----------------------------------------------------------------------------
(* The outbound slots. *)

InSlots == {c \in Caller : InGate(c)}

(* Every slot and every place in line belongs to a request that is at that
   stage, which is what NoSlotLeak says and what each stretch relies on: the one
   that joins was not there, the one that leaves was, and only once. *)
SlotsKept ==
  /\ Accounted(holders, line, InSlots, Slots)
  /\ \A c \in Caller : pc[c] = "fetching" => c \in holders

\* The instance's cardinality is the library's.
LEMMA SameCount == \A S : Limiter!Cardinality(S) = Cardinality(S)
BY DEF Limiter!Cardinality, Cardinality

\* At the start no one holds a slot and no one waits.
LEMMA InitSlots == Init => SlotsKept
<1> SUFFICES ASSUME Init PROVE SlotsKept
  OBVIOUS
<1>1. holders = {} /\ line = <<>> /\ \A c \in Caller : pc[c] = "idle"
  BY DEF Init
<1>2. InSlots = {}
  BY <1>1 DEF InSlots, InGate
<1>3. IsFiniteSet(holders) /\ Cardinality(holders) = 0
  BY <1>1, FS_EmptySet
<1>4. Len(line) = 0
  BY <1>1
<1> QED
  BY <1>1, <1>2, <1>3, <1>4, RemoteAssumption DEF SlotsKept, Accounted

\* A stretch that ends nobody's use of a slot, and begins none.
LEMMA StandingSlots ==
  ASSUME SlotsKept, UNCHANGED limiter,
         \A d \in Caller : InGate(d)' <=> InGate(d),
         \A d \in Caller : pc'[d] = "fetching" => pc[d] = "fetching" \/ d \in holders
  PROVE  SlotsKept'
<1>1. InSlots' = InSlots
  BY DEF InSlots
<1> QED
  BY <1>1 DEF SlotsKept, Accounted, limiter

\* A request that asks for a slot.
LEMMA JoiningSlots ==
  ASSUME TypeOK, SlotsKept, NEW c \in Caller, ~InGate(c), Limiter!TakeSlot(c),
         OthersKeepPlace(c), pc'[c] = "queued"
  PROVE  SlotsKept'
<1>1. InSlots' = InSlots \cup {c} /\ c \notin InSlots
  BY DEF InSlots, InGate, OthersKeepPlace
<1>2. holders \in SUBSET Caller /\ line \in Seq(Caller) /\ Slots \in Nat
  BY RemoteAssumption DEF TypeOK
<1>3. Accounted(holders', line', InSlots', Slots)
  <2>a. Accounted(holders, line, InSlots, Slots) /\ c \notin InSlots
    BY <1>1 DEF SlotsKept
  <2>1. CASE line = <<>> /\ Cardinality(holders) < Slots
    <3>1. Accounted(holders \cup {c}, line, InSlots \cup {c}, Slots)
      BY <1>2, <2>a, <2>1, NewcomerIsAccounted
    <3>2. holders' = holders \cup {c} /\ line' = line
      BY <2>1, SameCount DEF Limiter!TakeSlot, Limiter!SlotIsFree
    <3> QED
      BY <1>1, <3>1, <3>2
  <2>2. CASE ~(line = <<>> /\ Cardinality(holders) < Slots)
    <3>1. Accounted(holders, Append(line, c), InSlots \cup {c}, Slots)
      BY <1>2, <2>a, <2>2, NewcomerIsAccounted
    <3>2. holders' = holders /\ line' = Append(line, c)
      BY <2>2, SameCount DEF Limiter!TakeSlot, Limiter!SlotIsFree
    <3> QED
      BY <1>1, <3>1, <3>2
  <2> QED
    BY <2>1, <2>2
<1>4. holders \subseteq holders'
  BY DEF Limiter!TakeSlot
<1> QED
  BY <1>3, <1>4 DEF SlotsKept, OthersKeepPlace

\* A request that gives its slot back.
LEMMA LeavingSlots ==
  ASSUME TypeOK, SlotsKept, NEW c \in Caller, c \in holders, Limiter!GiveBack(c),
         OthersKeepPlace(c), pc'[c] = "done"
  PROVE  SlotsKept'
<1>1. InSlots' = InSlots \ {c}
  BY DEF InSlots, InGate, OthersKeepPlace
<1>2. holders \in SUBSET Caller /\ line \in Seq(Caller) /\ Slots \in Nat
  BY RemoteAssumption DEF TypeOK
<1>3. Accounted(holders', line', InSlots', Slots)
  <2>a. Accounted(holders, line, InSlots, Slots)
    BY DEF SlotsKept
  <2>1. CASE line = <<>>
    <3>1. Accounted(holders \ {c}, line, InSlots \ {c}, Slots)
      BY <1>2, <2>a, <2>1, SlotGivenBackIsAccounted
    <3> QED
      BY <1>1, <2>1, <3>1 DEF Limiter!GiveBack
  <2>2. CASE line # <<>>
    <3>1. Accounted((holders \ {c}) \cup {Head(line)}, Tail(line), InSlots \ {c}, Slots)
      BY <1>2, <2>a, <2>2, SlotGivenBackIsAccounted
    <3> QED
      BY <1>1, <2>2, <3>1 DEF Limiter!GiveBack
  <2> QED
    BY <2>1, <2>2
<1>4. holders \ {c} \subseteq holders'
  BY DEF Limiter!GiveBack
<1> QED
  BY <1>3, <1>4 DEF SlotsKept, OthersKeepPlace

\* A request that stops waiting for one.
LEMMA AbandoningSlots ==
  ASSUME TypeOK, SlotsKept, NEW c \in Caller, Limiter!Abandon(c),
         OthersKeepPlace(c), pc'[c] = "done"
  PROVE  SlotsKept'
<1>1. CASE c \in holders
  BY <1>1, LeavingSlots DEF Limiter!Abandon
<1>2. CASE c \notin holders
  <2>1. PICK i \in DOMAIN line :
          line[i] = c /\ line' = Limiter!RemoveAt(line, i) /\ UNCHANGED holders
    BY <1>2 DEF Limiter!Abandon
  <2>2. holders \in SUBSET Caller /\ line \in Seq(Caller) /\ Slots \in Nat
    BY RemoteAssumption DEF TypeOK
  <2>3. i \in 1..Len(line)
    BY <2>2, LenProperties
  <2>4. InSlots' = InSlots \ {line[i]}
    BY <2>1 DEF InSlots, InGate, OthersKeepPlace
  <2>5. Accounted(holders, RemoveAt(line, i), InSlots \ {line[i]}, Slots)
    BY <2>2, <2>3, LeaverIsAccounted DEF SlotsKept
  <2>6. line' = RemoveAt(line, i)
    BY <2>1 DEF Limiter!RemoveAt, RemoveAt
  <2> QED
    BY <2>1, <2>4, <2>5, <2>6 DEF SlotsKept, OthersKeepPlace
<1> QED
  BY <1>1, <1>2

\* Past the readiness gate, a request joins the slots or is done.
LEMMA ProceedingSlots ==
  ASSUME TypeOK, SlotsKept, NEW c \in Caller, ~InGate(c), NEW k, Proceed(c, k)
  PROVE  SlotsKept'
<1>1. CASE k = NoCookie
  <2>1. End(c, "ready") /\ UNCHANGED limiter
    BY <1>1 DEF Proceed
  <2> QED
    BY <2>1, EndMoves, StandingSlots DEF OthersKeepPlace, InGate
<1>2. CASE k # NoCookie
  <2>1. Limiter!TakeSlot(c) /\ OthersKeepPlace(c) /\ pc'[c] = "queued"
    BY <1>2, ProceedKeeps DEF Proceed
  <2> QED
    BY <2>1, JoiningSlots
<1> QED
  BY <1>1, <1>2

\* Every step accounts for every slot.
LEMMA NextSlots == TypeOK /\ SlotsKept /\ [Next]_vars => SlotsKept'
<1> SUFFICES ASSUME TypeOK, SlotsKept, [Next]_vars PROVE SlotsKept'
  OBVIOUS
\* A request that ends outside the limiter.
<1>1. ASSUME NEW c \in Caller, NEW outcome, End(c, outcome), ~InGate(c), UNCHANGED limiter
      PROVE  SlotsKept'
  BY <1>1, EndMoves, StandingSlots DEF OthersKeepPlace, InGate
<1>2. ASSUME NEW c \in Caller, NEW k, Ready(c, k), ~InGate(c)
      PROVE  SlotsKept'
  <2>1. CASE probedOk
    BY <1>2, <2>1, ProceedingSlots DEF Ready
  <2>2. CASE ~probedOk
    <3>1. UNCHANGED limiter
      BY <1>2, <2>2 DEF Ready
    <3>2. OthersKeepPlace(c) /\ pc'[c] \in {"done", "entering", "waiting"}
      BY <1>2, <2>2, ReadyMoves
    <3> QED
      BY <1>2, <3>1, <3>2, StandingSlots DEF OthersKeepPlace, InGate
  <2> QED
    BY <2>1, <2>2
<1>3. ASSUME NEW c \in Caller, NEW k \in Cookie, Gates(c, k)
      PROVE  SlotsKept'
  <2>1. ~InGate(c)
    BY <1>3 DEF Gates, RefusedForged, RefusedRemembered, RefusedLatched, Admit, Arrives,
                InGate
  <2>2. CASE Admit(c, k)
    BY <1>2, <2>1, <2>2 DEF Admit
  <2>3. CASE ~Admit(c, k)
    <3>1. PICK outcome : End(c, outcome)
      BY <1>3, <2>3 DEF Gates, RefusedForged, RefusedRemembered, RefusedLatched
    <3> QED
      BY <1>1, <1>3, <2>1, <2>3, <3>1
         DEF Gates, RefusedForged, RefusedRemembered, RefusedLatched, limiter
  <2> QED
    BY <2>2, <2>3
<1>4. ASSUME NEW c \in Caller, RefusedUnread(c) \/ Prepare(c)
      PROVE  SlotsKept'
  <2>1. ~InGate(c)
    BY <1>4 DEF RefusedUnread, Prepare, Arrives, InGate
  <2> QED
    BY <1>1, <1>2, <1>4, <2>1 DEF RefusedUnread, Prepare, limiter
<1>5. ASSUME NEW c \in Caller, Rechecked(c)
      PROVE  SlotsKept'
  <2>1. ~InGate(c)
    BY <1>5 DEF Rechecked, HasTurn, InGate
  <2>2. CASE probedOk
    BY <1>5, <2>1, <2>2, ProceedingSlots DEF Rechecked
  <2>3. CASE ~probedOk
    <3>1. UNCHANGED limiter /\ \E outcome : End(c, outcome)
      BY <1>5, <2>3 DEF Rechecked
    <3> QED
      BY <1>1, <2>1, <3>1
  <2> QED
    BY <2>2, <2>3
<1>6. ASSUME NEW c \in Caller,
             \/ ProbeSucceeds(c) \/ ProbeRefused(c) \/ ProbeFails(c) \/ ProbeCancelled(c)
      PROVE  SlotsKept'
  <2>1. ~InGate(c)
    BY <1>6 DEF ProbeSucceeds, ProbeRefused, ProbeFails, ProbeCancelled, ProbeEnds, InGate
  <2>2. CASE ProbeSucceeds(c)
    BY <2>1, <2>2, ProceedingSlots DEF ProbeSucceeds
  <2>3. CASE ~ProbeSucceeds(c)
    <3>1. UNCHANGED limiter /\ \E outcome : End(c, outcome)
      BY <1>6, <2>3 DEF ProbeRefused, ProbeFails, ProbeCancelled, limiter
    <3> QED
      BY <1>1, <2>1, <3>1
  <2> QED
    BY <2>2, <2>3
<1>7. ASSUME NEW c \in Caller,
             BeginProbe(c) \/ Send(c) \/ UpstreamReplies(c) \/ Return(c)
      PROVE  SlotsKept'
  <2>1. UNCHANGED limiter
    BY <1>7 DEF BeginProbe, StartProbe, Send, UpstreamReplies, Return, limiter
  <2>2. \A d \in Caller : InGate(d)' <=> InGate(d)
    BY <1>7 DEF BeginProbe, StartProbe, HasTurn, Send, UpstreamReplies, Return, InGate, TypeOK
  <2>3. \A d \in Caller : pc'[d] = "fetching" => pc[d] = "fetching" \/ d \in holders
    BY <1>7 DEF BeginProbe, StartProbe, Send, UpstreamReplies, Return, TypeOK
  <2> QED
    BY <2>1, <2>2, <2>3, StandingSlots
<1>8. ASSUME NEW c \in Caller, WaitCancelled(c)
      PROVE  SlotsKept'
  BY <1>1, <1>8 DEF WaitCancelled, InGate, limiter
<1>9. ASSUME NEW c \in Caller, QueueTimesOut(c) \/ QueueCancelled(c)
      PROVE  SlotsKept'
  <2>1. Limiter!Abandon(c) /\ \E outcome : End(c, outcome)
    BY <1>9 DEF QueueTimesOut, QueueCancelled
  <2> QED
    BY <2>1, EndMoves, AbandoningSlots
<1>10. ASSUME NEW c \in Caller, FetchEnds(c) \/ FetchRaises(c) \/ FetchCancelled(c)
       PROVE  SlotsKept'
  <2>1. /\ pc[c] = "fetching"
        /\ Limiter!GiveBack(c)
        /\ \E outcome : End(c, outcome)
    BY <1>10 DEF FetchEnds, FetchAnswers, FetchLimited, FetchFails, FetchRaises,
                 FetchCancelled, FetchLeft
  <2>2. c \in holders
    BY <2>1 DEF SlotsKept
  <2> QED
    BY <2>1, <2>2, EndMoves, LeavingSlots
<1>11. ASSUME \/ \E t \in Token, status \in Statuses : SessionChanges(t, status)
              \/ Tick
              \/ UNCHANGED vars
       PROVE  SlotsKept'
  <2>1. UNCHANGED <<limiter, pc>>
    BY <1>11 DEF SessionChanges, Tick, vars, request
  <2> QED
    BY <2>1, StandingSlots DEF InGate
<1> QED
  BY <1>3, <1>4, <1>5, <1>6, <1>7, <1>8, <1>9, <1>10, <1>11 DEF Next, Turn, ProbeAnswered

(* However a request leaves the exchange, its slot is given back once: no slot
   is held for nothing, more than Slots are never out, and no one waits beside
   a free one. *)
THEOREM SlotsAreGivenBack == Spec => []NoSlotLeak
<1>1. SlotsKept => NoSlotLeak
  <2> SUFFICES ASSUME SlotsKept PROVE NoSlotLeak
    OBVIOUS
  <2>1. InSlots = {c \in Caller : pc[c] \in {"queued", "fetching"}}
    BY DEF InSlots, InGate
  <2> QED
    BY <2>1, SameCount DEF SlotsKept, Accounted, NoSlotLeak, Limiter!SlotsAreUsed
<1> QED
  BY <1>1, InitSlots, NextSlots, RemoteTypeCorrect, PTL DEF Spec
-----------------------------------------------------------------------------
(* The negative cache's bound. *)

WithinBounds(s) ==
  /\ Len(s) <= MaxRemembered
  /\ \A i, j \in DOMAIN s : s[i].key = s[j].key => i = j

\* Deleting what has expired leaves the others within bounds.
LEMMA AskingBounds ==
  ASSUME entries \in Seq(Entry), WithinBounds(entries), NEW key
  PROVE  WithinBounds(Cache!AfterAsking(key))
<1>1. CASE Ttl > 0 /\ Cache!Has(key) /\ ~Cache!Holds(key)
  <2> DEFINE p == Cache!Position(key)
             r == RemoveAt(entries, p)
  <2>1. p \in 1..Len(entries)
    BY <1>1, PositionIsAPlace
  <2>2. Cache!AfterAsking(key) = r
    BY <1>1 DEF Cache!AfterAsking, Cache!RemoveAt, RemoveAt
  <2> HIDE DEF p
  <2>3. /\ r \in Seq(Entry)
        /\ Len(r) = Len(entries) - 1
        /\ \A j \in 1..(Len(entries) - 1) :
             r[j] = IF j < p THEN entries[j] ELSE entries[j + 1]
    BY <2>1, RemoveAtProperties
  <2> HIDE DEF r
  <2>4. /\ Len(entries) \in Nat
        /\ DOMAIN entries = 1..Len(entries)
        /\ DOMAIN r = 1..(Len(entries) - 1)
    BY <2>3, LenProperties
  <2> DEFINE place(j) == IF j < p THEN j ELSE j + 1
  <2>5. \A j \in DOMAIN r : place(j) \in DOMAIN entries /\ r[j] = entries[place(j)]
    BY <2>1, <2>3, <2>4
  <2>6. \A i, j \in DOMAIN r : place(i) = place(j) => i = j
    BY <2>1, <2>4
  <2> HIDE DEF place
  <2>7. \A i, j \in DOMAIN r : r[i].key = r[j].key => i = j
    BY <2>5, <2>6 DEF WithinBounds
  <2>8. Len(r) <= MaxRemembered
    BY <2>3, <2>4, RemoteAssumption DEF WithinBounds
  <2> QED
    BY <2>2, <2>7, <2>8 DEF WithinBounds
<1>2. CASE ~(Ttl > 0 /\ Cache!Has(key) /\ ~Cache!Holds(key))
  BY <1>2 DEF Cache!AfterAsking
<1> QED
  BY <1>1, <1>2

\* Eviction makes room for one more.
LEMMA EvictedBounds ==
  ASSUME entries \in Seq(Entry), WithinBounds(entries)
  PROVE  WithinBounds(Cache!Evicted) /\ Len(Cache!Evicted) < MaxRemembered
<1>1. CASE Len(entries) < MaxRemembered
  BY <1>1 DEF Cache!Evicted
<1>2. CASE ~(Len(entries) < MaxRemembered)
  <2> DEFINE r == SubSeq(entries, 2, Len(entries))
  <2>1. Len(entries) = MaxRemembered /\ Len(entries) \in Nat
        /\ DOMAIN entries = 1..Len(entries)
    BY <1>2, LenProperties, RemoteAssumption DEF WithinBounds
  <2>2. Cache!Evicted = r
    BY <1>2, <2>1 DEF Cache!Evicted
  <2>3. \A i \in 2..Len(entries) : entries[i] \in Entry
    BY <2>1, ElementOfSeq
  <2>4. /\ r \in Seq(Entry)
        /\ Len(r) = IF 2 <= Len(entries) THEN Len(entries) - 2 + 1 ELSE 0
        /\ \A j \in 1..(Len(entries) - 2 + 1) : r[j] = entries[2 + j - 1]
    BY <2>1, <2>3, SubSeqProperties
  <2> HIDE DEF r
  <2>5. Len(r) = Len(entries) - 1 /\ DOMAIN r = 1..(Len(entries) - 1)
    BY <2>1, <2>4, LenProperties, RemoteAssumption
  <2>6. \A j \in DOMAIN r : j + 1 \in DOMAIN entries /\ r[j] = entries[j + 1]
    BY <2>1, <2>4, <2>5
  <2>7. \A i, j \in DOMAIN r : r[i].key = r[j].key => i = j
    <3>1. ASSUME NEW i \in DOMAIN r, NEW j \in DOMAIN r, r[i].key = r[j].key
          PROVE  i = j
      <4>1. i + 1 = j + 1
        BY <2>6, <3>1 DEF WithinBounds
      <4> QED
        BY <2>1, <2>5, <4>1
    <3> QED
      BY <3>1
  <2> QED
    BY <2>1, <2>2, <2>5, <2>7 DEF WithinBounds
<1> QED
  BY <1>1, <1>2

\* Remembering a cookie keeps one entry for each key, and no more than may be.
LEMMA RememberingBounds ==
  ASSUME entries \in Seq(Entry), WithinBounds(entries), now \in Nat, NEW k \in Cookie
  PROVE  WithinBounds(Cache!AfterRemembering(CacheKey(k)))
<1> DEFINE r == Cache!AfterRemembering(CacheKey(k))
<1>1. CASE Ttl = 0
  BY <1>1 DEF Cache!AfterRemembering
<1>2. CASE Ttl # 0 /\ Cache!Has(CacheKey(k))
  <2> DEFINE p == Cache!Position(CacheKey(k))
  <2>1. p \in 1..Len(entries) /\ DOMAIN entries = 1..Len(entries)
    BY <1>2, PositionIsAPlace, LenProperties
  <2>2. r = [entries EXCEPT ![p] = [entries[p] EXCEPT !.at = now]]
    BY <1>2 DEF Cache!AfterRemembering
  <2> HIDE DEF p
  <2>3. entries[p] \in Entry
    BY <2>1, ElementOfSeq
  <2>4. DOMAIN r = DOMAIN entries /\ \A j \in DOMAIN r : r[j].key = entries[j].key
    BY <2>1, <2>2, <2>3 DEF Entry
  <2>5. r \in Seq(Entry)
    BY RememberingKeeps
  <2> HIDE DEF r
  <2>6. Len(r) = Len(entries)
    BY <2>1, <2>4, <2>5, LenProperties
  <2> QED
    BY <2>4, <2>6 DEF WithinBounds, r
<1>3. CASE Ttl # 0 /\ ~Cache!Has(CacheKey(k))
  <2> DEFINE new == [key |-> CacheKey(k), at |-> now]
             old == Cache!Evicted
  <2>1. r = Append(old, new)
    BY <1>3 DEF Cache!AfterRemembering
  <2>2. new \in Entry /\ new.key = CacheKey(k)
    BY DEF Entry
  <2>3. /\ old \in Seq(Entry)
        /\ Len(old) < MaxRemembered
        /\ \A i, j \in DOMAIN old : old[i].key = old[j].key => i = j
        /\ \A j \in 1..Len(old) : old[j].key # CacheKey(k)
    BY <1>3, EvictedKeeps, EvictedBounds DEF WithinBounds, Cache!Has
  <2> HIDE DEF new, old
  <2>4. /\ r \in Seq(Entry)
        /\ Len(r) = Len(old) + 1
        /\ \A i \in 1..Len(old) : r[i] = old[i]
        /\ r[Len(old) + 1] = new
    BY <2>1, <2>2, <2>3, AppendProperties
  <2>5. /\ Len(old) \in Nat
        /\ DOMAIN old = 1..Len(old)
        /\ DOMAIN r = 1..(Len(old) + 1)
    BY <2>3, <2>4, LenProperties
  <2> HIDE DEF r
  <2>6. \A i, j \in DOMAIN r : r[i].key = r[j].key => i = j
    BY <2>2, <2>3, <2>4, <2>5
  <2>7. Len(r) <= MaxRemembered
    BY <2>3, <2>4, <2>5, RemoteAssumption
  <2> QED
    BY <2>6, <2>7 DEF WithinBounds, r
<1> QED
  BY <1>1, <1>2, <1>3

\* Every step that touches the cache asks it or adds to it, within its bounds.
LEMMA NextCache == TInv /\ WithinBounds(entries) /\ [Next]_vars => WithinBounds(entries')
<1> SUFFICES ASSUME TInv, WithinBounds(entries), [Next]_vars
             PROVE  WithinBounds(entries')
  OBVIOUS
<1>e. entries \in Seq(Entry) /\ now \in Nat
  BY DEF TInv, TypeOK, Entry
<1>1. ASSUME NEW c \in Caller, NEW k \in Cookie, Gates(c, k)
      PROVE  WithinBounds(entries')
  BY <1>1, <1>e, AskingBounds
     DEF Gates, RefusedForged, RefusedRemembered, RefusedLatched, Admit
<1>2. ASSUME NEW c \in Caller, FetchAnswers(c)
      PROVE  WithinBounds(entries')
  <2>1. cookie[c] \in Cookie
    BY <1>2 DEF TInv, CookieNamed, FetchAnswers
  <2> QED
    BY <1>2, <1>e, <2>1, RememberingBounds DEF FetchAnswers
<1>3. ASSUME NEW c \in Caller,
             \/ Prepare(c) \/ RefusedUnread(c) \/ Turn(c) \/ ProbeAnswered(c)
             \/ ProbeCancelled(c) \/ WaitCancelled(c) \/ Send(c) \/ QueueTimesOut(c)
             \/ QueueCancelled(c) \/ FetchFails(c)
             \/ \E values \in RetryAfter : FetchLimited(c, values)
             \/ FetchRaises(c) \/ FetchCancelled(c) \/ UpstreamReplies(c) \/ Return(c)
      PROVE  entries' = entries
  BY <1>3
     DEF Prepare, RefusedUnread, Turn, Rechecked, BeginProbe, StartProbe, ProbeAnswered,
         ProbeSucceeds, ProbeRefused, ProbeFails, ProbeCancelled, ProbeEnds, WaitCancelled,
         Send, QueueTimesOut, QueueCancelled, FetchFails, FetchLimited, FetchRaises,
         FetchCancelled, FetchLeft, UpstreamReplies, Return
<1>4. CASE \/ \E t \in Token, status \in Statuses : SessionChanges(t, status)
           \/ Tick
           \/ UNCHANGED vars
  BY <1>4 DEF SessionChanges, Tick, vars
<1> QED
  BY <1>1, <1>2, <1>3, <1>4 DEF Next, FetchEnds

(* However many cookies are refused, the cache holds at most MaxRemembered of
   them, each once. *)
THEOREM CacheStaysBounded == Spec => []CacheIsBounded
<1>1. Init => WithinBounds(entries)
  <2> SUFFICES ASSUME Init PROVE WithinBounds(entries)
    OBVIOUS
  <2>1. entries = <<>>
    BY DEF Init
  <2>2. Len(entries) = 0 /\ DOMAIN entries = {}
    BY <2>1
  <2> QED
    BY <2>2, RemoteAssumption DEF WithinBounds
<1>2. WithinBounds(entries) => CacheIsBounded
  BY DEF WithinBounds, CacheIsBounded, Cache!Bounded
<1>3. TInv /\ WithinBounds(entries) /\ [Next]_vars => WithinBounds(entries)'
  BY NextCache
<1> QED
  BY <1>1, <1>2, <1>3, InitTInv, NextTInv, PTL DEF Spec
=============================================================================
