-------------------------- MODULE JwksClientProofs --------------------------
(***************************************************************************)
(* What holds of JwksClient for every set of tasks and kids and every      *)
(* setting of the clock constants.                                         *)
(***************************************************************************)
EXTENDS JwksClient, TaskLockProofs

(* The kids a sequence of misses is about. *)
KidsOf(m) == {m[i].kid : i \in DOMAIN m}

(* The misses themselves, without their order. *)
EntriesOf(m) == {m[i] : i \in DOMAIN m}

(* No kid has two places. *)
Distinct(m) == \A i, j \in DOMAIN m : m[i].kid = m[j].kid => i = j

(* A memory of misses that is well formed and within its bound. *)
GoodMisses(m) == m \in Seq(Entry) /\ Len(m) <= MaxMisses /\ Distinct(m)
-----------------------------------------------------------------------------
(* Lemmas about the remembered misses. *)

(* The kid's place exists when the kid is there. *)
LEMMA PositionIsAPlace ==
  ASSUME NEW m \in Seq(Entry), NEW k, IsMissing(m, k)
  PROVE  Position(m, k) \in 1..Len(m) /\ m[Position(m, k)].kid = k
<1>1. PICK i \in DOMAIN m : m[i].kid = k
  BY DEF IsMissing
<1>2. Position(m, k) \in DOMAIN m /\ m[Position(m, k)].kid = k
  BY <1>1 DEF Position
<1> QED
  BY <1>2, LenProperties

(* Deleting an expired entry keeps the memory good and adds nothing to it. *)
LEMMA SweptKeeps ==
  ASSUME GoodMisses(missing), NEW k \in Kid
  PROVE  /\ GoodMisses(Swept(k))
         /\ KidsOf(Swept(k)) \subseteq KidsOf(missing)
         /\ EntriesOf(Swept(k)) \subseteq EntriesOf(missing)
<1> DEFINE p == Position(missing, k)
           r == RemoveAt(missing, p)
<1>1. CASE IsMissing(missing, k) /\ IsExpired(missing, k)
  <2>1. missing \in Seq(Entry) /\ Len(missing) \in Nat
    BY LenProperties DEF GoodMisses
  <2>2. p \in 1..Len(missing)
    BY <1>1, <2>1, PositionIsAPlace
  <2>3. /\ r \in Seq(Entry)
        /\ Len(r) = Len(missing) - 1
        /\ \A j \in 1..(Len(missing) - 1) :
             r[j] = IF j < p THEN missing[j] ELSE missing[j + 1]
    BY <2>1, <2>2, RemoveAtProperties
  <2>4. Swept(k) = r
    BY <1>1 DEF Swept
  <2>5. DOMAIN r = 1..(Len(missing) - 1) /\ DOMAIN missing = 1..Len(missing)
    BY <2>1, <2>3, LenProperties
  <2> HIDE DEF p, r
  <2>6. Distinct(r)
    <3> SUFFICES ASSUME NEW i \in 1..(Len(missing) - 1),
                        NEW j \in 1..(Len(missing) - 1),
                        r[i].kid = r[j].kid
                 PROVE  i = j
      BY <2>5 DEF Distinct
    <3> DEFINE old(h) == IF h < p THEN h ELSE h + 1
    <3>1. /\ old(i) \in 1..Len(missing) /\ r[i] = missing[old(i)]
          /\ old(j) \in 1..Len(missing) /\ r[j] = missing[old(j)]
      BY <2>1, <2>2, <2>3
    <3>2. old(i) = old(j)
      BY <2>5, <3>1 DEF GoodMisses, Distinct
    <3> QED
      BY <2>1, <2>2, <3>2
  <2>7. KidsOf(r) \subseteq KidsOf(missing)
    BY <2>1, <2>2, <2>3, <2>5 DEF KidsOf
  <2>8. MaxMisses \in Nat
    BY JwksAssumption
  <2>9. EntriesOf(r) \subseteq EntriesOf(missing)
    BY <2>1, <2>2, <2>3, <2>5 DEF EntriesOf
  <2> QED
    BY <2>1, <2>3, <2>4, <2>6, <2>7, <2>8, <2>9 DEF GoodMisses
<1>2. CASE ~(IsMissing(missing, k) /\ IsExpired(missing, k))
  BY <1>2 DEF Swept
<1> QED
  BY <1>1, <1>2

(* Popping from the front makes room for one more. *)
LEMMA EvictedKeeps ==
  ASSUME NEW m, GoodMisses(m)
  PROVE  /\ GoodMisses(Evicted(m))
         /\ Len(Evicted(m)) < MaxMisses
         /\ KidsOf(Evicted(m)) \subseteq KidsOf(m)
         /\ EntriesOf(Evicted(m)) \subseteq EntriesOf(m)
<1>1. /\ m \in Seq(Entry)
      /\ Len(m) \in Nat
      /\ DOMAIN m = 1..Len(m)
      /\ MaxMisses \in Nat \ {0}
      /\ Len(m) <= MaxMisses
  BY LenProperties, JwksAssumption DEF GoodMisses
<1>2. CASE Len(m) < MaxMisses
  BY <1>1, <1>2 DEF Evicted
<1>3. CASE ~(Len(m) < MaxMisses)
  <2> DEFINE e == SubSeq(m, 2, Len(m))
  <2>1. Len(m) = MaxMisses
    <3>1. Len(m) \in Nat /\ MaxMisses \in Nat /\ Len(m) <= MaxMisses
      BY <1>1
    <3> QED
      BY <1>3, <3>1
  <2>2. Evicted(m) = e
    BY <1>1, <2>1 DEF Evicted
  <2>3. \A i \in 2..Len(m) : m[i] \in Entry
    BY <1>1, ElementOfSeq
  <2>4. /\ e \in Seq(Entry)
        /\ Len(e) = IF 2 <= Len(m) THEN Len(m) - 2 + 1 ELSE 0
        /\ \A i \in 1..(Len(m) - 2 + 1) : e[i] = m[2 + i - 1]
    BY <1>1, <2>3, SubSeqProperties
  <2> HIDE DEF e
  <2>5. /\ Len(e) = Len(m) - 1
        /\ DOMAIN e = 1..(Len(m) - 1)
        /\ \A i \in 1..(Len(m) - 1) : e[i] = m[i + 1]
    BY <1>1, <2>1, <2>4, LenProperties
  <2>6. Distinct(e)
    <3> SUFFICES ASSUME NEW i \in 1..(Len(m) - 1), NEW j \in 1..(Len(m) - 1),
                        e[i].kid = e[j].kid
                 PROVE  i = j
      BY <2>5 DEF Distinct
    <3>1. i + 1 \in DOMAIN m /\ j + 1 \in DOMAIN m
      BY <1>1
    <3>2. m[i + 1].kid = m[j + 1].kid
      BY <2>5
    <3>3. i + 1 = j + 1
      BY <3>1, <3>2 DEF GoodMisses, Distinct
    <3> QED
      BY <1>1, <3>3
  <2>7. KidsOf(e) \subseteq KidsOf(m) /\ EntriesOf(e) \subseteq EntriesOf(m)
    <3>1. \A i \in DOMAIN e : i + 1 \in DOMAIN m /\ e[i] = m[i + 1]
      BY <1>1, <2>5
    <3> QED
      BY <3>1 DEF KidsOf, EntriesOf
  <2> QED
    BY <1>1, <2>1, <2>2, <2>4, <2>5, <2>6, <2>7 DEF GoodMisses
<1> QED
  BY <1>2, <1>3

(* A miss as it is stamped. *)
Miss(k) == [kid |-> k, at |-> now]

(* Remembering a kid keeps the memory good and adds that kid alone. *)
LEMMA RememberKeeps ==
  ASSUME NEW m, GoodMisses(m), NEW k \in Kid, now \in Nat
  PROVE  /\ GoodMisses(Remember(m, k))
         /\ KidsOf(Remember(m, k)) \subseteq KidsOf(m) \cup {k}
         /\ EntriesOf(Remember(m, k)) \subseteq EntriesOf(m) \cup {Miss(k)}
<1> DEFINE room == Evicted(m)
<1>1. /\ GoodMisses(room)
      /\ Len(room) < MaxMisses
      /\ KidsOf(room) \subseteq KidsOf(m)
      /\ EntriesOf(room) \subseteq EntriesOf(m)
  BY EvictedKeeps
<1> HIDE DEF room
<1>2. /\ room \in Seq(Entry)
      /\ Len(room) \in Nat
      /\ DOMAIN room = 1..Len(room)
      /\ MaxMisses \in Nat \ {0}
      /\ \A i \in 1..Len(room) : room[i] \in Entry
  BY <1>1, LenProperties, ElementOfSeq, JwksAssumption DEF GoodMisses
<1>3. CASE IsMissing(room, k)
  <2> DEFINE p == Position(room, k)
             r == [room EXCEPT ![p].at = now]
  <2>1. p \in 1..Len(room) /\ room[p].kid = k
    BY <1>2, <1>3, PositionIsAPlace
  <2>2. Remember(m, k) = r
    BY <1>3 DEF Remember, room
  <2>3. /\ DOMAIN r = 1..Len(room)
        /\ \A i \in 1..Len(room) : r[i] \in Entry /\ r[i].kid = room[i].kid
    BY <1>2, <2>1 DEF Entry
  <2>4. r \in Seq(Entry) /\ Len(r) = Len(room)
    <3>1. r \in [1..Len(room) -> Entry]
      BY <1>2, <2>1, <2>3
    <3> HIDE DEF r
    <3>2. r \in Seq(Entry)
      BY <1>2, <3>1, SeqDef
    <3> QED
      BY <1>2, <2>3, <3>2, LenProperties
  <2>5. \A i \in 1..Len(room) : r[i] = room[i] \/ r[i] = Miss(k)
    <3>1. room[p] \in Entry
      BY <1>2, <2>1
    <3> HIDE DEF p
    <3>2. [room[p] EXCEPT !.at = now] = Miss(k)
      BY <2>1, <3>1 DEF Entry, Miss
    <3> QED
      BY <1>2, <2>1, <3>2
  <2> HIDE DEF r
  <2>6. Distinct(r) /\ KidsOf(r) = KidsOf(room)
    BY <1>1, <1>2, <2>3 DEF GoodMisses, Distinct, KidsOf
  <2>7. EntriesOf(r) \subseteq EntriesOf(room) \cup {Miss(k)}
    BY <1>2, <2>3, <2>5 DEF EntriesOf
  <2> QED
    BY <1>1, <1>2, <2>2, <2>4, <2>6, <2>7 DEF GoodMisses
<1>4. CASE ~IsMissing(room, k)
  <2> DEFINE new == [kid |-> k, at |-> now]
             r   == Append(room, new)
  <2>1. new \in Entry /\ new.kid = k /\ new = Miss(k)
    BY DEF Entry, Miss
  <2>2. Remember(m, k) = r
    BY <1>4 DEF Remember, room
  <2> HIDE DEF new
  <2>3. /\ r \in Seq(Entry)
        /\ Len(r) = Len(room) + 1
        /\ \A i \in 1..Len(room) : r[i] = room[i]
        /\ r[Len(room) + 1] = new
    BY <1>2, <2>1, AppendProperties
  <2>4. DOMAIN r = 1..(Len(room) + 1)
    BY <2>3, LenProperties
  <2> HIDE DEF r
  <2>5. \A i \in 1..Len(room) : room[i].kid # k
    BY <1>2, <1>4 DEF IsMissing
  <2>6. Distinct(r)
    BY <1>1, <1>2, <2>1, <2>3, <2>4, <2>5 DEF GoodMisses, Distinct
  <2>7. KidsOf(r) \subseteq KidsOf(room) \cup {k}
    BY <1>2, <2>1, <2>3, <2>4 DEF KidsOf
  <2>8. EntriesOf(r) \subseteq EntriesOf(room) \cup {Miss(k)}
    BY <1>2, <2>1, <2>3, <2>4 DEF EntriesOf
  <2> QED
    BY <1>1, <1>2, <2>2, <2>3, <2>6, <2>7, <2>8 DEF GoodMisses
<1> QED
  BY <1>3, <1>4
-----------------------------------------------------------------------------
(* Type correctness. *)

(* An answered call is typed like any other. *)
LEMMA FinishKeeps ==
  ASSUME TypeOK, NEW c \in Caller, NEW outcome \in Answers, Finish(c, outcome)
  PROVE  /\ pc' = [pc EXCEPT ![c] = "done"]
         /\ previous' = [previous EXCEPT ![c] = Never]
         /\ pc' \in [Caller -> {"idle", "entering", "waiting", "fetching", "done"}]
         /\ kid' \in [Caller -> Kid \cup {NoKid}]
         /\ answer' \in [Caller -> Answers]
         /\ askedAt' \in [Caller -> Nat \cup {Never}]
         /\ previous' \in [Caller -> Nat \cup {Never}]
         /\ reply' \in [Caller -> (SUBSET Kid) \cup {NoKeys}]
  BY DEF TypeOK, Finish

(* A call that has been made and not answered names a kid. *)
KidNamed == \A c \in Caller : pc[c] \in {"entering", "waiting", "fetching"} => kid[c] \in Kid

(* A call that is answered "unknown" is so by a set that lacks the kid. *)
LEMMA AnswerFromProperties ==
  ASSUME NEW ks, NEW fresh \in BOOLEAN, NEW k
  PROVE  /\ AnswerFrom(ks, fresh, k) \in Answers
         /\ AnswerFrom(ks, fresh, k) = "unknown" => ks # NoKeys /\ fresh /\ k \notin ks
         /\ AnswerFrom(ks, fresh, k) = "key" => ks # NoKeys /\ k \in ks
         /\ AnswerFrom(ks, fresh, k) = "unavailable" => ks = NoKeys \/ ~fresh
  BY DEF AnswerFrom, Answers

(* An answer leaves the memory good and, if it adds a kid, a denied one. *)
LEMMA MissingAfterKeeps ==
  ASSUME NEW m, GoodMisses(m), NEW k \in Kid, NEW outcome, now \in Nat
  PROVE  /\ GoodMisses(MissingAfter(m, k, outcome))
         /\ KidsOf(MissingAfter(m, k, outcome)) \subseteq
              IF outcome = "unknown" THEN KidsOf(m) \cup {k} ELSE KidsOf(m)
         /\ EntriesOf(MissingAfter(m, k, outcome)) \subseteq
              IF outcome = "unknown" THEN EntriesOf(m) \cup {Miss(k)} ELSE EntriesOf(m)
<1>1. CASE outcome = "unknown"
  BY <1>1, RememberKeeps DEF MissingAfter
<1>2. CASE outcome # "unknown"
  BY <1>2 DEF MissingAfter
<1> QED
  BY <1>1, <1>2

(* The type invariant needs the memory's bound and the callers' kids. *)
TInv == TypeOK /\ KidNamed /\ GoodMisses(missing)

\* Nothing remembered is a good list of misses.
LEMMA EmptyIsGood == GoodMisses(<<>>) /\ KidsOf(<<>>) = {} /\ EntriesOf(<<>>) = {}
<1>1. <<>> \in Seq(Entry) /\ Len(<<>>) = 0 /\ DOMAIN <<>> = {}
  BY EmptySeq
<1> QED
  BY <1>1, JwksAssumption DEF GoodMisses, Distinct, KidsOf, EntriesOf

\* The first state is typed.
LEMMA InitTInv == Init => TInv
<1> SUFFICES ASSUME Init PROVE TInv
  OBVIOUS
<1>1. missing = <<>> /\ waiters = <<>> /\ waiters \in Seq(Caller) /\ missing \in Seq(Entry)
  BY EmptySeq DEF Init
<1>2. GoodMisses(missing)
  BY <1>1, EmptyIsGood
<1>3. LongAgo \in Int
  BY JwksAssumption DEF LongAgo
<1>4. TypeOK
  BY <1>1, <1>3, JwksAssumption DEF Init, TypeOK, Answers
<1>5. KidNamed
  BY DEF Init, KidNamed
<1> QED
  BY <1>2, <1>4, <1>5 DEF TInv

\* Every step keeps the types and the bound on the misses.
LEMMA NextTInv == TInv /\ [Next]_vars => TInv'
<1> SUFFICES ASSUME TInv, [Next]_vars PROVE TInv'
  OBVIOUS
<1> USE DEF TInv
<1>0. TypeOK /\ KidNamed /\ GoodMisses(missing) /\ now \in Nat /\ now \in Nat \cup {Never}
  BY DEF TypeOK
<1>a. \A m : GoodMisses(m) => m \in Seq(Entry)
  BY DEF GoodMisses
<1>b. waiters \in Seq(Caller)
  BY DEF TypeOK
<1>1. ASSUME NEW c \in Caller, NEW k \in Kid, AskAnswered(c, k)
      PROVE  TInv'
  BY <1>0, <1>1 DEF AskAnswered, TypeOK, KidNamed, client, lock, upstream, history, Answers
<1>2. ASSUME NEW c \in Caller, NEW k \in Kid, AskLocked(c, k)
      PROVE  TInv'
  <2>1. Append(waiters, c) \in Seq(Caller)
    BY <1>b, AppendProperties
  <2>2. waiters' \in Seq(Caller) /\ owner' \in Caller \cup {NoOne}
    BY <1>0, <1>2, <2>1 DEF AskLocked, Acquire, TakeLock, JoinLine, TypeOK
  <2>3. /\ pc' \in [Caller -> {"idle", "entering", "waiting", "fetching", "done"}]
        /\ \A d \in Caller \ {c} : pc'[d] = pc[d]
    BY <1>0, <1>2 DEF AskLocked, Acquire, TakeLock, JoinLine, TypeOK
  <2> QED
    BY <1>0, <1>2, <2>2, <2>3 DEF AskLocked, TypeOK, KidNamed, client, upstream, history
<1>3. ASSUME NEW c \in Caller, HitUnderLock(c)
      PROVE  TInv'
  <2>1. "key" \in Answers
    BY DEF Answers
  <2> QED
    BY <1>0, <1>b, <1>3, <2>1, FinishKeeps, ReleaseKeeps
       DEF HitUnderLock, TypeOK, KidNamed, Finish, client, upstream, history
<1>4. ASSUME NEW c \in Caller, BeginFetch(c)
      PROVE  TInv'
  BY <1>0, <1>4 DEF BeginFetch, HasTurn, StartFetch, TypeOK, KidNamed, lock, upstream, history
<1>5. ASSUME NEW c \in Caller, ShortCircuit(c)
      PROVE  TInv'
  <2>1. "unknown" \in Answers
    BY DEF Answers
  <2> QED
    BY <1>0, <1>b, <1>5, <2>1, FinishKeeps, ReleaseKeeps
       DEF ShortCircuit, TypeOK, KidNamed, Finish, client, upstream, history
<1>6. ASSUME NEW c \in Caller, AnswerOnHand(c)
      PROVE  TInv'
  <2> DEFINE outcome == AnswerFrom(keys, IsFresh, kid[c])
  <2>1. outcome \in Answers
    BY AnswerFromProperties DEF IsFresh
  <2>2. kid[c] \in Kid
    BY <1>0, <1>6 DEF AnswerOnHand, HasTurn, KidNamed
  <2>3. GoodMisses(missing')
    BY <1>0, <1>6, <2>2, SweptKeeps, MissingAfterKeeps DEF AnswerOnHand
  <2>4. Finish(c, outcome)
    BY <1>6 DEF AnswerOnHand
  <2> HIDE DEF outcome
  <2> QED
    BY <1>0, <1>a, <1>b, <1>6, <2>1, <2>3, <2>4, FinishKeeps, ReleaseKeeps
       DEF AnswerOnHand, TypeOK, KidNamed, Finish, upstream, history
<1>7. ASSUME NEW c \in Caller, FetchSucceeds(c)
      PROVE  TInv'
  <2> DEFINE outcome == AnswerFrom(reply[c], TRUE, kid[c])
  <2>1. outcome \in Answers
    BY AnswerFromProperties
  <2>2. kid[c] \in Kid
    BY <1>0, <1>7 DEF FetchSucceeds, Replace, KidNamed
  <2>3. GoodMisses(missing')
    <3>1. missing' = MissingAfter(<<>>, kid[c], outcome)
      BY <1>7 DEF FetchSucceeds, Replace
    <3> HIDE DEF outcome
    <3>2. GoodMisses(MissingAfter(<<>>, kid[c], outcome))
      BY <1>0, <2>2, EmptyIsGood, MissingAfterKeeps
    <3> QED
      BY <3>1, <3>2
  <2>4. Finish(c, outcome)
    BY <1>7 DEF FetchSucceeds, Replace
  <2> HIDE DEF outcome
  <2> QED
    BY <1>0, <1>a, <1>b, <1>7, <2>1, <2>3, <2>4, FinishKeeps, ReleaseKeeps
       DEF FetchSucceeds, Replace, TypeOK, KidNamed, Finish, upstream
<1>8. ASSUME NEW c \in Caller, FetchFails(c)
      PROVE  TInv'
  <2> DEFINE outcome == AnswerFrom(keys, IsFresh, kid[c])
  <2>1. outcome \in Answers
    BY AnswerFromProperties DEF IsFresh
  <2>2. kid[c] \in Kid
    BY <1>0, <1>8 DEF FetchFails, KidNamed
  <2>3. GoodMisses(missing')
    BY <1>0, <1>8, <2>2, MissingAfterKeeps DEF FetchFails
  <2>4. Finish(c, outcome)
    BY <1>8 DEF FetchFails
  <2> HIDE DEF outcome
  <2> QED
    BY <1>0, <1>a, <1>b, <1>8, <2>1, <2>3, <2>4, FinishKeeps, ReleaseKeeps
       DEF FetchFails, TypeOK, KidNamed, Finish, upstream
<1>9. ASSUME NEW c \in Caller, FetchRaises(c)
      PROVE  TInv'
  <2>1. "raised" \in Answers
    BY DEF Answers
  <2> QED
    BY <1>0, <1>b, <1>9, <2>1, FinishKeeps, ReleaseKeeps
       DEF FetchRaises, TypeOK, KidNamed, Finish, client, upstream
<1>10. ASSUME NEW c \in Caller, FetchCancelled(c)
       PROVE  TInv'
  <2>1. "cancelled" \in Answers
    BY DEF Answers
  <2> QED
    BY <1>0, <1>b, <1>10, <2>1, FinishKeeps, ReleaseKeeps
       DEF FetchCancelled, RollBack, TypeOK, KidNamed, Finish, upstream, history
<1>11. ASSUME NEW c \in Caller, WaitCancelled(c)
       PROVE  TInv'
  <2>1. "cancelled" \in Answers
    BY DEF Answers
  <2>2. owner' \in Caller \cup {NoOne} /\ waiters' \in Seq(Caller)
    BY <1>b, <1>11, WithdrawKeeps DEF WaitCancelled, TypeOK
  <2> QED
    BY <1>0, <1>11, <2>1, <2>2, FinishKeeps
       DEF WaitCancelled, TypeOK, KidNamed, Finish, client, upstream, history
<1>12. ASSUME NEW c \in Caller, Return(c)
       PROVE  TInv'
  BY <1>0, <1>12 DEF Return, TypeOK, KidNamed, client, lock, upstream, history, Answers
<1>13. ASSUME NEW c \in Caller, UpstreamReplies(c)
       PROVE  TInv'
  BY <1>0, <1>13, JwksAssumption
     DEF UpstreamReplies, TypeOK, KidNamed, client, lock, upstream, history
<1>14. ASSUME NEW k \in RealKid, Rotate(k)
       PROVE  TInv'
  BY <1>0, <1>14, JwksAssumption DEF Rotate, TypeOK, KidNamed, client, lock, call, history
<1>15. CASE Tick
  BY <1>0, <1>15 DEF Tick, TypeOK, KidNamed, client, lock, call, upstream, history
<1>16. CASE UNCHANGED vars
  BY <1>0, <1>16 DEF vars, TypeOK, KidNamed, client, lock, call, upstream, history
<1> QED
  BY <1>1, <1>2, <1>3, <1>4, <1>5, <1>6, <1>7, <1>8, <1>9, <1>10, <1>11, <1>12,
     <1>13, <1>14, <1>15, <1>16 DEF Next, Turn, Ends

(* The client's state, its lock and every call stay well typed. *)
THEOREM TypeCorrect == Spec => []TypeOK
<1>1. TInv => TypeOK
  BY DEF TInv
<1> QED
  BY <1>1, InitTInv, NextTInv, PTL DEF Spec

(* The memory of misses never outgrows its bound nor names a kid twice. *)
THEOREM MissesStayBounded == Spec => []MissesBounded
<1>1. TInv => MissesBounded
  BY DEF TInv, GoodMisses, Distinct, MissesBounded
<1> QED
  BY <1>1, InitTInv, NextTInv, PTL DEF Spec
-----------------------------------------------------------------------------
(* A key that is on hand is not remembered as missing. *)

\* The invariant on the misses, as a fact about sets of kids.
LEMMA NoKnownAsSets ==
  NoKnownKeyRemembered <=> (keys # NoKeys => KidsOf(missing) \cap keys = {})
  BY DEF NoKnownKeyRemembered, KidsOf

\* A miss is written only for a kid the stored set lacks.
LEMMA NextNoKnown == TInv /\ NoKnownKeyRemembered /\ [Next]_vars => NoKnownKeyRemembered'
<1> SUFFICES ASSUME TInv, NoKnownKeyRemembered, [Next]_vars
             PROVE  NoKnownKeyRemembered'
  OBVIOUS
<1>0. GoodMisses(missing) /\ now \in Nat /\ KidNamed
  BY DEF TInv, TypeOK
<1>1. keys # NoKeys => KidsOf(missing) \cap keys = {}
  BY NoKnownAsSets
<1>2. CASE UNCHANGED <<keys, missing>>
  BY <1>2 DEF NoKnownKeyRemembered
<1>3. SUFFICES keys' # NoKeys => KidsOf(missing') \cap keys' = {}
  BY DEF NoKnownKeyRemembered, KidsOf
<1>4. ASSUME NEW c \in Caller, AnswerOnHand(c)
      PROVE  keys' # NoKeys => KidsOf(missing') \cap keys' = {}
  <2> DEFINE outcome == AnswerFrom(keys, IsFresh, kid[c])
  <2>1. kid[c] \in Kid
    BY <1>0, <1>4 DEF AnswerOnHand, HasTurn, KidNamed
  <2>2. GoodMisses(Swept(kid[c])) /\ KidsOf(Swept(kid[c])) \subseteq KidsOf(missing)
    BY <1>0, <2>1, SweptKeeps
  <2>3. outcome = "unknown" => kid[c] \notin keys
    BY AnswerFromProperties DEF IsFresh
  <2>4. missing' = MissingAfter(Swept(kid[c]), kid[c], outcome) /\ keys' = keys
    BY <1>4 DEF AnswerOnHand
  <2> HIDE DEF outcome
  <2>5. KidsOf(missing') \subseteq
          IF outcome = "unknown" THEN KidsOf(missing) \cup {kid[c]} ELSE KidsOf(missing)
    <3>1. KidsOf(MissingAfter(Swept(kid[c]), kid[c], outcome)) \subseteq
            IF outcome = "unknown" THEN KidsOf(Swept(kid[c])) \cup {kid[c]}
            ELSE KidsOf(Swept(kid[c]))
      BY <1>0, <2>1, <2>2, MissingAfterKeeps
    <3> QED
      BY <2>2, <2>4, <3>1
  <2> QED
    BY <1>1, <2>3, <2>4, <2>5
<1>5. ASSUME NEW c \in Caller, FetchSucceeds(c)
      PROVE  keys' # NoKeys => KidsOf(missing') \cap keys' = {}
  <2> DEFINE outcome == AnswerFrom(reply[c], TRUE, kid[c])
  <2>1. kid[c] \in Kid
    BY <1>0, <1>5 DEF FetchSucceeds, Replace, KidNamed
  <2>2. outcome = "unknown" => kid[c] \notin reply[c]
    BY AnswerFromProperties
  <2>3. missing' = MissingAfter(<<>>, kid[c], outcome) /\ keys' = reply[c]
    BY <1>5 DEF FetchSucceeds, Replace
  <2> HIDE DEF outcome
  <2>4. KidsOf(missing') \subseteq IF outcome = "unknown" THEN {kid[c]} ELSE {}
    <3>1. KidsOf(MissingAfter(<<>>, kid[c], outcome)) \subseteq
            IF outcome = "unknown" THEN KidsOf(<<>>) \cup {kid[c]} ELSE KidsOf(<<>>)
      BY <1>0, <2>1, EmptyIsGood, MissingAfterKeeps
    <3> QED
      BY <2>3, <3>1, EmptyIsGood
  <2> QED
    BY <2>2, <2>3, <2>4
<1>6. ASSUME NEW c \in Caller, FetchFails(c)
      PROVE  keys' # NoKeys => KidsOf(missing') \cap keys' = {}
  <2> DEFINE outcome == AnswerFrom(keys, IsFresh, kid[c])
  <2>1. kid[c] \in Kid
    BY <1>0, <1>6 DEF FetchFails, KidNamed
  <2>2. outcome = "unknown" => kid[c] \notin keys
    BY AnswerFromProperties DEF IsFresh
  <2>3. missing' = MissingAfter(missing, kid[c], outcome) /\ keys' = keys
    BY <1>6 DEF FetchFails
  <2> HIDE DEF outcome
  <2>4. KidsOf(missing') \subseteq
          IF outcome = "unknown" THEN KidsOf(missing) \cup {kid[c]} ELSE KidsOf(missing)
    BY <1>0, <2>1, <2>3, MissingAfterKeeps
  <2> QED
    BY <1>1, <2>2, <2>3, <2>4
<1> QED
  <2>1. ASSUME NEW c \in Caller, HitUnderLock(c) \/ BeginFetch(c) \/ ShortCircuit(c)
        PROVE  UNCHANGED <<keys, missing>>
    BY <2>1 DEF HitUnderLock, BeginFetch, StartFetch, ShortCircuit, client
  <2>2. ASSUME NEW c \in Caller,
               \/ FetchRaises(c) \/ FetchCancelled(c) \/ WaitCancelled(c)
               \/ Return(c) \/ UpstreamReplies(c)
        PROVE  UNCHANGED <<keys, missing>>
    BY <2>2 DEF FetchRaises, FetchCancelled, RollBack, WaitCancelled, Return, UpstreamReplies, client
  <2>3. ASSUME NEW c \in Caller, NEW k \in Kid, AskAnswered(c, k) \/ AskLocked(c, k)
        PROVE  UNCHANGED <<keys, missing>>
    BY <2>3 DEF AskAnswered, AskLocked, client
  <2>4. ASSUME Tick \/ (\E k \in RealKid : Rotate(k)) \/ UNCHANGED vars
        PROVE  UNCHANGED <<keys, missing>>
    BY <2>4 DEF Tick, Rotate, vars, client
  <2>5. UNCHANGED <<keys, missing>> => (keys' # NoKeys => KidsOf(missing') \cap keys' = {})
    BY <1>1 DEF KidsOf
  <2> QED
    BY <1>4, <1>5, <1>6, <2>1, <2>2, <2>3, <2>4, <2>5 DEF Next, Turn, Ends

(* A fetch that brings a key in forgets that it ever was unknown. *)
THEOREM KnownKeysAreNotMissing == Spec => []NoKnownKeyRemembered
<1>1. Init => NoKnownKeyRemembered
  BY DEF Init, NoKnownKeyRemembered
<1> QED
  BY <1>1, InitTInv, NextTInv, NextNoKnown, PTL DEF Spec
-----------------------------------------------------------------------------
(* The fetch is a throttled attempt. *)

(* The task whose fetch is in flight holds the lock, and the stamp it would
   roll back to is the last completed fetch's; with none in flight, that is
   the stamp itself. *)
FetcherHoldsLock == \A c \in Caller : pc[c] = "fetching" => owner = c

WindowKept ==
  /\ ~Fetching => attemptedAt = spentAt
  /\ \A c \in Caller : pc[c] = "fetching" => previous[c] = spentAt

FInv == TypeOK /\ FetcherHoldsLock /\ WindowKept

(* When the one who holds the lock is answered, no fetch is in flight. *)
LEMMA LeavingEndsFetching ==
  ASSUME TypeOK, FetcherHoldsLock, NEW c \in Caller, owner = c,
         NEW outcome, Finish(c, outcome)
  PROVE  (\A d \in Caller : pc'[d] # "fetching") /\ ~Fetching'
<1>1. \A d \in Caller : pc'[d] # "fetching"
  BY DEF TypeOK, FetcherHoldsLock, Finish
<1> QED
  BY <1>1 DEF Fetching

(* Every step is a step of ThrottledAttempt, or one it does not see, and keeps
   the lock and the window in order. *)
LEMMA NextAttempt ==
  FInv /\ TypeOK' /\ [Next]_vars
    => FetcherHoldsLock' /\ WindowKept' /\ [Attempt!Next]_(Attempt!vars)
<1> SUFFICES ASSUME TypeOK, TypeOK', FetcherHoldsLock, WindowKept, [Next]_vars
             PROVE  FetcherHoldsLock' /\ WindowKept' /\ [Attempt!Next]_(Attempt!vars)
  BY DEF FInv
<1> DEFINE Goal == FetcherHoldsLock' /\ WindowKept' /\ [Attempt!Next]_(Attempt!vars)
<1> USE DEF Attempt!vars
<1>n. NoOne \notin Caller
  BY JwksAssumption
<1>p. pc \in [Caller -> {"idle", "entering", "waiting", "fetching", "done"}]
  BY DEF TypeOK
\* Steps during which fetches neither start nor end.
<1>1. ASSUME \A d \in Caller : pc'[d] = "fetching" <=> pc[d] = "fetching",
             \A d \in Caller : pc[d] = "fetching" => owner' = owner /\ previous'[d] = previous[d],
             UNCHANGED <<attemptedAt, spentAt, now>>
      PROVE  Goal
  <2>1. Fetching' = Fetching
    BY <1>1 DEF Fetching
  <2>2. FetcherHoldsLock'
    BY <1>1 DEF FetcherHoldsLock
  <2>3. WindowKept'
    BY <1>1, <2>1 DEF WindowKept
  <2>4. UNCHANGED Attempt!vars
    BY <1>1, <2>1
  <2> QED
    BY <2>2, <2>3, <2>4
\* Steps of the lock's holder that end without a fetch in flight.
<1>2. ASSUME NEW c \in Caller, HasTurn(c), NEW outcome, Finish(c, outcome),
             UNCHANGED <<attemptedAt, spentAt, now>>
      PROVE  Goal
  <2>1. \A d \in Caller : pc'[d] # "fetching"
    BY <1>2, LeavingEndsFetching DEF HasTurn
  <2>2. \A d \in Caller : pc[d] # "fetching"
    BY <1>2 DEF HasTurn, FetcherHoldsLock
  <2> QED
    BY <1>1, <1>2, <2>1, <2>2
<1>3. ASSUME NEW c \in Caller, BeginFetch(c)
      PROVE  Goal
  <2>1. \A d \in Caller : pc[d] # "fetching"
    BY <1>3 DEF BeginFetch, HasTurn, FetcherHoldsLock
  <2>2. pc'[c] = "fetching" /\ \A d \in Caller : pc'[d] = "fetching" => d = c
    BY <1>3, <1>p, <2>1 DEF BeginFetch, StartFetch
  <2>3. ~Fetching /\ Fetching'
    BY <2>1, <2>2 DEF Fetching
  <2>4. FetcherHoldsLock'
    BY <1>3, <2>2 DEF BeginFetch, StartFetch, HasTurn, lock, FetcherHoldsLock
  <2>5. attemptedAt = spentAt
    BY <2>3 DEF WindowKept
  <2>6. previous'[c] = spentAt'
    BY <1>3, <2>5 DEF BeginFetch, StartFetch, TypeOK, history
  <2>7. WindowKept'
    BY <2>2, <2>3, <2>6 DEF WindowKept
  <2>8. Attempt!Begin
    BY <1>3, <2>3, <2>5
       DEF BeginFetch, StartFetch, MayFetch, history, Attempt!Begin, Attempt!WindowOpen
  <2> QED
    BY <2>4, <2>7, <2>8 DEF Attempt!Next
\* Steps that end a fetch: an answer spends the window, a cancellation does not.
<1>4. ASSUME NEW c \in Caller, pc[c] = "fetching", NEW outcome, Finish(c, outcome),
             UNCHANGED now,
             \/ UNCHANGED attemptedAt /\ spentAt' = attemptedAt
             \/ attemptedAt' = previous[c] /\ UNCHANGED spentAt
      PROVE  Goal
  <2>1. owner = c /\ Fetching
    BY <1>4 DEF FetcherHoldsLock, Fetching
  <2>2. (\A d \in Caller : pc'[d] # "fetching") /\ ~Fetching'
    BY <1>4, <2>1, LeavingEndsFetching
  <2>3. FetcherHoldsLock'
    BY <2>2 DEF FetcherHoldsLock
  <2>4. attemptedAt' = spentAt'
    BY <1>4 DEF WindowKept
  <2>5. WindowKept'
    BY <2>2, <2>4 DEF WindowKept
  <2>6. Attempt!Complete \/ Attempt!Abort
    BY <1>4, <2>1, <2>2 DEF Attempt!Complete, Attempt!Abort
  <2> QED
    BY <2>3, <2>5, <2>6 DEF Attempt!Next
<1>5. ASSUME NEW c \in Caller, NEW k \in Kid, AskAnswered(c, k) \/ AskLocked(c, k)
      PROVE  Goal
  <2>1. \A d \in Caller : pc'[d] = "fetching" <=> pc[d] = "fetching"
    BY <1>5, <1>p DEF AskAnswered, AskLocked, Acquire, TakeLock, JoinLine
  <2>2. \A d \in Caller : pc[d] = "fetching" => owner' = owner
    BY <1>5, <1>n DEF AskAnswered, AskLocked, Acquire, LockIsFree, TakeLock, JoinLine, FetcherHoldsLock, lock
  <2>3. UNCHANGED <<attemptedAt, spentAt, now, previous>>
    BY <1>5 DEF AskAnswered, AskLocked, client, history
  <2> HIDE DEF Goal
  <2> QED
    BY <1>1, <2>1, <2>2, <2>3
<1>6. ASSUME NEW c \in Caller, HitUnderLock(c) \/ ShortCircuit(c) \/ AnswerOnHand(c)
      PROVE  Goal
  <2>1. HasTurn(c) /\ UNCHANGED <<attemptedAt, spentAt, now>>
    BY <1>6 DEF HitUnderLock, ShortCircuit, AnswerOnHand, client, history
  <2>2. PICK outcome : Finish(c, outcome)
    BY <1>6 DEF HitUnderLock, ShortCircuit, AnswerOnHand
  <2> HIDE DEF Goal
  <2> QED
    BY <1>2, <2>1, <2>2
<1>7. ASSUME NEW c \in Caller,
             FetchSucceeds(c) \/ FetchFails(c) \/ FetchRaises(c) \/ FetchCancelled(c)
      PROVE  Goal
  <2>1. /\ pc[c] = "fetching"
        /\ UNCHANGED now
        /\ \/ UNCHANGED attemptedAt /\ spentAt' = attemptedAt
           \/ attemptedAt' = previous[c] /\ UNCHANGED spentAt
    BY <1>7 DEF FetchSucceeds, Replace, FetchFails, FetchRaises, FetchCancelled, RollBack,
                client, history
  <2>2. PICK outcome : Finish(c, outcome)
    BY <1>7 DEF FetchSucceeds, Replace, FetchFails, FetchRaises, FetchCancelled, RollBack
  <2> HIDE DEF Goal
  <2> QED
    BY <1>4, <2>1, <2>2
<1>8. ASSUME NEW c \in Caller, WaitCancelled(c)
      PROVE  Goal
  <2>1. \A d \in Caller : pc'[d] = "fetching" <=> pc[d] = "fetching"
    BY <1>8, <1>p DEF WaitCancelled, Finish
  <2>2. \A d \in Caller : pc[d] = "fetching" => owner' = owner /\ previous'[d] = previous[d]
    <3> SUFFICES ASSUME NEW d \in Caller, pc[d] = "fetching"
                 PROVE  owner' = owner /\ previous'[d] = previous[d]
      OBVIOUS
    <3>1. owner = d /\ d # c
      BY <1>8 DEF WaitCancelled, FetcherHoldsLock
    <3> QED
      BY <1>8, <3>1 DEF WaitCancelled, Withdraw, LeaveLine, Finish, TypeOK
  <2>3. UNCHANGED <<attemptedAt, spentAt, now>>
    BY <1>8 DEF WaitCancelled, client, history
  <2> HIDE DEF Goal
  <2> QED
    BY <1>1, <2>1, <2>2, <2>3
<1>9. ASSUME NEW c \in Caller, Return(c) \/ UpstreamReplies(c)
      PROVE  Goal
  <2>1. \A d \in Caller : pc'[d] = "fetching" <=> pc[d] = "fetching"
    BY <1>9, <1>p DEF Return, UpstreamReplies
  <2>2. UNCHANGED <<attemptedAt, spentAt, now, owner, previous>>
    BY <1>9 DEF Return, UpstreamReplies, client, lock, history
  <2> HIDE DEF Goal
  <2> QED
    BY <1>1, <2>1, <2>2
<1>10. ASSUME (\E k \in RealKid : Rotate(k)) \/ UNCHANGED vars
       PROVE  Goal
  <2>1. UNCHANGED <<attemptedAt, spentAt, now, owner, previous, pc>>
    BY <1>10 DEF Rotate, vars, client, lock, call, history
  <2> HIDE DEF Goal
  <2> QED
    BY <1>1, <2>1
<1>11. ASSUME Tick PROVE Goal
  <2>1. UNCHANGED <<attemptedAt, spentAt, owner, previous, pc>> /\ now' = now + 1
    BY <1>11 DEF Tick, client, lock, call, history
  <2>2. Fetching' = Fetching
    BY <2>1 DEF Fetching
  <2>3. FetcherHoldsLock' /\ WindowKept'
    BY <2>1, <2>2 DEF FetcherHoldsLock, WindowKept
  <2>4. now' > now
    BY <2>1 DEF TypeOK
  <2>5. Attempt!Tick
    BY <2>1, <2>2, <2>4 DEF Attempt!Tick
  <2> QED
    BY <2>3, <2>5 DEF Attempt!Next
<1> HIDE DEF Goal
<1>12. ASSUME NEW c \in Caller, Turn(c) \/ Ends(c) \/ FetchRaises(c) \/ FetchCancelled(c)
       PROVE  Goal
  BY <1>3, <1>6, <1>7, <1>12 DEF Turn, Ends
<1>13. ASSUME Next PROVE Goal
  BY <1>5, <1>8, <1>9, <1>10, <1>11, <1>12, <1>13 DEF Next
<1>14. ASSUME UNCHANGED vars PROVE Goal
  BY <1>10, <1>14
<1>15. Goal
  BY <1>13, <1>14
<1> QED
  BY <1>15 DEF Goal

\* The first state maps to the abstract one.
LEMMA InitAttempt == Init => FetcherHoldsLock /\ WindowKept /\ Attempt!Init
<1> SUFFICES ASSUME Init PROVE FetcherHoldsLock /\ WindowKept /\ Attempt!Init
  OBVIOUS
<1>1. \A c \in Caller : pc[c] # "fetching"
  BY DEF Init
<1>2. ~Fetching
  BY <1>1 DEF Fetching
<1> QED
  BY <1>1, <1>2 DEF Init, FetcherHoldsLock, WindowKept, Attempt!Init

(* Seen from upstream, JwksClient is a throttled attempt: fetches come one at a
   time and a full window apart, however many callers and kids there are. *)
THEOREM FetchThrottled == Spec => FetchIsThrottled
<1>1. Init => FetcherHoldsLock /\ WindowKept /\ Attempt!Init
  BY InitAttempt
<1>2. FInv /\ TypeOK' /\ [Next]_vars
        => FetcherHoldsLock' /\ WindowKept' /\ [Attempt!Next]_(Attempt!vars)
  BY NextAttempt
<1>3. FInv <=> TypeOK /\ FetcherHoldsLock /\ WindowKept
  BY DEF FInv
<1> QED
  BY <1>1, <1>2, <1>3, TypeCorrect, PTL DEF Spec, FetchIsThrottled, Attempt!Spec
-----------------------------------------------------------------------------
(* How old an answer may be. *)

(* Each kid was published, or was not, at t or later, as ks says. *)
Witnessed(ks, t) ==
  \A k \in Kid : /\ k \in ks => LastPublished(k) >= t
                 /\ k \notin ks => LastAbsent(k) >= t

(* No stamp lies ahead of the clock. *)
StampsPast ==
  /\ attemptedAt <= now /\ spentAt <= now /\ fetchedAt <= now
  /\ \A k \in Kid : changedAt[k] <= now
  /\ \A c \in Caller : askedAt[c] <= now

(* A fetch in flight left after its caller asked, is within its deadline, and
   what it was sent was true since it left. Who has none in flight was sent
   nothing. *)
FetchesInTime ==
  \A c \in Caller :
    IF pc[c] = "fetching"
    THEN /\ attemptedAt # Never
         /\ askedAt[c] <= attemptedAt
         /\ now - attemptedAt <= FetchTimeout
         /\ reply[c] # NoKeys => Witnessed(reply[c], attemptedAt)
    ELSE reply[c] = NoKeys

(* The set on hand was true no longer before it came than a fetch may take; if
   the last fetch did not fail, it is that fetch's. *)
SetInTime ==
  /\ keys # NoKeys => fetchedAt # Never /\ Witnessed(keys, fetchedAt - FetchTimeout)
  /\ ~refused /\ spentAt # Never
       => keys # NoKeys /\ fetchedAt >= spentAt /\ Witnessed(keys, spentAt)

(* A miss was stamped from a set that was fresh then. *)
MissesInTime ==
  \A i \in DOMAIN missing :
    LastAbsent(missing[i].kid) > missing[i].at - CacheTtl - FetchTimeout

InTime == StampsPast /\ FetchesInTime /\ SetInTime /\ MissesInTime

(* The same, of the next state and what was seen in this one. *)
StillWitnessed(ks, t) ==
  \A k \in Kid : /\ k \in ks => LastPublished(k)' >= t
                 /\ k \notin ks => LastAbsent(k)' >= t

\* Time and upstream only make what is known of a kid more recent.
LEMMA LaterIsLater ==
  ASSUME TInv, StampsPast, [Next]_vars
  PROVE  /\ now' \in Nat /\ now' >= now
         /\ \A k \in Kid :
              /\ changedAt'[k] \in Int /\ changedAt'[k] <= now'
              /\ LastPublished(k) \in Int /\ LastAbsent(k) \in Int
              /\ LastPublished(k)' \in Int /\ LastPublished(k)' >= LastPublished(k)
              /\ LastAbsent(k)' \in Int /\ LastAbsent(k)' >= LastAbsent(k)
<1> DEFINE Goal ==
             /\ now' \in Nat /\ now' >= now
             /\ \A k \in Kid :
                  /\ changedAt'[k] \in Int /\ changedAt'[k] <= now'
                  /\ LastPublished(k) \in Int /\ LastAbsent(k) \in Int
                  /\ LastPublished(k)' \in Int /\ LastPublished(k)' >= LastPublished(k)
                  /\ LastAbsent(k)' \in Int /\ LastAbsent(k)' >= LastAbsent(k)
<1>0. /\ now \in Nat
      /\ \A k \in Kid : changedAt[k] \in Int /\ changedAt[k] <= now
      /\ changedAt \in [Kid -> Int]
  BY DEF TInv, TypeOK, StampsPast
<1>1. CASE UNCHANGED <<now, upstream>>
  BY <1>0, <1>1 DEF upstream, LastPublished, LastAbsent
<1>2. ASSUME NEW r \in RealKid, Rotate(r) PROVE Goal
  <2>1. /\ now' = now
        /\ published' = IF r \in published THEN published \ {r} ELSE published \cup {r}
        /\ changedAt' = [changedAt EXCEPT ![r] = now]
    BY <1>2 DEF Rotate
  <2>2. ASSUME NEW k \in Kid, k # r
        PROVE  changedAt'[k] = changedAt[k] /\ (k \in published' <=> k \in published)
    BY <1>0, <2>1, <2>2
  <2>3. r \in Kid => changedAt'[r] = now /\ (r \in published' <=> r \notin published)
    BY <1>0, <2>1
  <2>4. \A k \in Kid :
          /\ changedAt'[k] \in Int /\ changedAt'[k] <= now'
          /\ LastPublished(k) \in Int /\ LastAbsent(k) \in Int
          /\ LastPublished(k)' \in Int /\ LastPublished(k)' >= LastPublished(k)
          /\ LastAbsent(k)' \in Int /\ LastAbsent(k)' >= LastAbsent(k)
    BY <1>0, <2>1, <2>2, <2>3 DEF LastPublished, LastAbsent
  <2> QED
    BY <1>0, <2>1, <2>4
<1>3. CASE Tick
  BY <1>0, <1>3 DEF Tick, upstream, LastPublished, LastAbsent
<1>4. ASSUME NEW c \in Caller,
             \/ \E k \in Kid : AskAnswered(c, k) \/ AskLocked(c, k)
             \/ Turn(c) \/ Ends(c) \/ FetchRaises(c) \/ FetchCancelled(c)
             \/ WaitCancelled(c) \/ Return(c) \/ UpstreamReplies(c)
      PROVE  UNCHANGED <<now, upstream>>
  BY <1>4 DEF AskAnswered, AskLocked, Turn, HitUnderLock, BeginFetch, StartFetch,
              ShortCircuit, AnswerOnHand, Ends, FetchSucceeds, Replace, FetchFails,
              FetchRaises, FetchCancelled, RollBack, WaitCancelled, Return, UpstreamReplies
<1>5. UNCHANGED vars => UNCHANGED <<now, upstream>>
  BY DEF vars
<1> HIDE DEF Goal
<1>6. Goal
  <2>1. UNCHANGED <<now, upstream>> => Goal
    BY <1>1 DEF Goal
  <2>2. Tick => Goal
    BY <1>3 DEF Goal
  <2> QED
    BY <1>2, <1>4, <1>5, <2>1, <2>2 DEF Next
<1> QED
  BY <1>6 DEF Goal

\* What was witnessed stays so.
LEMMA WitnessedStays ==
  ASSUME TInv, StampsPast, [Next]_vars, NEW ks, NEW t \in Int, Witnessed(ks, t)
  PROVE  StillWitnessed(ks, t)
BY LaterIsLater DEF Witnessed, StillWitnessed

\* Nothing is known to be older if less is asked.
LEMMA WitnessedEarlier ==
  ASSUME TInv, StampsPast, NEW ks, NEW t \in Int, NEW u \in Int, u <= t, Witnessed(ks, t)
  PROVE  Witnessed(ks, u)
<1>1. \A k \in Kid : LastPublished(k) \in Int /\ LastAbsent(k) \in Int
  BY DEF TInv, TypeOK, LastPublished, LastAbsent
<1> QED
  BY <1>1 DEF Witnessed

\* No step stamps anything with a moment that has not come.
LEMMA StampsStayPast ==
  ASSUME TInv, TInv', FInv, StampsPast, [Next]_vars
  PROVE  StampsPast'
<1>1. now \in Nat /\ now' \in Nat /\ now' >= now /\ \A k \in Kid : changedAt'[k] <= now'
  BY LaterIsLater DEF TInv, TypeOK
<1>2. /\ attemptedAt \in Int /\ spentAt \in Int /\ fetchedAt \in Int
      /\ \A c \in Caller : askedAt[c] \in Int
  BY DEF TInv, TypeOK, Never
<1>3. attemptedAt' = attemptedAt \/ attemptedAt' = now \/ attemptedAt' = spentAt
  <2>1. \A c \in Caller : FetchCancelled(c) => attemptedAt' = spentAt
    BY DEF FetchCancelled, RollBack, FInv, WindowKept
  <2> QED
    BY <2>1 DEF Next, AskAnswered, AskLocked, Turn, HitUnderLock, BeginFetch, StartFetch,
              ShortCircuit, AnswerOnHand, Ends, FetchSucceeds, Replace, FetchFails,
              FetchRaises, WaitCancelled, Return, UpstreamReplies,
              Rotate, Tick, vars, client
<1>4. spentAt' = spentAt \/ spentAt' = attemptedAt
  BY DEF Next, AskAnswered, AskLocked, Turn, HitUnderLock, BeginFetch, StartFetch,
         ShortCircuit, AnswerOnHand, Ends, FetchSucceeds, Replace, FetchFails,
         FetchRaises, FetchCancelled, RollBack, WaitCancelled, Return, UpstreamReplies,
         Rotate, Tick, vars, history
<1>5. fetchedAt' = fetchedAt \/ fetchedAt' = now
  BY DEF Next, AskAnswered, AskLocked, Turn, HitUnderLock, BeginFetch, StartFetch,
         ShortCircuit, AnswerOnHand, Ends, FetchSucceeds, Replace, FetchFails,
         FetchRaises, FetchCancelled, RollBack, WaitCancelled, Return, UpstreamReplies,
         Rotate, Tick, vars, client
<1>6. \A d \in Caller : askedAt'[d] = askedAt[d] \/ askedAt'[d] = now \/ askedAt'[d] = Never
  <2>1. askedAt \in [Caller -> Nat \cup {Never}]
    BY DEF TInv, TypeOK
  <2>2. \A t : \A c \in Caller : askedAt' = [askedAt EXCEPT ![c] = t]
          => \A d \in Caller : askedAt'[d] = askedAt[d] \/ askedAt'[d] = t
    BY <2>1
  <2>3. \A c \in Caller : \A outcome : Finish(c, outcome)
          => askedAt' = [askedAt EXCEPT ![c] = Never]
    BY DEF Finish
  <2>4. ASSUME NEW c \in Caller,
               \/ HitUnderLock(c) \/ ShortCircuit(c) \/ AnswerOnHand(c) \/ Ends(c)
               \/ FetchRaises(c) \/ FetchCancelled(c) \/ WaitCancelled(c)
        PROVE  askedAt' = [askedAt EXCEPT ![c] = Never]
    BY <2>3, <2>4 DEF HitUnderLock, ShortCircuit, AnswerOnHand, Ends, FetchSucceeds, Replace,
              FetchFails, FetchRaises, FetchCancelled, RollBack, WaitCancelled
  <2>5. ASSUME NEW c \in Caller, NEW k \in Kid, AskLocked(c, k)
        PROVE  askedAt' = [askedAt EXCEPT ![c] = now]
    BY <2>5 DEF AskLocked
  <2>6. ASSUME \/ \E c \in Caller : \/ \E k \in Kid : AskAnswered(c, k)
                                    \/ BeginFetch(c) \/ Return(c) \/ UpstreamReplies(c)
               \/ (\E k \in RealKid : Rotate(k)) \/ Tick \/ UNCHANGED vars
        PROVE  askedAt' = askedAt
    BY <2>6 DEF AskAnswered, BeginFetch, StartFetch, Return, UpstreamReplies, Rotate, Tick,
                vars, call
  <2> QED
    BY <2>2, <2>4, <2>5, <2>6 DEF Next, Turn
<1> QED
  BY <1>1, <1>2, <1>3, <1>4, <1>5, <1>6 DEF StampsPast, Never

\* What a fetch brings was true since it left, and it is in time.
LEMMA FetchesStayInTime ==
  ASSUME TInv, TInv', FInv, StampsPast, FetchesInTime, [Next]_vars
  PROVE  FetchesInTime'
<1>0. /\ pc \in [Caller -> {"idle", "entering", "waiting", "fetching", "done"}]
      /\ reply \in [Caller -> (SUBSET Kid) \cup {NoKeys}]
      /\ askedAt \in [Caller -> Nat \cup {Never}]
      /\ now \in Nat /\ attemptedAt \in Int
      /\ TypeOK /\ FetcherHoldsLock /\ NoOne \notin Caller
  BY JwksAssumption DEF TInv, TypeOK, FInv, Never
<1>1. ASSUME \A d \in Caller : pc'[d] = "fetching" <=> pc[d] = "fetching",
             \A d \in Caller : reply'[d] = reply[d],
             \A d \in Caller : pc[d] = "fetching" => askedAt'[d] = askedAt[d],
             attemptedAt' = attemptedAt,
             \A d \in Caller : pc[d] = "fetching" => now' - attemptedAt <= FetchTimeout
      PROVE  FetchesInTime'
  <2> SUFFICES ASSUME NEW d \in Caller
               PROVE  IF pc'[d] = "fetching"
                      THEN /\ attemptedAt' # Never
                           /\ askedAt'[d] <= attemptedAt'
                           /\ now' - attemptedAt' <= FetchTimeout
                           /\ reply'[d] # NoKeys => Witnessed(reply[d], attemptedAt)'
                      ELSE reply'[d] = NoKeys
    BY DEF FetchesInTime
  <2>1. CASE pc[d] = "fetching"
    <3>1. /\ attemptedAt # Never
          /\ askedAt[d] <= attemptedAt
          /\ reply[d] # NoKeys => Witnessed(reply[d], attemptedAt)
      BY <2>1 DEF FetchesInTime
    <3>2. ASSUME reply'[d] # NoKeys PROVE Witnessed(reply[d], attemptedAt)'
      <4>1. StillWitnessed(reply[d], attemptedAt)
        BY <1>0, <1>1, <3>1, <3>2, WitnessedStays
      <4> QED
        BY <1>1, <4>1 DEF Witnessed, StillWitnessed
    <3> QED
      BY <1>1, <2>1, <3>1, <3>2
  <2>2. CASE pc[d] # "fetching"
    BY <1>1, <2>2 DEF FetchesInTime
  <2> QED
    BY <2>1, <2>2
\* Within one moment, what is in flight is as much in time as before.
<1>2. \A d \in Caller : pc[d] = "fetching" => now - attemptedAt <= FetchTimeout
  BY DEF FetchesInTime
<1>3. \A c \in Caller : \A outcome : Finish(c, outcome)
        => \A d \in Caller : /\ reply'[d] = IF d = c THEN NoKeys ELSE reply[d]
                             /\ pc'[d] = IF d = c THEN "done" ELSE pc[d]
                             /\ d # c => askedAt'[d] = askedAt[d]
  BY <1>0 DEF Finish
<1>4. ASSUME NEW c \in Caller, NEW k \in Kid, AskAnswered(c, k) \/ AskLocked(c, k)
      PROVE  FetchesInTime'
  <2>1. pc[c] # "fetching" /\ UNCHANGED <<attemptedAt, now, reply>>
    BY <1>4 DEF AskAnswered, AskLocked, client
  <2>2. \A d \in Caller : pc'[d] = "fetching" <=> pc[d] = "fetching"
    BY <1>0, <1>4 DEF AskAnswered, AskLocked, Acquire, TakeLock, JoinLine
  <2>3. \A d \in Caller : pc[d] = "fetching" => askedAt'[d] = askedAt[d]
    BY <1>0, <1>4 DEF AskAnswered, AskLocked
  <2> QED
    BY <1>1, <1>2, <2>1, <2>2, <2>3
<1>5. ASSUME NEW c \in Caller,
             HitUnderLock(c) \/ ShortCircuit(c) \/ AnswerOnHand(c) \/ WaitCancelled(c)
      PROVE  FetchesInTime'
  <2>1. pc[c] # "fetching" /\ UNCHANGED <<attemptedAt, now>>
    BY <1>5 DEF HitUnderLock, ShortCircuit, AnswerOnHand, WaitCancelled, HasTurn, client
  <2>2. PICK outcome : Finish(c, outcome)
    BY <1>5 DEF HitUnderLock, ShortCircuit, AnswerOnHand, WaitCancelled
  <2>3. reply[c] = NoKeys
    BY <2>1 DEF FetchesInTime
  <2> QED
    BY <1>1, <1>2, <1>3, <2>1, <2>2, <2>3
<1>6. ASSUME NEW c \in Caller, BeginFetch(c)
      PROVE  FetchesInTime'
  <2>1. \A d \in Caller : pc[d] # "fetching"
    BY <1>0, <1>6 DEF BeginFetch, HasTurn, FetcherHoldsLock
  <2>2. /\ \A d \in Caller : reply'[d] = NoKeys
        /\ attemptedAt' = now /\ now' = now /\ askedAt' = askedAt
    BY <1>6, <2>1 DEF FetchesInTime, BeginFetch, StartFetch
  <2>3. attemptedAt' # Never /\ \A d \in Caller : askedAt'[d] <= attemptedAt'
    BY <1>0, <2>2 DEF StampsPast, Never
  <2>4. now' - attemptedAt' <= FetchTimeout
    BY <1>0, <2>2, JwksAssumption
  <2> QED
    BY <2>2, <2>3, <2>4 DEF FetchesInTime
<1>7. ASSUME NEW c \in Caller, Ends(c) \/ FetchRaises(c) \/ FetchCancelled(c)
      PROVE  FetchesInTime'
  <2>1. owner = c /\ pc[c] = "fetching"
    BY <1>0, <1>7 DEF Ends, FetchSucceeds, Replace, FetchFails, FetchRaises, FetchCancelled,
                      RollBack, FetcherHoldsLock
  <2>2. PICK outcome : Finish(c, outcome)
    BY <1>7 DEF Ends, FetchSucceeds, Replace, FetchFails, FetchRaises, FetchCancelled, RollBack
  <2>3. \A d \in Caller : pc'[d] # "fetching"
    BY <1>0, <2>1, <2>2, LeavingEndsFetching
  <2>4. \A d \in Caller : reply'[d] = NoKeys
    <3>1. \A d \in Caller : d # c => pc[d] # "fetching"
      BY <1>0, <2>1 DEF FetcherHoldsLock
    <3>2. \A d \in Caller : d # c => reply[d] = NoKeys
      BY <3>1 DEF FetchesInTime
    <3> QED
      BY <1>3, <2>2, <3>2
  <2> QED
    BY <2>3, <2>4 DEF FetchesInTime
<1>8. ASSUME NEW c \in Caller, UpstreamReplies(c)
      PROVE  FetchesInTime'
  <2>1. UNCHANGED <<pc, askedAt, attemptedAt, now, published, changedAt>>
    BY <1>8 DEF UpstreamReplies, client, upstream
  <2>2. /\ pc[c] = "fetching" /\ reply'[c] = published
        /\ \A d \in Caller : d # c => reply'[d] = reply[d]
    BY <1>0, <1>8 DEF UpstreamReplies
  <2>3. Witnessed(published, attemptedAt)
    BY <1>0 DEF Witnessed, LastPublished, LastAbsent, StampsPast
  <2>4. StillWitnessed(published, attemptedAt)
    BY <1>0, <2>3, WitnessedStays
  <2>5. Witnessed(reply[c], attemptedAt)'
    BY <2>1, <2>2, <2>4 DEF Witnessed, StillWitnessed
  <2>6. ASSUME NEW d \in Caller, d # c, pc[d] = "fetching", reply[d] # NoKeys
        PROVE  Witnessed(reply[d], attemptedAt)'
    <3>1. Witnessed(reply[d], attemptedAt)
      BY <2>6 DEF FetchesInTime
    <3>2. StillWitnessed(reply[d], attemptedAt)
      BY <1>0, <3>1, WitnessedStays
    <3> QED
      BY <2>1, <2>2, <2>6, <3>2 DEF Witnessed, StillWitnessed
  <2>7. \A d \in Caller : pc[d] = "fetching" /\ reply'[d] # NoKeys
                            => Witnessed(reply[d], attemptedAt)'
    BY <2>2, <2>5, <2>6
  <2>8. \A d \in Caller : pc[d] # "fetching" => reply'[d] = NoKeys
    BY <2>2 DEF FetchesInTime
  <2>9. \A d \in Caller : pc[d] = "fetching" =>
          attemptedAt' # Never /\ askedAt'[d] <= attemptedAt' /\ now' - attemptedAt' <= FetchTimeout
    BY <2>1 DEF FetchesInTime
  <2> QED
    BY <2>1, <2>7, <2>8, <2>9 DEF FetchesInTime
<1>9. ASSUME NEW c \in Caller, Return(c)
      PROVE  FetchesInTime'
  <2>1. UNCHANGED <<attemptedAt, now, reply, askedAt>>
    BY <1>9 DEF Return, client
  <2>2. \A d \in Caller : pc'[d] = "fetching" <=> pc[d] = "fetching"
    BY <1>0, <1>9 DEF Return
  <2> QED
    BY <1>1, <1>2, <2>1, <2>2
<1>10. ASSUME (\E k \in RealKid : Rotate(k)) \/ UNCHANGED vars
       PROVE  FetchesInTime'
  <2>1. UNCHANGED <<attemptedAt, now, reply, askedAt, pc>>
    BY <1>10 DEF Rotate, vars, client, call
  <2> QED
    BY <1>1, <1>2, <2>1
<1>11. CASE Tick
  <2>1. UNCHANGED <<attemptedAt, reply, askedAt, pc>> /\ now' = now + 1
    BY <1>11 DEF Tick, client, call
  <2>2. \A d \in Caller : pc[d] = "fetching" => now - attemptedAt < FetchTimeout
    BY <1>11 DEF Tick
  <2>3. \A d \in Caller : pc[d] = "fetching" => now' - attemptedAt <= FetchTimeout
    BY <1>0, <2>1, <2>2, JwksAssumption
  <2> QED
    BY <1>1, <2>1, <2>3
<1> QED
  BY <1>4, <1>5, <1>6, <1>7, <1>8, <1>9, <1>10, <1>11 DEF Next, Turn

\* A set that is put on hand was true since its fetch left.
LEMMA SetStaysInTime ==
  ASSUME TInv, TInv', FInv, StampsPast, FetchesInTime, SetInTime, [Next]_vars
  PROVE  SetInTime'
<1>0. /\ now \in Nat /\ attemptedAt \in Int /\ spentAt \in Int /\ fetchedAt \in Int
      /\ FetchTimeout \in Nat
  BY JwksAssumption DEF TInv, TypeOK, Never
<1>1. ASSUME UNCHANGED <<keys, fetchedAt>>,
             refused' = TRUE \/ UNCHANGED <<spentAt, refused>>
      PROVE  SetInTime'
  <2>1. ASSUME keys # NoKeys
        PROVE  fetchedAt # Never /\ StillWitnessed(keys, fetchedAt - FetchTimeout)
    <3>1. fetchedAt - FetchTimeout \in Int
      BY <1>0
    <3>2. fetchedAt # Never /\ Witnessed(keys, fetchedAt - FetchTimeout)
      BY <2>1 DEF SetInTime
    <3> QED
      BY <3>1, <3>2, WitnessedStays
  <2>2. ASSUME ~refused, spentAt # Never
        PROVE  keys # NoKeys /\ fetchedAt >= spentAt /\ StillWitnessed(keys, spentAt)
    <3>1. keys # NoKeys /\ fetchedAt >= spentAt /\ Witnessed(keys, spentAt)
      BY <2>2 DEF SetInTime
    <3> QED
      BY <1>0, <3>1, WitnessedStays
  <2>3. keys' # NoKeys => fetchedAt' # Never /\ Witnessed(keys, fetchedAt - FetchTimeout)'
    BY <1>1, <2>1 DEF Witnessed, StillWitnessed
  <2>4. ~refused' /\ spentAt' # Never
          => keys' # NoKeys /\ fetchedAt' >= spentAt' /\ Witnessed(keys, spentAt)'
    BY <1>1, <2>2 DEF Witnessed, StillWitnessed
  <2> QED
    BY <2>3, <2>4 DEF SetInTime
<1>2. ASSUME NEW c \in Caller, FetchSucceeds(c)
      PROVE  SetInTime'
  <2>1. /\ pc[c] = "fetching" /\ reply[c] # NoKeys
        /\ keys' = reply[c] /\ fetchedAt' = now /\ spentAt' = attemptedAt
    BY <1>2 DEF FetchSucceeds, Replace
  <2>2. attemptedAt <= now /\ now - attemptedAt <= FetchTimeout /\ Witnessed(reply[c], attemptedAt)
    BY <2>1 DEF StampsPast, FetchesInTime
  <2>3. now - FetchTimeout \in Int /\ now - FetchTimeout <= attemptedAt
    BY <1>0, <2>2
  <2>4. StillWitnessed(reply[c], attemptedAt)
    BY <1>0, <2>2, WitnessedStays
  <2>5. Witnessed(reply[c], now - FetchTimeout)
    BY <1>0, <2>2, <2>3, WitnessedEarlier
  <2>6. StillWitnessed(reply[c], now - FetchTimeout)
    BY <2>3, <2>5, WitnessedStays
  <2>7. Witnessed(keys, fetchedAt - FetchTimeout)' /\ Witnessed(keys, spentAt)'
    BY <2>1, <2>4, <2>6 DEF Witnessed, StillWitnessed
  <2>8. fetchedAt' # Never /\ keys' # NoKeys /\ fetchedAt' >= spentAt'
    BY <1>0, <2>1, <2>2 DEF Never
  <2> QED
    BY <2>7, <2>8 DEF SetInTime
<1>3. ASSUME NEW c \in Caller, FetchFails(c) \/ FetchRaises(c)
      PROVE  SetInTime'
  BY <1>1, <1>3 DEF FetchFails, FetchRaises, client
<1>4. ASSUME NEW c \in Caller,
             \/ \E k \in Kid : AskAnswered(c, k) \/ AskLocked(c, k)
             \/ Turn(c) \/ FetchCancelled(c) \/ WaitCancelled(c) \/ Return(c)
             \/ UpstreamReplies(c)
      PROVE  UNCHANGED <<keys, fetchedAt, spentAt, refused>>
  BY <1>4 DEF AskAnswered, AskLocked, Turn, HitUnderLock, BeginFetch, StartFetch, ShortCircuit,
              AnswerOnHand, FetchCancelled, RollBack, WaitCancelled, Return, UpstreamReplies,
              client, history
<1>5. ASSUME (\E k \in RealKid : Rotate(k)) \/ Tick \/ UNCHANGED vars
      PROVE  UNCHANGED <<keys, fetchedAt, spentAt, refused>>
  BY <1>5 DEF Rotate, Tick, vars, client, history
<1> QED
  BY <1>1, <1>2, <1>3, <1>4, <1>5 DEF Next, Ends

\* A set that is fresh and lacks a kid says that it was absent not long ago.
LEMMA FreshDenial ==
  ASSUME TInv, StampsPast, SetInTime, NEW k \in Kid, keys # NoKeys, IsFresh, k \notin keys
  PROVE  LastAbsent(k) \in Int /\ LastAbsent(k) > now - CacheTtl - FetchTimeout
<1>1. now - fetchedAt < CacheTtl
  BY DEF IsFresh
<1>2. LastAbsent(k) >= fetchedAt - FetchTimeout
  BY DEF SetInTime, Witnessed
<1>3. /\ now \in Nat /\ fetchedAt \in Int /\ FetchTimeout \in Nat /\ CacheTtl \in Nat
      /\ LastAbsent(k) \in Int
  BY JwksAssumption DEF TInv, TypeOK, Never, LastAbsent
<1> QED
  BY <1>1, <1>2, <1>3

\* A miss is stamped only from a set that is fresh, and it does not age faster.
LEMMA MissesStayInTime ==
  ASSUME TInv, TInv', FInv, StampsPast, FetchesInTime, SetInTime, MissesInTime, [Next]_vars
  PROVE  MissesInTime'
<1> DEFINE InTimeEntry(e) == LastAbsent(e.kid) > e.at - CacheTtl - FetchTimeout
           StillInTime == {e \in Entry : LastAbsent(e.kid)' > e.at - CacheTtl - FetchTimeout}
<1>0. /\ now \in Nat /\ FetchTimeout \in Nat /\ CacheTtl \in Nat /\ GoodMisses(missing)
      /\ KidNamed
  BY JwksAssumption DEF TInv, TypeOK
<1>1. \A e \in Entry : InTimeEntry(e) => e \in StillInTime
  <2> SUFFICES ASSUME NEW e \in Entry, InTimeEntry(e) PROVE e \in StillInTime
    OBVIOUS
  <2>1. e.kid \in Kid /\ e.at \in Nat
    BY DEF Entry
  <2>2. /\ LastAbsent(e.kid) \in Int /\ LastAbsent(e.kid)' \in Int
        /\ LastAbsent(e.kid)' >= LastAbsent(e.kid)
    BY <2>1, LaterIsLater
  <2> QED
    BY <1>0, <2>1, <2>2
<1>2. EntriesOf(missing) \subseteq StillInTime
  <2>1. \A i \in DOMAIN missing : missing[i] \in Entry
    BY <1>0, LenProperties, ElementOfSeq DEF GoodMisses
  <2> QED
    BY <1>1, <2>1 DEF EntriesOf, MissesInTime
<1>3. \A k \in Kid : Miss(k) \in Entry /\ Miss(k).kid = k /\ Miss(k).at = now
  BY <1>0 DEF Miss, Entry
<1>4. ASSUME EntriesOf(missing') \subseteq EntriesOf(missing)
      PROVE  MissesInTime'
  <2>1. \A i \in DOMAIN missing' : missing'[i] \in StillInTime
    BY <1>2, <1>4 DEF EntriesOf
  <2> QED
    BY <2>1 DEF MissesInTime
<1>5. ASSUME NEW k \in Kid, InTimeEntry(Miss(k)),
             EntriesOf(missing') \subseteq EntriesOf(missing) \cup {Miss(k)}
      PROVE  MissesInTime'
  <2>1. Miss(k) \in StillInTime
    BY <1>1, <1>3, <1>5
  <2> HIDE DEF StillInTime
  <2>2. \A i \in DOMAIN missing' : missing'[i] \in StillInTime
    BY <1>2, <1>5, <2>1 DEF EntriesOf
  <2> QED
    BY <2>2 DEF MissesInTime, StillInTime
<1>6. ASSUME NEW c \in Caller, AnswerOnHand(c) \/ FetchFails(c)
      PROVE  MissesInTime'
  <2> DEFINE outcome == AnswerFrom(keys, IsFresh, kid[c])
  <2>1. kid[c] \in Kid
    BY <1>0, <1>6 DEF AnswerOnHand, FetchFails, HasTurn, KidNamed
  <2>2. PICK m : /\ GoodMisses(m) /\ EntriesOf(m) \subseteq EntriesOf(missing)
                 /\ missing' = MissingAfter(m, kid[c], outcome)
    BY <1>0, <1>6, <2>1, SweptKeeps DEF AnswerOnHand, FetchFails
  <2>3. outcome = "unknown" => keys # NoKeys /\ IsFresh /\ kid[c] \notin keys
    BY AnswerFromProperties DEF IsFresh
  <2> HIDE DEF outcome
  <2>4. EntriesOf(MissingAfter(m, kid[c], outcome)) \subseteq
          IF outcome = "unknown" THEN EntriesOf(m) \cup {Miss(kid[c])} ELSE EntriesOf(m)
    BY <1>0, <2>1, <2>2, MissingAfterKeeps
  <2>5. outcome = "unknown" => InTimeEntry(Miss(kid[c]))
    BY <1>3, <2>1, <2>3, FreshDenial
  <2> HIDE DEF InTimeEntry
  <2> QED
    BY <1>4, <1>5, <2>1, <2>2, <2>4, <2>5
<1>7. ASSUME NEW c \in Caller, FetchSucceeds(c)
      PROVE  MissesInTime'
  <2> DEFINE outcome == AnswerFrom(reply[c], TRUE, kid[c])
  <2>1. kid[c] \in Kid
    BY <1>0, <1>7 DEF FetchSucceeds, Replace, KidNamed
  <2>2. missing' = MissingAfter(<<>>, kid[c], outcome) /\ reply[c] # NoKeys /\ pc[c] = "fetching"
    BY <1>7 DEF FetchSucceeds, Replace
  <2>3. outcome = "unknown" => kid[c] \notin reply[c]
    BY AnswerFromProperties
  <2> HIDE DEF outcome
  <2>4. EntriesOf(MissingAfter(<<>>, kid[c], outcome)) \subseteq
          IF outcome = "unknown" THEN EntriesOf(<<>>) \cup {Miss(kid[c])} ELSE EntriesOf(<<>>)
    BY <1>0, <2>1, EmptyIsGood, MissingAfterKeeps
  <2>5. EntriesOf(missing') \subseteq IF outcome = "unknown" THEN {Miss(kid[c])} ELSE {}
    BY <2>2, <2>4, EmptyIsGood
  <2>6. outcome = "unknown" => InTimeEntry(Miss(kid[c]))
    <3>1. CASE outcome # "unknown"
      BY <3>1
    <3>2. CASE outcome = "unknown"
      <4>1. now - attemptedAt <= FetchTimeout /\ Witnessed(reply[c], attemptedAt)
        BY <2>2 DEF FetchesInTime
      <4>2. LastAbsent(kid[c]) >= attemptedAt
        BY <2>1, <2>3, <3>2, <4>1 DEF Witnessed
      <4>3. LastAbsent(kid[c]) \in Int /\ attemptedAt \in Int /\ CacheTtl > 0
        BY <2>1, JwksAssumption DEF TInv, TypeOK, LastAbsent, Never
      <4>4. LastAbsent(kid[c]) > now - CacheTtl - FetchTimeout
        BY <1>0, <4>1, <4>2, <4>3
      <4> QED
        BY <1>3, <2>1, <4>4
    <3> QED
      BY <3>1, <3>2
  <2> HIDE DEF InTimeEntry
  <2> QED
    BY <1>4, <1>5, <2>1, <2>5, <2>6
<1>8. ASSUME NEW c \in Caller,
             \/ \E k \in Kid : AskAnswered(c, k) \/ AskLocked(c, k)
             \/ HitUnderLock(c) \/ BeginFetch(c) \/ ShortCircuit(c) \/ FetchRaises(c)
             \/ FetchCancelled(c) \/ WaitCancelled(c) \/ Return(c) \/ UpstreamReplies(c)
      PROVE  UNCHANGED missing
  BY <1>8 DEF AskAnswered, AskLocked, HitUnderLock, BeginFetch, StartFetch, ShortCircuit,
              FetchRaises, FetchCancelled, RollBack, WaitCancelled, Return, UpstreamReplies, client
<1>9. ASSUME (\E k \in RealKid : Rotate(k)) \/ Tick \/ UNCHANGED vars
      PROVE  UNCHANGED missing
  BY <1>9 DEF Rotate, Tick, vars, client
<1>10. UNCHANGED missing => MissesInTime'
  BY <1>4 DEF EntriesOf
<1> QED
  BY <1>6, <1>7, <1>8, <1>9, <1>10 DEF Next, Turn, Ends
-----------------------------------------------------------------------------
(* What an answer rests on. *)

AnswerInv == TInv /\ FetcherHoldsLock /\ WindowKept /\ NoKnownKeyRemembered /\ InTime

\* Nothing is known in the first state, and nothing claimed.
LEMMA InitAnswerInv == Init => AnswerInv
<1> SUFFICES ASSUME Init PROVE AnswerInv
  OBVIOUS
<1>1. TInv /\ FetcherHoldsLock /\ WindowKept
  BY InitTInv, InitAttempt
<1>2. NoKnownKeyRemembered /\ MissesInTime /\ FetchesInTime /\ SetInTime
  BY DEF Init, NoKnownKeyRemembered, MissesInTime, FetchesInTime, SetInTime
<1>3. LongAgo \in Int /\ LongAgo <= 0
  BY JwksAssumption DEF LongAgo
<1>4. StampsPast
  BY <1>3 DEF Init, StampsPast, Never
<1> QED
  BY <1>1, <1>2, <1>4 DEF AnswerInv, InTime

\* Every step keeps it.
LEMMA NextAnswerInv == AnswerInv /\ [Next]_vars => AnswerInv'
<1> SUFFICES ASSUME AnswerInv, [Next]_vars PROVE AnswerInv'
  OBVIOUS
<1>1. /\ TInv /\ FInv /\ NoKnownKeyRemembered
      /\ StampsPast /\ FetchesInTime /\ SetInTime /\ MissesInTime
  BY DEF AnswerInv, InTime, TInv, FInv
<1>2. TInv' /\ TypeOK'
  BY <1>1, NextTInv DEF TInv
<1>3. FetcherHoldsLock' /\ WindowKept' /\ NoKnownKeyRemembered'
  BY <1>1, <1>2, NextAttempt, NextNoKnown
<1>4. StampsPast' /\ FetchesInTime' /\ SetInTime' /\ MissesInTime'
  BY <1>1, <1>2, StampsStayPast, FetchesStayInTime, SetStaysInTime, MissesStayInTime
<1> QED
  BY <1>2, <1>3, <1>4 DEF AnswerInv, InTime

(* The steps that answer a caller. *)
AnswersNow(c, k) ==
  \/ AskAnswered(c, k)
  \/ k = kid[c] /\ (HitUnderLock(c) \/ ShortCircuit(c) \/ AnswerOnHand(c) \/ Ends(c))

\* A caller is answered "key", "unknown" or "unavailable" only by one of those.
LEMMA WhoAnswers ==
  ASSUME AnswerInv, Next, NEW c \in Caller, NEW what \in {"key", "unknown", "unavailable"}, Answered(c, what)
  PROVE  \E k \in Kid : AnswersNow(c, k) /\ kid'[c] = k
<1>0. /\ answer \in [Caller -> Answers]
      /\ kid \in [Caller -> Kid \cup {NoKid}]
      /\ KidNamed
      /\ answer[c] = "none" /\ answer'[c] = what /\ what # "none"
  BY DEF AnswerInv, TInv, TypeOK, Answered
<1>1. answer' # answer
  BY <1>0
<1>2. ASSUME NEW d \in Caller, NEW outcome, Finish(d, outcome)
      PROVE  d = c /\ outcome = what /\ kid' = kid
  BY <1>0, <1>2 DEF Finish
<1>3. ASSUME NEW d \in Caller, NEW k \in Kid, AskAnswered(d, k)
      PROVE  d = c /\ kid'[c] = k
  BY <1>0, <1>3 DEF AskAnswered
<1>4. ASSUME NEW d \in Caller,
             HitUnderLock(d) \/ ShortCircuit(d) \/ AnswerOnHand(d) \/ Ends(d)
      PROVE  \E k \in Kid : AnswersNow(c, k) /\ kid'[c] = k
  <2>1. PICK outcome : Finish(d, outcome)
    BY <1>4 DEF HitUnderLock, ShortCircuit, AnswerOnHand, Ends, FetchSucceeds, Replace, FetchFails
  <2>2. d = c /\ kid' = kid
    BY <1>2, <2>1
  <2>3. kid[d] \in Kid
    BY <1>0, <1>4 DEF HitUnderLock, ShortCircuit, AnswerOnHand, Ends, FetchSucceeds, Replace,
                      FetchFails, HasTurn, KidNamed
  <2> QED
    BY <1>4, <2>2, <2>3 DEF AnswersNow
<1>5. ASSUME NEW d \in Caller, FetchRaises(d) \/ FetchCancelled(d) \/ WaitCancelled(d)
      PROVE  FALSE
  <2>1. Finish(d, "raised") \/ Finish(d, "cancelled")
    BY <1>5 DEF FetchRaises, FetchCancelled, RollBack, WaitCancelled
  <2> QED
    BY <1>2, <2>1
<1>6. ASSUME NEW d \in Caller,
             (\E k \in Kid : AskLocked(d, k)) \/ BeginFetch(d) \/ UpstreamReplies(d)
      PROVE  FALSE
  BY <1>1, <1>6 DEF AskLocked, BeginFetch, StartFetch, UpstreamReplies
<1>7. ASSUME NEW d \in Caller, Return(d) PROVE FALSE
  BY <1>0, <1>7 DEF Return
<1>8. ASSUME (\E k \in RealKid : Rotate(k)) \/ Tick PROVE FALSE
  BY <1>1, <1>8 DEF Rotate, Tick, call
<1> QED
  BY <1>3, <1>4, <1>5, <1>6, <1>7, <1>8 DEF Next, Turn, AnswersNow

\* While a caller has the lock and may not fetch, the last fetch that was not
\* cancelled is less than a window old.
LEMMA ClosedWindow ==
  ASSUME AnswerInv, NEW c \in Caller, HasTurn(c), ~MayFetch
  PROVE  spentAt # Never /\ now - spentAt < RefetchInterval
<1>1. \A d \in Caller : pc[d] # "fetching"
  BY DEF AnswerInv, FetcherHoldsLock, HasTurn
<1>2. attemptedAt = spentAt
  BY <1>1 DEF AnswerInv, WindowKept, Fetching
<1>3. /\ attemptedAt # Never /\ ~(now - attemptedAt >= RefetchInterval)
      /\ now \in Nat /\ attemptedAt \in Int /\ RefetchInterval \in Nat
  BY JwksAssumption DEF MayFetch, AnswerInv, TInv, TypeOK, Never
<1> QED
  BY <1>2, <1>3

\* What the numbers are.
LEMMA Moments ==
  ASSUME AnswerInv
  PROVE  /\ now \in Nat /\ attemptedAt \in Int /\ spentAt \in Int /\ fetchedAt \in Int
         /\ CacheTtl \in Nat \ {0} /\ NegativeTtl \in Nat /\ RefetchInterval \in Nat
         /\ FetchTimeout \in Nat \ {0} /\ RefetchInterval <= CacheTtl
         /\ \A k \in Kid : LastPublished(k) \in Int /\ LastAbsent(k) \in Int
  BY JwksAssumption, WindowAssumption
     DEF AnswerInv, TInv, TypeOK, Never, LastPublished, LastAbsent

(* A caller hears that no key set can be trusted only because the last fetch that
   was not cancelled failed: its own, or one less than a window ago. *)
THEOREM OutagesAreReal == Spec => OutageIsReal
<1>1. ASSUME AnswerInv, Next, NEW c \in Caller, Answered(c, "unavailable")
      PROVE  refused' /\ (pc[c] = "fetching" \/ now - spentAt < RefetchInterval)
  <2>0. TInv /\ TypeOK /\ SetInTime
    BY <1>1 DEF AnswerInv, InTime, TInv
  <2>1. PICK k \in Kid : AnswersNow(c, k) /\ kid'[c] = k
    BY <1>1, WhoAnswers
  <2>2. answer'[c] = "unavailable" /\ answer \in [Caller -> Answers]
    BY <1>1, <2>0 DEF Answered, TypeOK
  <2>3. \A outcome : Finish(c, outcome) => outcome = "unavailable"
    BY <2>2 DEF Finish
  <2>4. ~AskAnswered(c, k)
    BY <2>2 DEF AskAnswered
  <2>5. ~HitUnderLock(c) /\ ~ShortCircuit(c)
    BY <2>3 DEF HitUnderLock, ShortCircuit
  <2>6. ~FetchSucceeds(c)
    <3> SUFFICES ASSUME FetchSucceeds(c) PROVE FALSE
      OBVIOUS
    <3>1. reply[c] # NoKeys /\ Finish(c, AnswerFrom(reply[c], TRUE, kid[c]))
      BY DEF FetchSucceeds, Replace
    <3> QED
      BY <2>3, <3>1, AnswerFromProperties
  <2>7. CASE k = kid[c] /\ AnswerOnHand(c)
    <3>1. /\ HasTurn(c) /\ ~MayFetch /\ refused' = refused
          /\ Finish(c, AnswerFrom(keys, IsFresh, k))
      BY <2>7 DEF AnswerOnHand, history
    <3>2. AnswerFrom(keys, IsFresh, k) = "unavailable"
      BY <2>3, <3>1
    <3>3. keys = NoKeys \/ ~IsFresh
      BY <3>2, AnswerFromProperties DEF IsFresh
    <3>4. spentAt # Never /\ now - spentAt < RefetchInterval
      BY <1>1, <3>1, ClosedWindow
    <3>5. ~refused => keys # NoKeys /\ fetchedAt # Never /\ fetchedAt >= spentAt
      BY <2>0, <3>4 DEF SetInTime
    <3>6. ~refused => IsFresh
      BY <1>1, <3>4, <3>5, Moments DEF IsFresh
    <3> QED
      BY <3>1, <3>3, <3>4, <3>5, <3>6
  <2>8. CASE k = kid[c] /\ FetchFails(c)
    BY <2>8 DEF FetchFails
  <2> QED
    BY <2>1, <2>4, <2>5, <2>6, <2>7, <2>8 DEF AnswersNow, Ends
<1>2. AnswerInv /\ [Next]_vars
        => [\A c \in Caller : Answered(c, "unavailable") =>
              /\ refused'
              /\ pc[c] = "fetching" \/ now - spentAt < RefetchInterval]_vars
  BY <1>1
<1> QED
  BY <1>2, InitAnswerInv, NextAnswerInv, PTL DEF Spec, OutageIsReal

(* A withdrawn key is served no longer than the set is fresh and its fetch took,
   unless the last fetch failed. *)
THEOREM KeysAreRecent == Spec => KeyIsRecent
<1>1. ASSUME AnswerInv, Next, NEW c \in Caller, Answered(c, "key")
      PROVE  refused' \/ now - LastPublished(kid'[c]) < CacheTtl + FetchTimeout
  <2>0. TInv /\ TypeOK /\ SetInTime /\ FetchesInTime
    BY <1>1 DEF AnswerInv, InTime, TInv
  <2>1. PICK k \in Kid : AnswersNow(c, k) /\ kid'[c] = k
    BY <1>1, WhoAnswers
  <2> DEFINE Recent == now - LastPublished(k) < CacheTtl + FetchTimeout
  <2>2. answer'[c] = "key" /\ answer \in [Caller -> Answers]
    BY <1>1, <2>0 DEF Answered, TypeOK
  <2>3. \A outcome : Finish(c, outcome) => outcome = "key"
    BY <2>2 DEF Finish
  <2>4. ASSUME FreshHit(k) PROVE Recent
    <3>1. fetchedAt # Never /\ now - fetchedAt < CacheTtl /\ k \in keys /\ keys # NoKeys
      BY <2>4 DEF FreshHit, IsFresh
    <3>2. LastPublished(k) >= fetchedAt - FetchTimeout
      BY <2>0, <3>1 DEF SetInTime, Witnessed
    <3> QED
      BY <1>1, <3>1, <3>2, Moments
  <2>5. CASE AskAnswered(c, k) \/ (k = kid[c] /\ HitUnderLock(c))
    <3>1. FreshHit(k)
      BY <2>5 DEF AskAnswered, HitUnderLock
    <3> HIDE DEF Recent
    <3>2. Recent
      BY <2>4, <3>1
    <3> QED
      BY <2>1, <3>2 DEF Recent
  <2>6. CASE k = kid[c] /\ ShortCircuit(c)
    <3>1. Finish(c, "unknown")
      BY <2>6 DEF ShortCircuit
    <3> QED
      BY <2>3, <3>1
  <2>7. CASE k = kid[c] /\ AnswerOnHand(c)
    <3>1. /\ HasTurn(c) /\ ~MayFetch /\ ~FreshHit(k) /\ refused' = refused
          /\ Finish(c, AnswerFrom(keys, IsFresh, k))
      BY <2>7 DEF AnswerOnHand, history
    <3>2. AnswerFrom(keys, IsFresh, k) = "key"
      BY <2>3, <3>1
    <3>3. keys # NoKeys /\ k \in keys
      BY <3>2, AnswerFromProperties DEF IsFresh
    <3>4. fetchedAt # Never
      BY <2>0, <3>3 DEF SetInTime
    <3>5. ~(now - fetchedAt < CacheTtl)
      BY <3>1, <3>3, <3>4 DEF FreshHit, IsFresh
    <3>6. spentAt # Never /\ now - spentAt < RefetchInterval
      BY <1>1, <3>1, ClosedWindow
    <3>7. ~refused => fetchedAt >= spentAt
      BY <2>0, <3>6 DEF SetInTime
    <3>8. refused
      BY <1>1, <3>5, <3>6, <3>7, Moments
    <3> QED
      BY <3>1, <3>8
  <2>8. CASE k = kid[c] /\ FetchSucceeds(c)
    <3>1. /\ pc[c] = "fetching" /\ reply[c] # NoKeys
          /\ Finish(c, AnswerFrom(reply[c], TRUE, k))
      BY <2>8 DEF FetchSucceeds, Replace
    <3>2. k \in reply[c]
      BY <2>3, <3>1, AnswerFromProperties
    <3>3. LastPublished(k) >= attemptedAt /\ now - attemptedAt <= FetchTimeout
      BY <2>0, <3>1, <3>2 DEF FetchesInTime, Witnessed
    <3> QED
      BY <1>1, <2>1, <3>3, Moments
  <2>9. CASE k = kid[c] /\ FetchFails(c)
    BY <2>9 DEF FetchFails
  <2> HIDE DEF Recent
  <2> QED
    BY <2>1, <2>5, <2>6, <2>7, <2>8, <2>9 DEF AnswersNow, Ends
<1>2. AnswerInv /\ [Next]_vars
        => [\A c \in Caller : Answered(c, "key") =>
              \/ refused'
              \/ now - LastPublished(kid'[c]) < CacheTtl + FetchTimeout]_vars
  BY <1>1
<1> QED
  BY <1>2, InitAnswerInv, NextAnswerInv, PTL DEF Spec, KeyIsRecent

(* A kid is called unknown only if upstream did not publish it since the caller
   asked or within the last window; after a failed fetch, within the life of a
   fresh set and of a miss on top of it. *)
THEOREM DenialsAreRecent == Spec => UnknownIsRecent
<1> DEFINE Recent(c) ==
             LET absent == LastAbsent(kid[c])
             IN  \/ absent >= askedAt[c]
                 \/ now - absent < RefetchInterval
                 \/ /\ refused'
                    /\ now - absent < CacheTtl + FetchTimeout + NegativeTtl
<1>1. ASSUME AnswerInv, Next, NEW c \in Caller, Answered(c, "unknown")
      PROVE  Recent(c)
  <2>0. TInv /\ TypeOK /\ StampsPast /\ SetInTime /\ FetchesInTime /\ MissesInTime
    BY <1>1 DEF AnswerInv, InTime, TInv
  <2>1. PICK k \in Kid : AnswersNow(c, k) /\ kid'[c] = k
    BY <1>1, WhoAnswers
  <2>2. answer'[c] = "unknown" /\ answer \in [Caller -> Answers]
    BY <1>1, <2>0 DEF Answered, TypeOK
  <2>3. \A outcome : Finish(c, outcome) => outcome = "unknown"
    BY <2>2 DEF Finish
  <2>4. ASSUME ~refused, k \notin keys, HasTurn(c), ~MayFetch
        PROVE  now - LastAbsent(k) < RefetchInterval
    <3>1. spentAt # Never /\ now - spentAt < RefetchInterval
      BY <1>1, <2>4, ClosedWindow
    <3>2. LastAbsent(k) >= spentAt
      BY <2>0, <2>4, <3>1 DEF SetInTime, Witnessed
    <3> QED
      BY <1>1, <3>1, <3>2, Moments
  <2>5. ASSUME keys # NoKeys, IsFresh, k \notin keys
        PROVE  now - LastAbsent(k) < CacheTtl + FetchTimeout + NegativeTtl
    <3>1. LastAbsent(k) > now - CacheTtl - FetchTimeout
      BY <2>0, <2>5, FreshDenial
    <3> QED
      BY <1>1, <3>1, Moments
  <2>6. CASE AskAnswered(c, k)
    BY <2>2, <2>6 DEF AskAnswered
  <2>7. CASE k = kid[c] /\ HitUnderLock(c)
    <3>1. Finish(c, "key")
      BY <2>7 DEF HitUnderLock
    <3> QED
      BY <2>3, <3>1
  <2>8. CASE k = kid[c] /\ ShortCircuit(c)
    <3>1. /\ HasTurn(c) /\ ~MayFetch /\ refused' = refused
          /\ IsMissing(missing, k) /\ ~IsExpired(missing, k)
      BY <2>8 DEF ShortCircuit, IsRemembered, history
    <3>2. missing \in Seq(Entry)
      BY <2>0 DEF TypeOK
    <3> DEFINE p == Position(missing, k)
    <3>3. p \in DOMAIN missing /\ missing[p].kid = k /\ missing[p] \in Entry
      BY <3>1, <3>2, PositionIsAPlace, LenProperties, ElementOfSeq
    <3>4. ~(now - missing[p].at >= NegativeTtl)
      BY <3>1 DEF IsExpired
    <3> HIDE DEF p
    <3>5. missing[p].at \in Nat
      BY <3>3 DEF Entry
    <3>6. LastAbsent(k) > missing[p].at - CacheTtl - FetchTimeout
      BY <2>0, <3>3 DEF MissesInTime
    <3>7. now - LastAbsent(k) < CacheTtl + FetchTimeout + NegativeTtl
      BY <1>1, <3>4, <3>5, <3>6, Moments
    <3>8. keys # NoKeys => k \notin keys
      BY <1>1, <3>3 DEF AnswerInv, NoKnownKeyRemembered
    <3>9. ~refused => now - LastAbsent(k) < RefetchInterval
      <4>1. spentAt # Never
        BY <1>1, <3>1, ClosedWindow
      <4>2. ~refused => keys # NoKeys
        BY <2>0, <4>1 DEF SetInTime
      <4> QED
        BY <2>4, <3>1, <3>8, <4>2
    <3> QED
      BY <2>8, <3>1, <3>7, <3>9
  <2>9. CASE k = kid[c] /\ AnswerOnHand(c)
    <3>1. /\ HasTurn(c) /\ ~MayFetch /\ refused' = refused
          /\ Finish(c, AnswerFrom(keys, IsFresh, k))
      BY <2>9 DEF AnswerOnHand, history
    <3>2. AnswerFrom(keys, IsFresh, k) = "unknown"
      BY <2>3, <3>1
    <3>3. keys # NoKeys /\ IsFresh /\ k \notin keys
      BY <3>2, AnswerFromProperties DEF IsFresh
    <3> QED
      BY <2>4, <2>5, <2>9, <3>1, <3>3
  <2>10. CASE k = kid[c] /\ FetchSucceeds(c)
    <3>1. /\ pc[c] = "fetching" /\ reply[c] # NoKeys
          /\ Finish(c, AnswerFrom(reply[c], TRUE, k))
      BY <2>10 DEF FetchSucceeds, Replace
    <3>2. k \notin reply[c]
      BY <2>3, <3>1, AnswerFromProperties
    <3>3. LastAbsent(k) >= attemptedAt /\ askedAt[c] <= attemptedAt
      BY <2>0, <3>1, <3>2 DEF FetchesInTime, Witnessed
    <3>4. askedAt[c] \in Int
      BY <2>0 DEF TypeOK, Never
    <3>5. LastAbsent(k) >= askedAt[c]
      BY <1>1, <3>3, <3>4, Moments
    <3> QED
      BY <2>10, <3>5
  <2>11. CASE k = kid[c] /\ FetchFails(c)
    <3>1. refused' /\ Finish(c, AnswerFrom(keys, IsFresh, k))
      BY <2>11 DEF FetchFails
    <3>2. AnswerFrom(keys, IsFresh, k) = "unknown"
      BY <2>3, <3>1
    <3>3. keys # NoKeys /\ IsFresh /\ k \notin keys
      BY <3>2, AnswerFromProperties DEF IsFresh
    <3> QED
      BY <2>5, <2>11, <3>1, <3>3
  <2> HIDE DEF Recent
  <2> QED
    BY <2>1, <2>6, <2>7, <2>8, <2>9, <2>10, <2>11 DEF AnswersNow, Ends
<1> HIDE DEF Recent
<1>2. AnswerInv /\ [Next]_vars
        => [\A c \in Caller : Answered(c, "unknown") => Recent(c)]_vars
  BY <1>1
<1> QED
  BY <1>2, InitAnswerInv, NextAnswerInv, PTL DEF Spec, UnknownIsRecent, Recent
=============================================================================
