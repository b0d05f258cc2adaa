----------------------------- MODULE JwksClient -----------------------------
(***************************************************************************)
(* The key set of Mode B (_internal/jwks.py): JwksClient.key_for, called   *)
(* by any number of concurrent tasks, over a key set that upstream rotates *)
(* whenever it likes.                                                      *)
(*                                                                         *)
(* A task runs without interruption between two awaits, so one action is   *)
(* one such stretch. key_for awaits in two places: the anyio lock and the  *)
(* fetch. The lock hands itself to the task that has waited longest, and   *)
(* that task runs some time later. The clock is read once per stretch.     *)
(***************************************************************************)
EXTENDS TaskLock \* Caller is the tasks that call key_for

CONSTANTS
  Kid,             \* the key ids tokens name, made-up ones included
  RealKid,         \* those upstream has a key for and may publish
  NoKid,           \* a task that is not asking
  CacheTtl,        \* CACHE_TTL: seconds a fetched set stays fresh
  NegativeTtl,     \* NEGATIVE_TTL: seconds an unknown kid is remembered
  RefetchInterval, \* REFETCH_INTERVAL: the floor between two fetches
  MaxMisses,       \* MAX_REMEMBERED_MISSES
  FetchTimeout,    \* the transport's own deadline
  Horizon          \* bound: the last second the clock reaches

ASSUME JwksAssumption ==
  /\ NoOne \notin Caller
  /\ NoKid \notin Kid
  /\ RealKid \subseteq Kid
  /\ CacheTtl \in Nat \ {0}
  /\ NegativeTtl \in Nat
  /\ RefetchInterval \in Nat
  /\ MaxMisses \in Nat \ {0}
  /\ FetchTimeout \in Nat \ {0}
  /\ Horizon \in Nat

\* A set is not stale before the window of its fetch is over: the verifier keeps
\* REFETCH_INTERVAL at 10 seconds, and no CACHE_TTL is below MIN_CACHE_TTL, 60.
ASSUME WindowAssumption == RefetchInterval <= CacheTtl

VARIABLES
  keys, fetchedAt, attemptedAt, missing,          \* the client
  pc, kid, answer, askedAt, previous, reply,      \* each call of key_for
  now, published, changedAt,                      \* the clock and upstream
  spentAt, refused                                \* history, for properties

client   == <<keys, fetchedAt, attemptedAt, missing>>
call     == <<pc, kid, answer, askedAt, previous, reply>>
upstream == <<published, changedAt>>
history  == <<spentAt, refused>>
vars     == <<client, lock, call, now, upstream, history>>

Never   == -1
NoKeys  == {NoKid} \* None: no key set, no reply yet. Not a subset of Kid
LongAgo == -(CacheTtl + NegativeTtl + FetchTimeout + RefetchInterval)
Entry   == [kid : Kid, at : Nat]
Answers == {"none", "key", "unknown", "unavailable", "raised", "cancelled"}

TypeOK ==
  /\ keys \in (SUBSET Kid) \cup {NoKeys}
  /\ fetchedAt \in Nat \cup {Never}
  /\ attemptedAt \in Nat \cup {Never}
  /\ missing \in Seq(Entry)
  /\ owner \in Caller \cup {NoOne}
  /\ waiters \in Seq(Caller)
  /\ pc \in [Caller -> {"idle", "entering", "waiting", "fetching", "done"}]
  /\ kid \in [Caller -> Kid \cup {NoKid}]
  /\ answer \in [Caller -> Answers]
  /\ askedAt \in [Caller -> Nat \cup {Never}]
  /\ previous \in [Caller -> Nat \cup {Never}]
  /\ reply \in [Caller -> (SUBSET Kid) \cup {NoKeys}]
  /\ now \in Nat
  /\ published \in SUBSET RealKid
  /\ changedAt \in [Kid -> Int]
  /\ spentAt \in Nat \cup {Never}
  /\ refused \in BOOLEAN

Init ==
  /\ keys = NoKeys
  /\ fetchedAt = Never
  /\ attemptedAt = Never
  /\ missing = <<>>
  /\ owner = NoOne
  /\ waiters = <<>>
  /\ pc = [c \in Caller |-> "idle"]
  /\ kid = [c \in Caller |-> NoKid]
  /\ answer = [c \in Caller |-> "none"]
  /\ askedAt = [c \in Caller |-> Never]
  /\ previous = [c \in Caller |-> Never]
  /\ reply = [c \in Caller |-> NoKeys]
  /\ now = 0
  /\ published \in SUBSET RealKid
  /\ changedAt = [k \in Kid |-> LongAgo]
  /\ spentAt = Never
  /\ refused = FALSE
-----------------------------------------------------------------------------
(* The cache's own questions. *)

MutantFreshAtTtl == fetchedAt # Never /\ now - fetchedAt <= CacheTtl

IsFresh == fetchedAt # Never /\ now - fetchedAt < CacheTtl

FreshHit(k) == keys # NoKeys /\ IsFresh /\ k \in keys

MayFetch == attemptedAt = Never \/ now - attemptedAt >= RefetchInterval

\* _answer over the set ks: a key however old, a denial only from a fresh set.
AnswerFrom(ks, fresh, k) ==
  IF ks # NoKeys /\ k \in ks THEN "key"
  ELSE IF ks # NoKeys /\ fresh THEN "unknown"
  ELSE "unavailable"
-----------------------------------------------------------------------------
(* The remembered misses: a dict in insertion order. Assigning to a kid    *)
(* that is already there keeps its place.                                  *)

IsMissing(m, k) == \E i \in DOMAIN m : m[i].kid = k

Position(m, k) == CHOOSE i \in DOMAIN m : m[i].kid = k

IsExpired(m, k) == now - m[Position(m, k)].at >= NegativeTtl

IsRemembered(k) == IsMissing(missing, k) /\ ~IsExpired(missing, k)

\* What _is_remembered leaves behind: an expired entry is deleted on sight.
Swept(k) ==
  IF IsMissing(missing, k) /\ IsExpired(missing, k)
  THEN RemoveAt(missing, Position(missing, k))
  ELSE missing

MutantEvictLate(m) ==
  IF Len(m) <= MaxMisses THEN m
  ELSE SubSeq(m, Len(m) - MaxMisses + 2, Len(m))

\* The loop that pops from the front until one more entry fits.
Evicted(m) ==
  IF Len(m) < MaxMisses THEN m
  ELSE SubSeq(m, Len(m) - MaxMisses + 2, Len(m))

Remember(m, k) ==
  LET room == Evicted(m)
  IN  IF IsMissing(room, k)
      THEN [room EXCEPT ![Position(room, k)].at = now]
      ELSE Append(room, [kid |-> k, at |-> now])

MissingAfter(m, k, outcome) == IF outcome = "unknown" THEN Remember(m, k) ELSE m
-----------------------------------------------------------------------------
(* The lock. A caller that finds it free still yields once before it runs. *)

Acquire(c) ==
  IF LockIsFree
  THEN TakeLock(c) /\ pc' = [pc EXCEPT ![c] = "entering"]
  ELSE JoinLine(c) /\ pc' = [pc EXCEPT ![c] = "waiting"]

HasTurn(c) == owner = c /\ pc[c] \in {"entering", "waiting"}

\* The caller is answered; whatever it kept on its stack is gone.
Finish(c, outcome) ==
  /\ pc' = [pc EXCEPT ![c] = "done"]
  /\ answer' = [answer EXCEPT ![c] = outcome]
  /\ previous' = [previous EXCEPT ![c] = Never]
  /\ reply' = [reply EXCEPT ![c] = NoKeys]
  /\ askedAt' = [askedAt EXCEPT ![c] = Never]
  /\ UNCHANGED kid
-----------------------------------------------------------------------------
(* key_for *)

AskAnswered(c, k) ==
  /\ pc[c] = "idle"
  /\ FreshHit(k)
  /\ pc' = [pc EXCEPT ![c] = "done"]
  /\ answer' = [answer EXCEPT ![c] = "key"]
  /\ kid' = [kid EXCEPT ![c] = k]
  /\ UNCHANGED <<client, lock, askedAt, previous, reply, now, upstream, history>>

AskLocked(c, k) ==
  /\ pc[c] = "idle"
  /\ ~FreshHit(k)
  /\ Acquire(c)
  /\ kid' = [kid EXCEPT ![c] = k]
  /\ askedAt' = [askedAt EXCEPT ![c] = now]
  /\ UNCHANGED <<client, answer, previous, reply, now, upstream, history>>

\* Whoever held the lock may have fetched the answer already.
HitUnderLock(c) ==
  /\ HasTurn(c)
  /\ FreshHit(kid[c])
  /\ Finish(c, "key")
  /\ Release
  /\ UNCHANGED <<client, now, upstream, history>>

\* The window is stamped before the request leaves, and the old stamp kept.
StartFetch(c) ==
  /\ previous' = [previous EXCEPT ![c] = attemptedAt]
  /\ attemptedAt' = now
  /\ pc' = [pc EXCEPT ![c] = "fetching"]
  /\ UNCHANGED <<keys, fetchedAt, missing, lock, kid, answer, askedAt, reply,
                 now, upstream, history>>

BeginFetch(c) ==
  /\ HasTurn(c)
  /\ ~FreshHit(kid[c])
  /\ MayFetch
  /\ StartFetch(c)

MutantMissesBeforeWindow(c) ==
  /\ HasTurn(c)
  /\ ~FreshHit(kid[c])
  /\ IsRemembered(kid[c])
  /\ Finish(c, "unknown")
  /\ Release
  /\ UNCHANGED <<client, now, upstream, history>>

ShortCircuit(c) ==
  /\ HasTurn(c)
  /\ ~FreshHit(kid[c])
  /\ ~MayFetch
  /\ IsRemembered(kid[c])
  /\ Finish(c, "unknown")
  /\ Release
  /\ UNCHANGED <<client, now, upstream, history>>

AnswerOnHand(c) ==
  /\ HasTurn(c)
  /\ ~FreshHit(kid[c])
  /\ ~MayFetch
  /\ ~IsRemembered(kid[c])
  /\ LET outcome == AnswerFrom(keys, IsFresh, kid[c])
     IN  /\ missing' = MissingAfter(Swept(kid[c]), kid[c], outcome)
         /\ Finish(c, outcome)
  /\ Release
  /\ UNCHANGED <<keys, fetchedAt, attemptedAt, now, upstream, history>>

\* The set is replaced whole; kept are the misses that survive it.
Replace(c, kept) ==
  /\ pc[c] = "fetching"
  /\ reply[c] # NoKeys
  /\ keys' = reply[c]
  /\ fetchedAt' = now
  /\ LET outcome == AnswerFrom(reply[c], TRUE, kid[c])
     IN  /\ missing' = MissingAfter(kept, kid[c], outcome)
         /\ Finish(c, outcome)
  /\ Release
  /\ spentAt' = attemptedAt
  /\ refused' = FALSE
  /\ UNCHANGED <<attemptedAt, now, upstream>>

MutantMissesSurvive(c) == Replace(c, missing)

\* Every remembered miss is forgotten.
FetchSucceeds(c) == Replace(c, <<>>)

\* Timeout, non-200, oversized or unusable document. With no set on hand the
\* error is raised; with one, it goes on answering, and nothing is forgotten.
FetchFails(c) ==
  /\ pc[c] = "fetching"
  /\ LET outcome == AnswerFrom(keys, IsFresh, kid[c])
     IN  /\ missing' = MissingAfter(missing, kid[c], outcome)
         /\ Finish(c, outcome)
  /\ Release
  /\ spentAt' = attemptedAt
  /\ refused' = TRUE
  /\ UNCHANGED <<keys, fetchedAt, attemptedAt, now, upstream>>

MutantRaiseRollsBack(c) ==
  /\ pc[c] = "fetching"
  /\ Finish(c, "raised")
  /\ Release
  /\ attemptedAt' = previous[c]
  /\ spentAt' = attemptedAt
  /\ refused' = TRUE
  /\ UNCHANGED <<keys, fetchedAt, missing, now, upstream>>

\* A transport of the application's own raised one of the library's errors.
FetchRaises(c) ==
  /\ pc[c] = "fetching"
  /\ Finish(c, "raised")
  /\ Release
  /\ spentAt' = attemptedAt
  /\ refused' = TRUE
  /\ UNCHANGED <<client, now, upstream>>

RollBack(c, stamp) ==
  /\ pc[c] = "fetching"
  /\ attemptedAt' = stamp
  /\ Finish(c, "cancelled")
  /\ UNCHANGED <<keys, fetchedAt, missing, now, upstream, history>>

MutantWindowSubtracted(c) == RollBack(c, now - RefetchInterval) /\ Release
MutantLockLeaked(c)       == RollBack(c, previous[c]) /\ UNCHANGED lock
MutantCancelSpends(c)     == RollBack(c, attemptedAt) /\ Release

\* No answer came, so the window is given back as it was.
FetchCancelled(c) == RollBack(c, previous[c]) /\ Release

\* A waiter that was handed the lock and cancelled before it ran passes it on.
WaitCancelled(c) ==
  /\ pc[c] = "waiting"
  /\ Finish(c, "cancelled")
  /\ Withdraw(c)
  /\ UNCHANGED <<client, now, upstream, history>>

\* The request is over, and the task may ask again.
Return(c) ==
  /\ pc[c] = "done"
  /\ pc' = [pc EXCEPT ![c] = "idle"]
  /\ kid' = [kid EXCEPT ![c] = NoKid]
  /\ answer' = [answer EXCEPT ![c] = "none"]
  /\ UNCHANGED <<client, lock, askedAt, previous, reply, now, upstream, history>>
-----------------------------------------------------------------------------
(* The world *)

\* Upstream reads its key set and sends it; the reply is still on its way.
UpstreamReplies(c) ==
  /\ pc[c] = "fetching"
  /\ reply[c] = NoKeys
  /\ reply' = [reply EXCEPT ![c] = published]
  /\ UNCHANGED <<client, lock, pc, kid, answer, askedAt, previous, now,
                 upstream, history>>

Rotate(k) ==
  /\ published' = IF k \in published THEN published \ {k} ELSE published \cup {k}
  /\ changedAt' = [changedAt EXCEPT ![k] = now]
  /\ UNCHANGED <<client, lock, call, now, history>>

\* The transport's deadline bounds how long a fetch can be in flight.
Tick ==
  /\ now < Horizon
  /\ \A c \in Caller : pc[c] = "fetching" => now - attemptedAt < FetchTimeout
  /\ now' = now + 1
  /\ UNCHANGED <<client, lock, call, upstream, history>>

Ends(c) == FetchSucceeds(c) \/ FetchFails(c)

Turn(c) ==
  \/ HitUnderLock(c)
  \/ BeginFetch(c)
  \/ ShortCircuit(c)
  \/ AnswerOnHand(c)

Next ==
  \/ \E c \in Caller, k \in Kid : AskAnswered(c, k) \/ AskLocked(c, k)
  \/ \E c \in Caller :
       \/ Turn(c)
       \/ Ends(c)
       \/ FetchRaises(c)
       \/ FetchCancelled(c)
       \/ WaitCancelled(c)
       \/ Return(c)
       \/ UpstreamReplies(c)
  \/ \E k \in RealKid : Rotate(k)
  \/ Tick

Spec == Init /\ [][Next]_vars

\* The event loop runs every ready task, and the transport's deadline ends
\* every fetch. Nothing is assumed of upstream, of the callers or of time.
Fairness == \A c \in Caller : WF_vars(Turn(c)) /\ WF_vars(Ends(c))

FairSpec == Spec /\ Fairness
-----------------------------------------------------------------------------
(* Properties *)

Answered(c, what) == answer[c] = "none" /\ answer'[c] = what

Fetching == \E c \in Caller : pc[c] = "fetching"

\* The last moment at which upstream did, or did not, publish k.
LastPublished(k) == IF k \in published THEN now ELSE changedAt[k]
LastAbsent(k)    == IF k \in published THEN changedAt[k] ELSE now

\* No kid is remembered as missing while the key set on hand carries it:
\* a fetch that brings a key in forgets that it ever was unknown.
NoKnownKeyRemembered ==
  keys # NoKeys => \A i \in DOMAIN missing : missing[i].kid \notin keys

\* However many kids are made up, the memory of them is bounded, and no kid
\* takes up two places in it.
MissesBounded ==
  /\ Len(missing) <= MaxMisses
  /\ \A i, j \in DOMAIN missing : missing[i].kid = missing[j].kid => i = j

\* A caller hears that no key set can be trusted only because the last fetch that
\* was not cancelled failed: its own, or one less than a window ago. A cancelled
\* fetch is nobody else's outage, nor is a set going stale between two fetches.
OutageIsReal ==
  [][\A c \in Caller : Answered(c, "unavailable") =>
       /\ refused'
       /\ pc[c] = "fetching" \/ now - spentAt < RefetchInterval]_vars

\* A kid is called unknown only if upstream really did not publish it at some
\* moment since the caller asked or within the last RefetchInterval: that is
\* how fast a rotation resolves. When the last fetch failed, the denial may be
\* as old as a fresh set's last moment and one NegativeTtl on top of it.
UnknownIsRecent ==
  [][\A c \in Caller : Answered(c, "unknown") =>
       LET absent == LastAbsent(kid[c])
       IN  \/ absent >= askedAt[c]
           \/ now - absent < RefetchInterval
           \/ /\ refused'
              /\ now - absent < CacheTtl + FetchTimeout + NegativeTtl]_vars

\* A key upstream has withdrawn is served no longer than the set is fresh, plus
\* the time its fetch took, unless the last fetch failed.
KeyIsRecent ==
  [][\A c \in Caller : Answered(c, "key") =>
       \/ refused'
       \/ now - LastPublished(kid'[c]) < CacheTtl + FetchTimeout]_vars

\* Whatever the callers do, fetches reach upstream one at a time and a full
\* window apart, and a cancelled one does not spend the window.
Attempt == INSTANCE ThrottledAttempt WITH
  Interval <- RefetchInterval,
  running <- Fetching,
  startedAt <- IF Fetching THEN attemptedAt ELSE Never

FetchIsThrottled == Attempt!Spec

\* Every caller that had to wait gets an answer, a failure or a cancellation:
\* the lock is handed on whichever way its holder leaves.
EveryCallEnds == \A c \in Caller : pc[c] = "waiting" ~> pc[c] = "done"

\* The docstring's promise, at jwks.py:72-75 and again at :141-145: a stale set
\* is never grounds for calling a kid unknown.
UnknownOnlyFromFreshSet ==
  [][\A c \in Caller : Answered(c, "unknown") => IsFresh']_vars
=============================================================================
