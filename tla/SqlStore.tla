------------------------------ MODULE SqlStore -------------------------------
(***************************************************************************)
(* SyncStoreAdapter (_internal/stores/sqlalchemy_store.py) on the asyncio  *)
(* backend: lookups by concurrent requests, each of which runs its         *)
(* database call on a worker thread, over a schema that is discovered by   *)
(* the first. A cancelled request leaves its thread running.               *)
(*                                                                         *)
(* Requests run on one event loop: one action is one stretch between two   *)
(* awaits, but for the two steps of rearm(), between which only threads    *)
(* may run. A thread reads the database, or fails and reports it, and is   *)
(* then heard by the loop.                                                 *)
(***************************************************************************)
EXTENDS TaskLock, FiniteSets \* Caller is the requests

CONSTANTS
  Slots,    \* the limiter's tokens
  Thread,   \* bound: the worker threads there may be at once
  Kind,     \* the kinds of failure a driver may raise
  MaxKinds  \* MAX_REPORTED_KINDS

ASSUME SqlAssumption ==
  /\ NoOne \notin Caller
  /\ Slots \in Nat \ {0}
  /\ MaxKinds \in Nat \ {0}
  /\ IsFiniteSet(Caller) /\ IsFiniteSet(Kind)

VARIABLES
  plan,                 \* what was discovered, NoPlan before
  reported, overflowed, \* the outage latch
  holders, line,        \* the limiter
  worker,               \* what each thread is doing
  pc, goal, work, answer, \* each request
  schema                \* the live database's

Limiter == INSTANCE CapacityLimiter
Outage  == INSTANCE OutageLatch

latch   == <<reported, overflowed>>
limiter == <<holders, line>>
request == <<pc, goal, work, answer>>
vars    == <<plan, latch, lock, limiter, worker, request, schema>>

\* How far Better Auth's migrations have come: a required column is missing,
\* or only one of the admin plugin's, or none.
Schemas == {"unmigrated", "plain", "admin"}
Usable  == {"plain", "admin"}
NoPlan  == "none"

Works   == {"columns", "select"}
Results == Schemas \cup {"pending", "rows", "failed", "raised"}
Free    == [caller |-> NoOne, work |-> "columns", result |-> "rows"]
Job     == [caller : Caller \cup {NoOne}, work : Works, result : Results]
Places  == {"idle", "entering", "waiting", "asking", "queued", "running",
            "forgetting", "done"}
Answers == {"none", "connected", "found", "missed", "misconfigured", "raised",
            "unavailable", "cancelled"}

TypeOK ==
  /\ plan \in Usable \cup {NoPlan}
  /\ reported \in SUBSET Kind
  /\ overflowed \in BOOLEAN
  /\ owner \in Caller \cup {NoOne}
  /\ waiters \in Seq(Caller)
  /\ holders \in SUBSET Caller
  /\ line \in Seq(Caller)
  /\ worker \in [Thread -> Job]
  /\ pc \in [Caller -> Places]
  /\ goal \in [Caller -> {"connect", "lookup"}]
  /\ work \in [Caller -> Works]
  /\ answer \in [Caller -> Answers]
  /\ schema \in Schemas

Init ==
  /\ plan = NoPlan
  /\ reported = {}
  /\ overflowed = FALSE
  /\ owner = NoOne
  /\ waiters = <<>>
  /\ holders = {}
  /\ line = <<>>
  /\ worker = [t \in Thread |-> Free]
  /\ pc = [c \in Caller |-> "idle"]
  /\ goal = [c \in Caller |-> "lookup"]
  /\ work = [c \in Caller |-> "columns"]
  /\ answer = [c \in Caller |-> "none"]
  /\ schema \in Schemas
-----------------------------------------------------------------------------
(* The requests *)

\* No request runs while another is between the two steps of rearm().
LoopIsFree == \A c \in Caller : pc[c] # "forgetting"

End(c, outcome) ==
  /\ pc' = [pc EXCEPT ![c] = "done"]
  /\ answer' = [answer EXCEPT ![c] = outcome]
  /\ UNCHANGED work

Ask(c, w) ==
  /\ pc' = [pc EXCEPT ![c] = "asking"]
  /\ work' = [work EXCEPT ![c] = w]
  /\ UNCHANGED answer

\* With a plan on hand, connect() is done and a lookup runs its statement.
Proceed(c, g) == IF g = "connect" THEN End(c, "connected") ELSE Ask(c, "select")

MutantEnterAtOnce(c) ==
  /\ TakeLock(c)
  /\ pc' = [pc EXCEPT ![c] = "entering"]
  /\ UNCHANGED <<work, answer>>

Acquire(c) ==
  /\ IF LockIsFree
     THEN TakeLock(c) /\ pc' = [pc EXCEPT ![c] = "entering"]
     ELSE JoinLine(c) /\ pc' = [pc EXCEPT ![c] = "waiting"]
  /\ UNCHANGED <<work, answer>>

\* A blank token or id never reaches the database.
CallBlank(c) ==
  /\ LoopIsFree
  /\ pc[c] = "idle"
  /\ goal' = [goal EXCEPT ![c] = "lookup"]
  /\ End(c, "missed")
  /\ UNCHANGED <<plan, latch, lock, limiter, worker, schema>>

Call(c, g) ==
  /\ LoopIsFree
  /\ pc[c] = "idle"
  /\ goal' = [goal EXCEPT ![c] = g]
  /\ IF plan # NoPlan THEN Proceed(c, g) /\ UNCHANGED lock ELSE Acquire(c)
  /\ UNCHANGED <<plan, latch, limiter, worker, schema>>

HasTurn(c) == LoopIsFree /\ owner = c /\ pc[c] \in {"entering", "waiting"}

\* The one before has discovered the schema meanwhile.
Rechecked(c) ==
  /\ HasTurn(c)
  /\ plan # NoPlan
  /\ Release
  /\ Proceed(c, goal[c])
  /\ UNCHANGED <<plan, latch, limiter, worker, goal, schema>>

StartDiscovery(c) ==
  /\ HasTurn(c)
  /\ Ask(c, "columns")
  /\ UNCHANGED <<plan, latch, lock, limiter, worker, goal, schema>>

MutantDiscoverAgain(c) == StartDiscovery(c)

Discover(c) == plan = NoPlan /\ StartDiscovery(c)

\* run_sync, first thing, yields; then it asks for a slot.
AskForSlot(c) ==
  /\ LoopIsFree
  /\ pc[c] = "asking"
  /\ Limiter!TakeSlot(c)
  /\ pc' = [pc EXCEPT ![c] = "queued"]
  /\ UNCHANGED <<plan, latch, lock, worker, goal, work, answer, schema>>

StartThread(c, t) ==
  /\ LoopIsFree
  /\ pc[c] = "queued"
  /\ c \in holders
  /\ worker[t] = Free
  /\ worker' = [worker EXCEPT ![t] = [caller |-> c, work |-> work[c], result |-> "pending"]]
  /\ pc' = [pc EXCEPT ![c] = "running"]
  /\ UNCHANGED <<plan, latch, lock, limiter, goal, work, answer, schema>>
-----------------------------------------------------------------------------
(* The threads *)

Yields(t, result) == worker' = [worker EXCEPT ![t].result = result]

\* The columns as they are now, or the database cannot be reached.
Inspect(t) ==
  /\ worker[t].work = "columns"
  /\ worker[t].result = "pending"
  /\ \E result \in {schema, "failed"} : Yields(t, result)
  /\ UNCHANGED <<plan, latch, lock, limiter, request, schema>>

Selects(t, result) ==
  /\ worker[t].work = "select"
  /\ worker[t].result = "pending"
  /\ Yields(t, result)
  /\ UNCHANGED <<plan, latch, lock, limiter, request, schema>>

Query(t) == Selects(t, "rows")

\* An exception that is none of SQLAlchemy's is nobody's to translate or report.
QueryRaises(t) == Selects(t, "raised")

\* The thread itself reports the failure, whoever still waits for it.
QueryFails(t, kind) ==
  /\ worker[t].work = "select"
  /\ worker[t].result = "pending"
  /\ Outage!Admit(kind)
  /\ Yields(t, "failed")
  /\ UNCHANGED <<plan, lock, limiter, request, schema>>
-----------------------------------------------------------------------------
(* The loop hears of a thread *)

Hears(t, c) ==
  /\ LoopIsFree
  /\ worker[t].result # "pending"
  /\ worker[t].caller = c
  /\ worker' = [worker EXCEPT ![t] = Free]

Plans(t, c, accepted) ==
  /\ Hears(t, c)
  /\ worker[t].work = "columns"
  /\ worker[t].result \in accepted
  /\ plan' = worker[t].result
  /\ Limiter!GiveBack(c)
  /\ Release
  /\ Proceed(c, goal[c])
  /\ UNCHANGED <<latch, goal, schema>>

MutantPlanAnything(t, c) == Plans(t, c, Schemas)

\* plan_for: usable with or without the admin plugin's columns.
Discovered(t, c) == Plans(t, c, Usable)

\* No plan: the schema is refused, or the driver's own error goes to the caller.
Undiscovered(t, c) ==
  /\ Hears(t, c)
  /\ worker[t].work = "columns"
  /\ worker[t].result \in {"unmigrated", "failed"}
  /\ Limiter!GiveBack(c)
  /\ Release
  /\ End(c, IF worker[t].result = "failed" THEN "raised" ELSE "misconfigured")
  /\ UNCHANGED <<plan, latch, goal, schema>>

\* The rows have come, and rearm() takes its look without the lock.
Fetched(t, c) ==
  /\ Hears(t, c)
  /\ worker[t].work = "select"
  /\ worker[t].result = "rows"
  /\ Limiter!GiveBack(c)
  /\ IF Outage!NothingToForget
     THEN \E outcome \in {"found", "missed"} : End(c, outcome)
     ELSE pc' = [pc EXCEPT ![c] = "forgetting"] /\ UNCHANGED <<work, answer>>
  /\ UNCHANGED <<plan, latch, lock, goal, schema>>

Forget(c) ==
  /\ pc[c] = "forgetting"
  /\ Outage!Clear
  /\ \E outcome \in {"found", "missed"} : End(c, outcome)
  /\ UNCHANGED <<plan, lock, limiter, worker, goal, schema>>

NotFetched(t, c) ==
  /\ Hears(t, c)
  /\ worker[t].work = "select"
  /\ worker[t].result \in {"failed", "raised"}
  /\ Limiter!GiveBack(c)
  /\ End(c, IF worker[t].result = "failed" THEN "unavailable" ELSE "raised")
  /\ UNCHANGED <<plan, latch, lock, goal, schema>>

\* Nobody waits for it any more.
Unheard(t) ==
  /\ worker[t] # Free
  /\ Hears(t, NoOne)
  /\ UNCHANGED <<plan, latch, lock, limiter, request, schema>>
-----------------------------------------------------------------------------
(* Cancellation *)

WaitCancelled(c) ==
  /\ LoopIsFree
  /\ pc[c] = "waiting"
  /\ Withdraw(c)
  /\ End(c, "cancelled")
  /\ UNCHANGED <<plan, latch, limiter, worker, goal, schema>>

\* The one who discovers lets go of the lock, whatever it was waiting for.
LeaveLock(c) == IF work[c] = "columns" THEN Release ELSE UNCHANGED lock

MutantSlotKept(c) ==
  /\ LoopIsFree
  /\ pc[c] \in {"asking", "queued"}
  /\ LeaveLock(c)
  /\ End(c, "cancelled")
  /\ UNCHANGED <<plan, latch, limiter, worker, goal, schema>>

SlotCancelled(c) ==
  /\ LoopIsFree
  /\ \/ pc[c] = "asking" /\ UNCHANGED limiter
     \/ pc[c] = "queued" /\ Limiter!Abandon(c)
  /\ LeaveLock(c)
  /\ End(c, "cancelled")
  /\ UNCHANGED <<plan, latch, worker, goal, schema>>

Abandons(c) ==
  /\ LoopIsFree
  /\ pc[c] = "running"
  /\ Limiter!GiveBack(c)
  /\ worker' = [t \in Thread |->
                  IF worker[t].caller = c THEN [worker[t] EXCEPT !.caller = NoOne]
                  ELSE worker[t]]
  /\ End(c, "cancelled")
  /\ UNCHANGED <<plan, latch, goal, schema>>

MutantRunCancelled(c) == Abandons(c) /\ UNCHANGED lock

\* The slot and the lock go on at once; the thread runs on by itself.
RunCancelled(c) == Abandons(c) /\ LeaveLock(c)

Return(c) ==
  /\ pc[c] = "done"
  /\ pc' = [pc EXCEPT ![c] = "idle"]
  /\ goal' = [goal EXCEPT ![c] = "lookup"]
  /\ work' = [work EXCEPT ![c] = "columns"]
  /\ answer' = [answer EXCEPT ![c] = "none"]
  /\ UNCHANGED <<plan, latch, lock, limiter, worker, schema>>

\* A migration is run while the application serves.
Migrate ==
  /\ \/ schema = "unmigrated" /\ schema' \in {"plain", "admin"}
     \/ schema = "plain" /\ schema' = "admin"
  /\ UNCHANGED <<plan, latch, lock, limiter, worker, request>>

Turn(c) == Rechecked(c) \/ Discover(c)

ThreadStep(t) ==
  \/ Inspect(t)
  \/ Query(t)
  \/ QueryRaises(t)
  \/ \E kind \in Kind : QueryFails(t, kind)

Heard(t) ==
  \/ Unheard(t)
  \/ \E c \in Caller :
       Discovered(t, c) \/ Undiscovered(t, c) \/ Fetched(t, c) \/ NotFetched(t, c)

Next ==
  \/ \E c \in Caller, g \in {"connect", "lookup"} : Call(c, g)
  \/ \E c \in Caller :
       \/ CallBlank(c)
       \/ Turn(c)
       \/ AskForSlot(c)
       \/ \E t \in Thread : StartThread(c, t)
       \/ Forget(c)
       \/ WaitCancelled(c)
       \/ SlotCancelled(c)
       \/ RunCancelled(c)
       \/ Return(c)
  \/ \E t \in Thread : ThreadStep(t) \/ Heard(t)
  \/ Migrate

Spec == Init /\ [][Next]_vars

\* The event loop serves its ready tasks in turn, though not while one of them
\* forgets; every thread runs, and every call of the driver ends.
FairSpec ==
  /\ Spec
  /\ \A c \in Caller :
       /\ SF_vars(Turn(c) \/ AskForSlot(c) \/ \E t \in Thread : StartThread(c, t))
       /\ WF_vars(Forget(c))
  /\ \A t \in Thread : WF_vars(ThreadStep(t)) /\ SF_vars(Heard(t))
-----------------------------------------------------------------------------
(* Safety *)

\* A plan, once there, is the one every later lookup uses: no second
\* discovery, late or abandoned, replaces it (_ready).
PlanIsKept == [][plan # NoPlan => plan' = plan]_vars

\* The lock keeps a burst of first requests from each inspecting the schema:
\* who asks for the columns holds it, and there is no plan yet (_ready).
DiscoveryIsExclusive ==
  \A c \in Caller :
    pc[c] \in {"asking", "queued", "running"} /\ work[c] = "columns"
      => owner = c /\ plan = NoPlan

\* A slot is held by a lookup that will use it or give it back, a running one
\* holds one, and nobody queues beside a free one (run_sync with _limiter).
NoSlotLeak ==
  /\ Limiter!SlotsAreUsed({c \in Caller : pc[c] \in {"queued", "running"}})
  /\ \A c \in Caller : pc[c] = "running" => c \in holders

\* A latch that rearm() finds with nothing to forget is not silent, so its
\* look without the lock cannot silence an outage for good (outage.py).
NeverMuted == Outage!CanSpeak

\* What is promised of the limiter: it bounds the concurrent threads, hence the
\* connections checked out, to the adapter's own (_select's comment).
ThreadsWithinSlots ==
  Cardinality({t \in Thread : worker[t].result = "pending"}) <= Slots
-----------------------------------------------------------------------------
(* Liveness *)

\* Every lookup ends, whether it waits for the schema, a slot or its thread,
\* and whichever way the one before it leaves (_ready, _select).
EveryCallEnds ==
  \A c \in Caller : pc[c] # "idle" ~> pc[c] = "done"
=============================================================================
