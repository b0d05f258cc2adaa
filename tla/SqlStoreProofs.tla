--------------------------- MODULE SqlStoreProofs ---------------------------
(***************************************************************************)
(* What holds of SqlStore for every set of requests, threads and kinds of  *)
(* failure, and every number of slots.                                     *)
(***************************************************************************)
EXTENDS SqlStore, TaskLockProofs

\* The types the arguments about the discovery need; the lock's line and the
\* limiter do not matter to them.
Typed ==
  /\ worker \in [Thread -> Job]
  /\ pc \in [Caller -> Places]
  /\ work \in [Caller -> Works]
  /\ schema \in Schemas

\* A thread works for a request that waits for it, and on what it waits for.
ThreadsServe ==
  \A t \in Thread :
    worker[t].caller # NoOne
      => pc[worker[t].caller] = "running" /\ work[worker[t].caller] = worker[t].work

\* No two threads work for one request.
OneThreadEach ==
  \A t, u \in Thread :
    worker[t].caller = worker[u].caller /\ worker[t].caller # NoOne => t = u

DiscoveryInv == Typed /\ ThreadsServe /\ OneThreadEach /\ DiscoveryIsExclusive

\* What is reported is within the cap, and a silent latch is a full one.
LatchInv ==
  /\ IsFiniteSet(reported)
  /\ Cardinality(reported) <= MaxKinds
  /\ overflowed \in BOOLEAN
  /\ NeverMuted
-----------------------------------------------------------------------------
(* The schema is discovered by one request at a time. *)

\* At the start there is no plan and no thread at work.
LEMMA DiscoveryInit == Init => DiscoveryInv
<1> SUFFICES ASSUME Init PROVE DiscoveryInv
  OBVIOUS
<1>1. Typed
  BY SqlAssumption DEF Init, Typed, Job, Free, Works, Results, Schemas, Places
<1>2. ThreadsServe /\ OneThreadEach
  BY DEF Init, ThreadsServe, OneThreadEach, Free
<1>3. DiscoveryIsExclusive
  BY DEF Init, DiscoveryIsExclusive
<1> QED
  BY <1>1, <1>2, <1>3 DEF DiscoveryInv

(* A request that no thread serves may change what it does, as long as     *)
(* whoever then discovers holds the lock and nothing was discovered.       *)
LEMMA RequestStep ==
  ASSUME DiscoveryInv, NEW c \in Caller, pc[c] # "running",
         NEW p \in Places, NEW w \in Works, p # "running",
         pc' = [pc EXCEPT ![c] = p], work' = [work EXCEPT ![c] = w],
         UNCHANGED <<worker, schema>>
  PROVE  Typed' /\ ThreadsServe' /\ OneThreadEach'
<1>1. Typed'
  BY DEF DiscoveryInv, Typed
<1>2. ThreadsServe'
  BY DEF DiscoveryInv, Typed, ThreadsServe, Job
<1>3. OneThreadEach'
  BY DEF DiscoveryInv, OneThreadEach
<1> QED
  BY <1>1, <1>2, <1>3

(* The loop hears of the thread that served a request: none does then.     *)
LEMMA HeardStep ==
  ASSUME DiscoveryInv, NEW c \in Caller, NEW t \in Thread, Hears(t, c),
         NEW p \in Places, NEW w \in Works, p # "running",
         pc' = [pc EXCEPT ![c] = p], work' = [work EXCEPT ![c] = w],
         UNCHANGED schema
  PROVE  Typed' /\ ThreadsServe' /\ OneThreadEach'
<1>1. worker' = [worker EXCEPT ![t] = Free] /\ worker[t].caller = c
  BY DEF Hears
<1>2. Typed'
  BY <1>1 DEF DiscoveryInv, Typed, Job, Free, Works, Results, Schemas
<1>3. c # NoOne
  BY SqlAssumption
<1>4. ASSUME NEW u \in Thread, worker'[u].caller # NoOne
      PROVE  u # t /\ worker'[u] = worker[u] /\ worker[u].caller # c
  <2>1. u # t
    BY <1>1, <1>4 DEF DiscoveryInv, Typed, Free
  <2>2. worker'[u] = worker[u]
    BY <1>1, <2>1 DEF DiscoveryInv, Typed
  <2>3. worker[u].caller # c
    BY <1>1, <1>3, <2>1 DEF DiscoveryInv, OneThreadEach
  <2> QED
    BY <2>1, <2>2, <2>3
<1>5. ThreadsServe'
  BY <1>4 DEF DiscoveryInv, Typed, ThreadsServe, Job
<1>6. OneThreadEach'
  BY <1>4 DEF DiscoveryInv, OneThreadEach
<1> QED
  BY <1>2, <1>5, <1>6

(* Whoever asks for the columns holds the lock, so nobody else does.       *)
LEMMA OneDiscoverer ==
  ASSUME DiscoveryInv, NEW c \in Caller, NEW d \in Caller,
         pc[c] \in {"asking", "queued", "running"}, work[c] = "columns",
         pc[d] \in {"asking", "queued", "running"}, work[d] = "columns"
  PROVE  c = d
BY DEF DiscoveryInv, DiscoveryIsExclusive

\* Every step leaves at most one request discovering, under the lock.
LEMMA DiscoveryStep == DiscoveryInv /\ [Next]_vars => DiscoveryInv'
<1> SUFFICES ASSUME DiscoveryInv, [Next]_vars PROVE DiscoveryInv'
  OBVIOUS
<1> USE DEF DiscoveryInv
<1>t. /\ worker \in [Thread -> Job]
      /\ pc \in [Caller -> Places]
      /\ work \in [Caller -> Works]
      /\ schema \in Schemas
  BY DEF Typed
<1>1. ASSUME NEW c \in Caller, CallBlank(c) PROVE DiscoveryInv'
  <2>1. Typed' /\ ThreadsServe' /\ OneThreadEach'
    <3>1. /\ pc' = [pc EXCEPT ![c] = "done"]
          /\ work' = [work EXCEPT ![c] = work[c]]
      BY <1>1, <1>t DEF CallBlank, End
    <3> QED
      BY <1>1, <1>t, <3>1, RequestStep DEF CallBlank, Places
  <2>2. DiscoveryIsExclusive'
    BY <1>1, <1>t DEF CallBlank, End, DiscoveryIsExclusive, lock
  <2> QED
    BY <2>1, <2>2
<1>2. ASSUME NEW c \in Caller, NEW g \in {"connect", "lookup"}, Call(c, g)
      PROVE  DiscoveryInv'
  <2>1. Typed' /\ ThreadsServe' /\ OneThreadEach'
    BY <1>2, <1>t, RequestStep DEF Call, Proceed, End, Ask, Acquire, Places, Works
  <2>2. DiscoveryIsExclusive'
    BY <1>2, <1>t, SqlAssumption
    DEF Call, Proceed, End, Ask, Acquire, TakeLock, JoinLine, LockIsFree,
        DiscoveryIsExclusive, lock
  <2> QED
    BY <2>1, <2>2
<1>3. ASSUME NEW c \in Caller, Rechecked(c) PROVE DiscoveryInv'
  <2>1. Typed' /\ ThreadsServe' /\ OneThreadEach'
    BY <1>3, <1>t, RequestStep
    DEF Rechecked, HasTurn, Proceed, End, Ask, Places, Works
  <2>2. DiscoveryIsExclusive'
    BY <1>3, <1>t
    DEF Rechecked, HasTurn, Proceed, End, Ask, DiscoveryIsExclusive
  <2> QED
    BY <2>1, <2>2
<1>4. ASSUME NEW c \in Caller, Discover(c) PROVE DiscoveryInv'
  <2>1. Typed' /\ ThreadsServe' /\ OneThreadEach'
    BY <1>4, <1>t, RequestStep
    DEF Discover, StartDiscovery, HasTurn, Ask, Places, Works
  <2>2. DiscoveryIsExclusive'
    BY <1>4, <1>t
    DEF Discover, StartDiscovery, HasTurn, Ask, DiscoveryIsExclusive, lock
  <2> QED
    BY <2>1, <2>2
<1>5. ASSUME NEW c \in Caller, AskForSlot(c) PROVE DiscoveryInv'
  <2>1. pc[c] = "asking" /\ pc' = [pc EXCEPT ![c] = "queued"]
        /\ UNCHANGED <<plan, owner, worker, work, schema>>
    BY <1>5 DEF AskForSlot, lock
  <2>2. Typed'
    BY <1>t, <2>1 DEF Typed, Places
  <2>3. ThreadsServe' /\ OneThreadEach'
    BY <1>t, <2>1 DEF ThreadsServe, OneThreadEach, Job
  <2>4. DiscoveryIsExclusive'
    BY <1>t, <2>1 DEF DiscoveryIsExclusive
  <2> QED
    BY <2>2, <2>3, <2>4
<1>6. ASSUME NEW c \in Caller, NEW t \in Thread, StartThread(c, t)
      PROVE  DiscoveryInv'
  <2> DEFINE job == [caller |-> c, work |-> work[c], result |-> "pending"]
  <2>1. /\ pc[c] = "queued"
        /\ worker' = [worker EXCEPT ![t] = job]
        /\ pc' = [pc EXCEPT ![c] = "running"]
        /\ UNCHANGED <<plan, owner, work, schema>>
    BY <1>6 DEF StartThread, lock
  <2>2. job \in Job
    BY <1>t DEF Job, Works, Results
  <2>3. Typed'
    BY <1>t, <2>1, <2>2 DEF Typed, Places
  <2>4. \A u \in Thread : worker[u].caller # c
    BY <2>1, SqlAssumption DEF ThreadsServe
  <2>5. worker'[t] = job /\ \A u \in Thread \ {t} : worker'[u] = worker[u]
    BY <1>t, <2>1
  <2>6. ThreadsServe'
    BY <1>t, <2>1, <2>4, <2>5 DEF ThreadsServe, Job
  <2>7. OneThreadEach'
    BY <2>4, <2>5 DEF OneThreadEach
  <2>8. DiscoveryIsExclusive'
    BY <1>t, <2>1 DEF DiscoveryIsExclusive
  <2> QED
    BY <2>3, <2>6, <2>7, <2>8
<1>7. ASSUME NEW t \in Thread, ThreadStep(t) PROVE DiscoveryInv'
  <2>1. PICK result \in Results : worker' = [worker EXCEPT ![t].result = result]
    <3>1. CASE Inspect(t)
      <4>1. PICK r \in {schema, "failed"} : Yields(t, r)
        BY <3>1 DEF Inspect
      <4> QED
        BY <1>t, <4>1 DEF Yields, Results
    <3> QED
      BY <1>7, <3>1 DEF ThreadStep, Query, QueryRaises, Selects, QueryFails, Yields, Results
  <2>2. UNCHANGED <<plan, owner, pc, work, schema>>
    BY <1>7 DEF ThreadStep, Inspect, Query, QueryRaises, Selects, QueryFails, lock, request
  <2>3. \A u \in Thread : /\ worker'[u].caller = worker[u].caller
                          /\ worker'[u].work = worker[u].work
    BY <1>t, <2>1 DEF Job
  <2>4. Typed'
    BY <1>t, <2>1, <2>2 DEF Typed, Job
  <2>5. ThreadsServe' /\ OneThreadEach'
    BY <2>2, <2>3 DEF ThreadsServe, OneThreadEach
  <2>6. DiscoveryIsExclusive'
    BY <2>2 DEF DiscoveryIsExclusive
  <2> QED
    BY <2>4, <2>5, <2>6
<1>8. ASSUME NEW t \in Thread, NEW c \in Caller,
             Discovered(t, c) \/ Undiscovered(t, c)
      PROVE  DiscoveryInv'
  <2>1. Hears(t, c) /\ worker[t].work = "columns" /\ Release
    BY <1>8 DEF Discovered, Plans, Undiscovered
  <2>2. pc[c] = "running" /\ work[c] = "columns"
    BY <2>1, SqlAssumption DEF Hears, ThreadsServe
  <2>3. Typed' /\ ThreadsServe' /\ OneThreadEach'
    BY <1>8, <1>t, <2>1, HeardStep
    DEF Discovered, Plans, Undiscovered, Proceed, End, Ask, Places, Works
  <2>4. \A d \in Caller :
          pc[d] \in {"asking", "queued", "running"} /\ work[d] = "columns" => d = c
    BY <2>2, OneDiscoverer
  <2>5. DiscoveryIsExclusive'
    BY <1>8, <1>t, <2>4
    DEF Discovered, Plans, Undiscovered, Proceed, End, Ask, DiscoveryIsExclusive
  <2> QED
    BY <2>3, <2>5
<1>9. ASSUME NEW t \in Thread, NEW c \in Caller, Fetched(t, c) \/ NotFetched(t, c)
      PROVE  DiscoveryInv'
  <2>1. Hears(t, c) /\ UNCHANGED <<plan, owner, schema>>
    BY <1>9 DEF Fetched, NotFetched, lock
  <2>2. PICK p \in {"done", "forgetting"} :
          pc' = [pc EXCEPT ![c] = p] /\ work' = [work EXCEPT ![c] = work[c]]
    BY <1>9, <1>t DEF Fetched, NotFetched, End
  <2>3. Typed' /\ ThreadsServe' /\ OneThreadEach'
    BY <1>t, <2>1, <2>2, HeardStep DEF Places
  <2>4. DiscoveryIsExclusive'
    BY <1>t, <2>1, <2>2 DEF DiscoveryIsExclusive
  <2> QED
    BY <2>3, <2>4
<1>10. ASSUME NEW t \in Thread, Unheard(t) PROVE DiscoveryInv'
  <2>1. worker' = [worker EXCEPT ![t] = Free] /\ UNCHANGED <<plan, owner, pc, work, schema>>
    BY <1>10 DEF Unheard, Hears, lock, request
  <2>2. Free \in Job /\ Free.caller = NoOne
    BY DEF Free, Job, Works, Results
  <2>3. \A u \in Thread : worker'[u].caller # NoOne => worker'[u] = worker[u]
    BY <1>t, <2>1, <2>2
  <2>4. Typed'
    BY <1>t, <2>1, <2>2 DEF Typed
  <2>5. ThreadsServe' /\ OneThreadEach'
    BY <2>1, <2>3 DEF ThreadsServe, OneThreadEach
  <2>6. DiscoveryIsExclusive'
    BY <2>1 DEF DiscoveryIsExclusive
  <2> QED
    BY <2>4, <2>5, <2>6
<1>11. ASSUME NEW c \in Caller, Forget(c) \/ WaitCancelled(c) \/ Return(c)
       PROVE  DiscoveryInv'
  <2>1. PICK p \in {"done", "idle"}, w \in Works :
          pc' = [pc EXCEPT ![c] = p] /\ work' = [work EXCEPT ![c] = w]
    BY <1>11, <1>t DEF Forget, WaitCancelled, Return, End, Works
  <2>2. /\ pc[c] \in {"forgetting", "waiting", "done"}
        /\ UNCHANGED <<plan, worker, schema>>
        /\ owner' = owner \/ owner = c
    BY <1>11 DEF Forget, WaitCancelled, Return, Withdraw, LeaveLine, lock
  <2>3. Typed' /\ ThreadsServe' /\ OneThreadEach'
    BY <1>t, <2>1, <2>2, RequestStep DEF Places
  <2>4. DiscoveryIsExclusive'
    BY <1>t, <2>1, <2>2 DEF DiscoveryIsExclusive
  <2> QED
    BY <2>3, <2>4
<1>12. ASSUME NEW c \in Caller, SlotCancelled(c) PROVE DiscoveryInv'
  <2>1. /\ pc[c] \in {"asking", "queued"}
        /\ pc' = [pc EXCEPT ![c] = "done"]
        /\ work' = [work EXCEPT ![c] = work[c]]
        /\ UNCHANGED <<plan, worker, schema>>
        /\ LeaveLock(c)
    BY <1>12, <1>t DEF SlotCancelled, End
  <2>2. Typed' /\ ThreadsServe' /\ OneThreadEach'
    BY <1>t, <2>1, RequestStep DEF Places
  <2>3. DiscoveryIsExclusive'
    BY <1>t, <2>1, OneDiscoverer DEF LeaveLock, DiscoveryIsExclusive, lock
  <2> QED
    BY <2>2, <2>3
<1>13. ASSUME NEW c \in Caller, RunCancelled(c) PROVE DiscoveryInv'
  <2>1. /\ pc[c] = "running"
        /\ pc' = [pc EXCEPT ![c] = "done"]
        /\ UNCHANGED <<plan, work, schema>>
        /\ LeaveLock(c)
    BY <1>13 DEF RunCancelled, Abandons, End
  <2>2. worker' = [t \in Thread |->
                     IF worker[t].caller = c THEN [worker[t] EXCEPT !.caller = NoOne]
                     ELSE worker[t]]
    BY <1>13 DEF RunCancelled, Abandons
  <2>3. \A t \in Thread : worker'[t] \in Job
    BY <1>t, <2>2 DEF Job
  <2>4. Typed'
    BY <1>t, <2>1, <2>2, <2>3 DEF Typed, Places
  <2>5. \A t \in Thread :
          worker'[t].caller # NoOne => worker'[t] = worker[t] /\ worker[t].caller # c
    BY <1>t, <2>2 DEF Job
  <2>6. ThreadsServe' /\ OneThreadEach'
    BY <1>t, <2>1, <2>5 DEF ThreadsServe, OneThreadEach, Job
  <2>7. DiscoveryIsExclusive'
    BY <1>t, <2>1, OneDiscoverer DEF LeaveLock, DiscoveryIsExclusive, lock
  <2> QED
    BY <2>4, <2>6, <2>7
<1>14. CASE Migrate \/ UNCHANGED vars
  BY <1>14
  DEF Migrate, Schemas, vars, lock, request, Typed, ThreadsServe, OneThreadEach,
      DiscoveryIsExclusive
<1> QED
  BY <1>1, <1>2, <1>3, <1>4, <1>5, <1>6, <1>7, <1>8, <1>9, <1>10, <1>11, <1>12,
     <1>13, <1>14
  DEF Next, Turn, Heard

(* One request at a time asks for the columns, holding the lock, and only  *)
(* while there is no plan (_ready).                                        *)
THEOREM OneDiscovers == Spec => []DiscoveryIsExclusive
<1>1. DiscoveryInv => DiscoveryIsExclusive
  BY DEF DiscoveryInv
<1> QED
  BY <1>1, DiscoveryInit, DiscoveryStep, PTL DEF Spec

(* Only the discoverer's thread brings a plan, and then there is none.     *)
LEMMA PlanStep == DiscoveryInv /\ [Next]_vars /\ plan # NoPlan => plan' = plan
<1> SUFFICES ASSUME DiscoveryInv, [Next]_vars, plan # NoPlan PROVE plan' = plan
  OBVIOUS
<1>1. ASSUME NEW t \in Thread, NEW c \in Caller, Discovered(t, c) PROVE FALSE
  <2>1. worker[t].caller = c /\ worker[t].work = "columns"
    BY <1>1 DEF Discovered, Plans, Hears
  <2>2. pc[c] = "running" /\ work[c] = "columns"
    BY <2>1, SqlAssumption DEF DiscoveryInv, ThreadsServe
  <2> QED
    BY <2>2 DEF DiscoveryInv, DiscoveryIsExclusive
<1>2. CASE UNCHANGED vars
  BY <1>2 DEF vars
<1>3. ASSUME NEW c \in Caller, NEW g \in {"connect", "lookup"}, Call(c, g)
      PROVE  plan' = plan
  BY <1>3 DEF Call
<1>4. ASSUME NEW c \in Caller,
             \/ CallBlank(c) \/ Turn(c) \/ AskForSlot(c)
             \/ \E t \in Thread : StartThread(c, t)
             \/ Forget(c) \/ WaitCancelled(c) \/ SlotCancelled(c)
             \/ RunCancelled(c) \/ Return(c)
      PROVE  plan' = plan
  BY <1>4
  DEF CallBlank, Turn, Rechecked, Discover, StartDiscovery, AskForSlot,
      StartThread, Forget, WaitCancelled, SlotCancelled, RunCancelled, Abandons,
      Return
<1>5. ASSUME NEW t \in Thread, ThreadStep(t) \/ Heard(t) PROVE plan' = plan
  BY <1>1, <1>5
  DEF ThreadStep, Inspect, Query, QueryRaises, Selects, QueryFails, Heard, Unheard, Undiscovered,
      Fetched, NotFetched
<1> QED
  BY <1>2, <1>3, <1>4, <1>5 DEF Next, Migrate

(* A plan is never replaced, by a late discovery or an abandoned one.      *)
THEOREM PlanStays == Spec => PlanIsKept
<1>1. DiscoveryInv /\ [Next]_vars => [plan # NoPlan => plan' = plan]_vars
  BY PlanStep
<1> QED
  BY <1>1, DiscoveryInit, DiscoveryStep, PTL DEF Spec, PlanIsKept
-----------------------------------------------------------------------------
(* The outage latch. *)

\* The instance's cardinality is the library's.
LEMMA SameCardinality == Outage!Cardinality(reported) = Cardinality(reported)
BY DEF Outage!Cardinality, Cardinality

\* Reporting a failure stays within the cap, and falls silent only at it.
LEMMA AdmitKeeps ==
  ASSUME LatchInv, NEW kind, Outage!Admit(kind)
  PROVE  LatchInv'
<1>1. CASE overflowed \/ kind \in reported
  BY <1>1 DEF Outage!Admit, Outage!latch, LatchInv, NeverMuted, Outage!CanSpeak
<1> DEFINE full == Cardinality(reported) >= MaxKinds
<1> HIDE DEF full
<1>2. CASE ~overflowed /\ kind \notin reported /\ full
  <2>1. Cardinality(reported) = MaxKinds
    BY <1>2, FS_CardinalityType, SqlAssumption DEF LatchInv, full
  <2>2. overflowed' = TRUE /\ reported' = reported
    BY <1>2, SameCardinality, Zenon DEF Outage!Admit, full
  <2> QED
    BY <2>1, <2>2, SameCardinality, SqlAssumption
    DEF LatchInv, NeverMuted, Outage!CanSpeak, full
<1>3. CASE ~overflowed /\ kind \notin reported /\ ~full
  <2>1. reported' = reported \cup {kind} /\ overflowed' = overflowed
    BY <1>3, SameCardinality, Zenon DEF Outage!Admit, full
  <2>2. /\ IsFiniteSet(reported')
        /\ Cardinality(reported') = Cardinality(reported) + 1
    BY <1>3, <2>1, FS_AddElement DEF LatchInv
  <2>3. Cardinality(reported) \in Nat
    BY FS_CardinalityType DEF LatchInv
  <2> QED
    BY <1>3, <2>1, <2>2, <2>3, SqlAssumption
    DEF LatchInv, NeverMuted, Outage!CanSpeak, full
<1> QED
  BY <1>1, <1>2, <1>3

\* At the start nothing was reported, and nothing is silenced.
LEMMA LatchInit == Init => LatchInv
<1> SUFFICES ASSUME Init PROVE LatchInv
  OBVIOUS
<1>1. reported = {} /\ overflowed = FALSE
  BY Zenon DEF Init
<1>2. IsFiniteSet(reported) /\ Cardinality(reported) = 0
  BY <1>1, FS_EmptySet, Zenon
<1>3. Cardinality(reported) <= MaxKinds
  BY <1>2, SqlAssumption
<1> QED
  BY <1>1, <1>2, <1>3, Zenon DEF LatchInv, NeverMuted, Outage!CanSpeak

\* Every step, of a thread or of the loop, keeps a silent latch full.
LEMMA LatchStep == LatchInv /\ [Next]_vars => LatchInv'
<1> SUFFICES ASSUME LatchInv, [Next]_vars PROVE LatchInv'
  OBVIOUS
<1>1. CASE UNCHANGED latch
  BY <1>1 DEF latch, LatchInv, NeverMuted, Outage!CanSpeak
<1>2. ASSUME NEW t \in Thread, NEW kind \in Kind, QueryFails(t, kind)
      PROVE  LatchInv'
  BY <1>2, AdmitKeeps DEF QueryFails
<1>3. ASSUME NEW c \in Caller, Forget(c) PROVE LatchInv'
  <2>1. reported' = {} /\ overflowed' = FALSE
    BY <1>3 DEF Forget, Outage!Clear
  <2>2. IsFiniteSet(reported') /\ Cardinality(reported') = 0
    BY <2>1, FS_EmptySet, Zenon
  <2>3. Cardinality(reported') <= MaxKinds
    BY <2>2, SqlAssumption
  <2> QED
    BY <2>1, <2>2, <2>3, Zenon DEF LatchInv, NeverMuted, Outage!CanSpeak
<1>4. \/ UNCHANGED latch
      \/ \E t \in Thread, kind \in Kind : QueryFails(t, kind)
      \/ \E c \in Caller : Forget(c)
  <2>1. CASE UNCHANGED vars
    BY <2>1 DEF vars
  <2>2. ASSUME NEW c \in Caller, NEW g \in {"connect", "lookup"}, Call(c, g)
        PROVE  UNCHANGED latch
    BY <2>2 DEF Call
  <2>3. ASSUME NEW c \in Caller,
               \/ CallBlank(c) \/ Turn(c) \/ AskForSlot(c)
               \/ \E t \in Thread : StartThread(c, t)
               \/ WaitCancelled(c) \/ SlotCancelled(c) \/ RunCancelled(c) \/ Return(c)
        PROVE  UNCHANGED latch
    BY <2>3
    DEF CallBlank, Turn, Rechecked, Discover, StartDiscovery, AskForSlot,
        StartThread, WaitCancelled, SlotCancelled, RunCancelled, Abandons, Return
  <2>4. ASSUME NEW t \in Thread, Inspect(t) \/ Query(t) \/ QueryRaises(t) \/ Heard(t)
        PROVE  UNCHANGED latch
    BY <2>4
    DEF Inspect, Query, QueryRaises, Selects, Heard, Unheard, Discovered, Plans,
        Undiscovered, Fetched, NotFetched
  <2> QED
    BY <2>1, <2>2, <2>3, <2>4 DEF Next, ThreadStep, Migrate
<1> QED
  BY <1>1, <1>2, <1>3, <1>4

(* A silent latch has something to forget, so the next lookup that         *)
(* completes makes every failure news again (OutageLatch.rearm).           *)
THEOREM NeverMutedForGood == Spec => []NeverMuted
<1>1. LatchInv => NeverMuted
  BY DEF LatchInv
<1> QED
  BY <1>1, LatchInit, LatchStep, PTL DEF Spec
-----------------------------------------------------------------------------
(* The types of the rest: the queues, the latch and what a request is told. *)

QueuesTyped ==
  /\ owner \in Caller \cup {NoOne}
  /\ waiters \in Seq(Caller)
  /\ holders \in SUBSET Caller
  /\ line \in Seq(Caller)

RequestsTyped ==
  /\ plan \in Usable \cup {NoPlan}
  /\ goal \in [Caller -> {"connect", "lookup"}]
  /\ answer \in [Caller -> Answers]

LatchTyped == reported \in SUBSET Kind /\ overflowed \in BOOLEAN

RestTyped == QueuesTyped /\ RequestsTyped /\ LatchTyped

\* Asking for a slot, giving it back and leaving the line keep the queue one of
\* requests.
LEMMA LimiterKeeps ==
  ASSUME QueuesTyped, NEW c \in Caller,
         Limiter!TakeSlot(c) \/ Limiter!GiveBack(c) \/ Limiter!Abandon(c)
  PROVE  holders' \in SUBSET Caller /\ line' \in Seq(Caller)
<1> USE DEF QueuesTyped
<1>1. CASE Limiter!TakeSlot(c)
  BY <1>1, AppendProperties DEF Limiter!TakeSlot
<1>2. ASSUME Limiter!GiveBack(c)
      PROVE  holders' \in SUBSET Caller /\ line' \in Seq(Caller)
  <2>1. line # <<>> => Head(line) \in Caller /\ Tail(line) \in Seq(Caller)
    BY HeadTailProperties
  <2> QED
    BY <1>2, <2>1 DEF Limiter!GiveBack
<1>3. CASE Limiter!Abandon(c) /\ c \notin holders
  <2>1. PICK i \in DOMAIN line : line' = Limiter!RemoveAt(line, i) /\ UNCHANGED holders
    BY <1>3 DEF Limiter!Abandon
  <2>2. line' = RemoveAt(line, i) /\ i \in 1..Len(line)
    BY <2>1, LenProperties DEF Limiter!RemoveAt, RemoveAt
  <2> QED
    BY <2>1, <2>2, RemoveAtProperties
<1> QED
  BY <1>1, <1>2, <1>3 DEF Limiter!Abandon

\* What a stretch does to the lock.
LEMMA LockKeeps ==
  ASSUME QueuesTyped, NEW c \in Caller,
         \/ Release \/ Withdraw(c) \/ LeaveLock(c) \/ UNCHANGED lock
         \/ (LockIsFree /\ TakeLock(c)) \/ JoinLine(c)
  PROVE  owner' \in Caller \cup {NoOne} /\ waiters' \in Seq(Caller)
BY ReleaseKeeps, WithdrawKeeps, JoinKeeps DEF QueuesTyped, LeaveLock, TakeLock, JoinLine, lock

\* At the start the queues are empty.
LEMMA RestInit == Init => RestTyped
<1> SUFFICES ASSUME Init PROVE RestTyped
  OBVIOUS
<1>1. waiters = <<>> /\ line = <<>>
  BY DEF Init
<1>2. waiters \in Seq(Caller) /\ line \in Seq(Caller)
  BY <1>1, EmptySeq
<1> QED
  BY <1>2 DEF Init, RestTyped, QueuesTyped, RequestsTyped, LatchTyped, Answers

\* Every step keeps them.
LEMMA RestStep == Typed /\ RestTyped /\ [Next]_vars => RestTyped'
<1> SUFFICES ASSUME Typed, QueuesTyped, RequestsTyped, LatchTyped, [Next]_vars
             PROVE  QueuesTyped' /\ RequestsTyped' /\ LatchTyped'
  BY DEF RestTyped
<1> DEFINE LockTyped    == owner' \in Caller \cup {NoOne} /\ waiters' \in Seq(Caller)
           SlotsTyped   == holders' \in SUBSET Caller /\ line' \in Seq(Caller)
<1>q. /\ UNCHANGED lock => LockTyped
      /\ UNCHANGED limiter => SlotsTyped
  BY DEF QueuesTyped, lock, limiter
<1>l. UNCHANGED latch => LatchTyped'
  BY DEF LatchTyped, latch
<1>o. \A c \in Caller, outcome \in Answers : End(c, outcome) => answer' \in [Caller -> Answers]
  BY DEF End, RequestsTyped
<1>p. \A c \in Caller : \A g : Proceed(c, g) => answer' \in [Caller -> Answers]
  BY <1>o DEF Proceed, Ask, Answers, RequestsTyped
<1>1. ASSUME NEW c \in Caller,
             CallBlank(c) \/ \E g \in {"connect", "lookup"} : Call(c, g)
      PROVE  QueuesTyped' /\ RequestsTyped' /\ LatchTyped'
  <2>1. UNCHANGED <<plan, latch, limiter>> /\ goal' \in [Caller -> {"connect", "lookup"}]
    BY <1>1 DEF CallBlank, Call, RequestsTyped
  <2>2. LockTyped
    BY <1>1, <1>q, LockKeeps DEF CallBlank, Call, Acquire
  <2>3. answer' \in [Caller -> Answers]
    BY <1>1, <1>o, <1>p DEF CallBlank, Call, Acquire, Answers, RequestsTyped
  <2> QED
    BY <1>q, <1>l, <2>1, <2>2, <2>3 DEF QueuesTyped, RequestsTyped
<1>2. ASSUME NEW c \in Caller, Turn(c)
      PROVE  QueuesTyped' /\ RequestsTyped' /\ LatchTyped'
  <2>1. UNCHANGED <<plan, latch, limiter, goal>>
    BY <1>2 DEF Turn, Rechecked, Discover, StartDiscovery
  <2>2. LockTyped
    BY <1>2, <1>q, LockKeeps DEF Turn, Rechecked, Discover, StartDiscovery
  <2>3. answer' \in [Caller -> Answers]
    BY <1>2, <1>p DEF Turn, Rechecked, Discover, StartDiscovery, Ask, RequestsTyped
  <2> QED
    BY <1>q, <1>l, <2>1, <2>2, <2>3 DEF QueuesTyped, RequestsTyped
<1>3. ASSUME NEW c \in Caller, AskForSlot(c) \/ \E t \in Thread : StartThread(c, t)
      PROVE  QueuesTyped' /\ RequestsTyped' /\ LatchTyped'
  <2>1. UNCHANGED <<plan, latch, lock, goal, answer>>
    BY <1>3 DEF AskForSlot, StartThread
  <2>2. SlotsTyped
    BY <1>3, <1>q, LimiterKeeps DEF AskForSlot, StartThread
  <2> QED
    BY <1>q, <1>l, <2>1, <2>2 DEF QueuesTyped, RequestsTyped
<1>4. ASSUME NEW t \in Thread, ThreadStep(t) \/ Unheard(t)
      PROVE  QueuesTyped' /\ RequestsTyped' /\ LatchTyped'
  <2>1. UNCHANGED <<plan, lock, limiter, request>>
    BY <1>4 DEF ThreadStep, Inspect, Query, QueryRaises, Selects, QueryFails, Unheard
  <2>2. LatchTyped'
    <3>1. CASE \E kind \in Kind : QueryFails(t, kind)
      BY <3>1, Zenon DEF QueryFails, Outage!Admit, Outage!latch, LatchTyped
    <3>2. CASE ~\E kind \in Kind : QueryFails(t, kind)
      BY <1>4, <1>l, <3>2 DEF ThreadStep, Inspect, Query, QueryRaises, Selects, Unheard
    <3> QED
      BY <3>1, <3>2
  <2> QED
    BY <1>q, <2>1, <2>2 DEF QueuesTyped, RequestsTyped, request
<1>5. ASSUME NEW t \in Thread, NEW c \in Caller, Discovered(t, c) \/ Undiscovered(t, c)
      PROVE  QueuesTyped' /\ RequestsTyped' /\ LatchTyped'
  <2>1. Limiter!GiveBack(c) /\ Release /\ UNCHANGED <<latch, goal>>
    BY <1>5 DEF Discovered, Plans, Undiscovered
  <2>2. LockTyped /\ SlotsTyped
    BY <2>1, LockKeeps, LimiterKeeps
  <2>3. plan' \in Usable \cup {NoPlan}
    BY <1>5 DEF Discovered, Plans, Undiscovered, RequestsTyped
  <2>4. answer' \in [Caller -> Answers]
    BY <1>5, <1>o, <1>p DEF Discovered, Plans, Undiscovered, Answers
  <2> QED
    BY <1>l, <2>1, <2>2, <2>3, <2>4 DEF QueuesTyped, RequestsTyped
<1>6. ASSUME NEW t \in Thread, NEW c \in Caller, Fetched(t, c) \/ NotFetched(t, c)
      PROVE  QueuesTyped' /\ RequestsTyped' /\ LatchTyped'
  <2>1. Limiter!GiveBack(c) /\ UNCHANGED <<plan, latch, lock, goal>>
    BY <1>6 DEF Fetched, NotFetched
  <2>2. SlotsTyped
    BY <2>1, LimiterKeeps
  <2>3. answer' \in [Caller -> Answers]
    BY <1>6, <1>o DEF Fetched, NotFetched, Answers, RequestsTyped
  <2> QED
    BY <1>q, <1>l, <2>1, <2>2, <2>3 DEF QueuesTyped, RequestsTyped
<1>7. ASSUME NEW c \in Caller, Forget(c)
      PROVE  QueuesTyped' /\ RequestsTyped' /\ LatchTyped'
  <2>1. UNCHANGED <<plan, lock, limiter, goal>> /\ reported' = {} /\ overflowed' = FALSE
    BY <1>7 DEF Forget, Outage!Clear
  <2>2. answer' \in [Caller -> Answers]
    BY <1>7, <1>o DEF Forget, Answers
  <2> QED
    BY <1>q, <2>1, <2>2 DEF QueuesTyped, RequestsTyped, LatchTyped
<1>8. ASSUME NEW c \in Caller, WaitCancelled(c) \/ SlotCancelled(c) \/ RunCancelled(c)
      PROVE  QueuesTyped' /\ RequestsTyped' /\ LatchTyped'
  <2>1. UNCHANGED <<plan, latch, goal>> /\ End(c, "cancelled")
    BY <1>8 DEF WaitCancelled, SlotCancelled, RunCancelled, Abandons
  <2>2. LockTyped
    BY <1>8, LockKeeps DEF WaitCancelled, SlotCancelled, RunCancelled
  <2>3. SlotsTyped
    BY <1>8, <1>q, LimiterKeeps DEF WaitCancelled, SlotCancelled, RunCancelled, Abandons
  <2>4. answer' \in [Caller -> Answers]
    BY <1>o, <2>1 DEF Answers
  <2> QED
    BY <1>l, <2>1, <2>2, <2>3, <2>4 DEF QueuesTyped, RequestsTyped
<1>9. ASSUME NEW c \in Caller, Return(c)
      PROVE  QueuesTyped' /\ RequestsTyped' /\ LatchTyped'
  BY <1>9, <1>q, <1>l DEF Return, QueuesTyped, RequestsTyped, Answers
<1>10. CASE Migrate \/ UNCHANGED vars
  BY <1>10, <1>q, <1>l DEF Migrate, vars, request, QueuesTyped, RequestsTyped
<1> QED
  BY <1>1, <1>2, <1>3, <1>4, <1>5, <1>6, <1>7, <1>8, <1>9, <1>10 DEF Next, Heard

(* Every variable keeps its type, however lookups, threads and cancellations
   interleave. *)
THEOREM StoreTypeCorrect == Spec => []TypeOK
<1>1. DiscoveryInv /\ RestTyped => TypeOK
  BY DEF DiscoveryInv, Typed, RestTyped, QueuesTyped, RequestsTyped, LatchTyped, TypeOK
<1>2. DiscoveryInv => Typed
  BY DEF DiscoveryInv
<1> QED
  BY <1>1, <1>2, DiscoveryInit, DiscoveryStep, RestInit, RestStep, PTL DEF Spec
-----------------------------------------------------------------------------
(* The slots of the limiter. *)

InSlots == {c \in Caller : pc[c] \in {"queued", "running"}}

(* Every slot and every place in line belongs to a lookup at that stage, and a
   lookup whose thread runs holds one: what NoSlotLeak says, with the line. *)
SlotsKept ==
  /\ Accounted(holders, line, InSlots, Slots)
  /\ \A c \in Caller : pc[c] = "running" => c \in holders

\* The limiter's cardinality is the library's.
LEMMA SameCount == \A S : Limiter!Cardinality(S) = Cardinality(S)
BY DEF Limiter!Cardinality, Cardinality

\* At the start no one holds a slot and no one waits.
LEMMA SlotsInit == Init => SlotsKept
<1> SUFFICES ASSUME Init PROVE SlotsKept
  OBVIOUS
<1>1. holders = {} /\ line = <<>> /\ \A c \in Caller : pc[c] = "idle"
  BY DEF Init
<1>2. InSlots = {}
  BY <1>1 DEF InSlots
<1>3. IsFiniteSet(holders) /\ Cardinality(holders) = 0
  BY <1>1, FS_EmptySet
<1>4. Len(line) = 0
  BY <1>1
<1> QED
  BY <1>1, <1>2, <1>3, <1>4, SqlAssumption DEF SlotsKept, Accounted

\* Where one lookup stands, and that the others stay where they are.
MovesTo(c, places) ==
  pc'[c] \in places /\ \A d \in Caller \ {c} : pc'[d] = pc[d]

\* A lookup moves outside the limiter.
LEMMA MovingOutside ==
  ASSUME SlotsKept, UNCHANGED limiter, NEW c \in Caller,
         pc[c] \notin {"queued", "running"},
         MovesTo(c, Places \ {"queued", "running"})
  PROVE  SlotsKept'
<1>1. InSlots' = InSlots
  BY DEF InSlots, MovesTo
<1> QED
  BY <1>1 DEF SlotsKept, MovesTo, limiter

\* A lookup asks for a slot.
LEMMA Joining ==
  ASSUME QueuesTyped, SlotsKept, NEW c \in Caller, Limiter!TakeSlot(c),
         pc[c] \notin {"queued", "running"}, MovesTo(c, {"queued"})
  PROVE  SlotsKept'
<1>1. InSlots' = InSlots \cup {c} /\ c \notin InSlots
  BY DEF InSlots, MovesTo
<1>2. holders \in SUBSET Caller /\ line \in Seq(Caller) /\ Slots \in Nat
  BY SqlAssumption DEF QueuesTyped
<1>3. Accounted(holders, line, InSlots, Slots)
  BY DEF SlotsKept
<1>4. Accounted(holders', line', InSlots', Slots)
  <2>1. CASE line = <<>> /\ Cardinality(holders) < Slots
    <3>1. Accounted(holders \cup {c}, line, InSlots \cup {c}, Slots)
      BY <1>1, <1>2, <1>3, <2>1, NewcomerIsAccounted
    <3>2. holders' = holders \cup {c} /\ line' = line
      BY <2>1, SameCount DEF Limiter!TakeSlot, Limiter!SlotIsFree
    <3> QED
      BY <1>1, <3>1, <3>2
  <2>2. CASE ~(line = <<>> /\ Cardinality(holders) < Slots)
    <3>1. Accounted(holders, Append(line, c), InSlots \cup {c}, Slots)
      BY <1>1, <1>2, <1>3, <2>2, NewcomerIsAccounted
    <3>2. holders' = holders /\ line' = Append(line, c)
      BY <2>2, SameCount DEF Limiter!TakeSlot, Limiter!SlotIsFree
    <3> QED
      BY <1>1, <3>1, <3>2
  <2> QED
    BY <2>1, <2>2
<1>5. holders \subseteq holders'
  BY DEF Limiter!TakeSlot
<1> QED
  BY <1>4, <1>5 DEF SlotsKept, MovesTo

\* A lookup gives its slot back.
LEMMA Leaving ==
  ASSUME QueuesTyped, SlotsKept, NEW c \in Caller, c \in holders, Limiter!GiveBack(c),
         MovesTo(c, Places \ {"queued", "running"})
  PROVE  SlotsKept'
<1>1. InSlots' = InSlots \ {c}
  BY DEF InSlots, MovesTo
<1>2. holders \in SUBSET Caller /\ line \in Seq(Caller) /\ Slots \in Nat
  BY SqlAssumption DEF QueuesTyped
<1>3. Accounted(holders, line, InSlots, Slots)
  BY DEF SlotsKept
<1>4. Accounted(holders', line', InSlots', Slots)
  <2>1. CASE line = <<>>
    <3>1. Accounted(holders \ {c}, line, InSlots \ {c}, Slots)
      BY <1>2, <1>3, <2>1, SlotGivenBackIsAccounted
    <3> QED
      BY <1>1, <2>1, <3>1 DEF Limiter!GiveBack
  <2>2. CASE line # <<>>
    <3>1. Accounted((holders \ {c}) \cup {Head(line)}, Tail(line), InSlots \ {c}, Slots)
      BY <1>2, <1>3, <2>2, SlotGivenBackIsAccounted
    <3> QED
      BY <1>1, <2>2, <3>1 DEF Limiter!GiveBack
  <2> QED
    BY <2>1, <2>2
<1>5. holders \ {c} \subseteq holders'
  BY DEF Limiter!GiveBack
<1> QED
  BY <1>4, <1>5 DEF SlotsKept, MovesTo

\* A lookup stops waiting for one.
LEMMA Abandoning ==
  ASSUME QueuesTyped, SlotsKept, NEW c \in Caller, Limiter!Abandon(c),
         MovesTo(c, Places \ {"queued", "running"})
  PROVE  SlotsKept'
<1>1. CASE c \in holders
  BY <1>1, Leaving DEF Limiter!Abandon
<1>2. CASE c \notin holders
  <2>1. PICK i \in DOMAIN line :
          line[i] = c /\ line' = Limiter!RemoveAt(line, i) /\ UNCHANGED holders
    BY <1>2 DEF Limiter!Abandon
  <2>2. holders \in SUBSET Caller /\ line \in Seq(Caller) /\ Slots \in Nat
    BY SqlAssumption DEF QueuesTyped
  <2>3. i \in 1..Len(line)
    BY <2>2, LenProperties
  <2>4. InSlots' = InSlots \ {line[i]}
    BY <2>1 DEF InSlots, MovesTo
  <2>5. Accounted(holders, RemoveAt(line, i), InSlots \ {line[i]}, Slots)
    BY <2>2, <2>3, LeaverIsAccounted DEF SlotsKept
  <2>6. line' = RemoveAt(line, i)
    BY <2>1 DEF Limiter!RemoveAt, RemoveAt
  <2> QED
    BY <2>1, <2>4, <2>5, <2>6 DEF SlotsKept, MovesTo
<1> QED
  BY <1>1, <1>2

\* Every step accounts for every slot.
LEMMA SlotsStep == DiscoveryInv /\ RestTyped /\ SlotsKept /\ [Next]_vars => SlotsKept'
<1> SUFFICES ASSUME DiscoveryInv, QueuesTyped, SlotsKept, [Next]_vars PROVE SlotsKept'
  BY DEF RestTyped
<1> DEFINE Out == Places \ {"queued", "running"}
<1>t. pc \in [Caller -> Places]
  BY DEF DiscoveryInv, Typed
<1>m. \A c \in Caller : \A p \in Places :
        pc' = [pc EXCEPT ![c] = p] => MovesTo(c, {p})
  BY <1>t DEF MovesTo
<1>e. \A c \in Caller : \A outcome : End(c, outcome) => MovesTo(c, Out)
  BY <1>t DEF End, MovesTo, Places
<1>p. \A c \in Caller : \A g : Proceed(c, g) => MovesTo(c, Out)
  BY <1>t, <1>e DEF Proceed, Ask, MovesTo, Places
<1>1. ASSUME NEW c \in Caller,
             \/ CallBlank(c) \/ \E g \in {"connect", "lookup"} : Call(c, g)
             \/ Turn(c) \/ Forget(c) \/ WaitCancelled(c) \/ Return(c)
      PROVE  SlotsKept'
  <2>1. UNCHANGED limiter /\ pc[c] \notin {"queued", "running"}
    BY <1>1
    DEF CallBlank, Call, Turn, Rechecked, Discover, StartDiscovery, HasTurn, Forget,
        WaitCancelled, Return
  <2>2. MovesTo(c, Out)
    <3>1. CASE \E g \in {"connect", "lookup"} : Call(c, g)
      BY <1>t, <1>p, <3>1 DEF Call, Acquire, MovesTo, Places
    <3>2. CASE Turn(c)
      BY <1>t, <1>p, <3>2 DEF Turn, Rechecked, Discover, StartDiscovery, Ask, MovesTo, Places
    <3>3. CASE CallBlank(c) \/ Forget(c) \/ WaitCancelled(c)
      BY <1>e, <3>3 DEF CallBlank, Forget, WaitCancelled
    <3>4. CASE Return(c)
      BY <1>t, <3>4 DEF Return, MovesTo, Places
    <3> QED
      BY <1>1, <3>1, <3>2, <3>3, <3>4
  <2> QED
    BY <2>1, <2>2, MovingOutside
<1>2. ASSUME NEW c \in Caller, AskForSlot(c) PROVE SlotsKept'
  <2>1. pc[c] = "asking" /\ Limiter!TakeSlot(c) /\ pc' = [pc EXCEPT ![c] = "queued"]
    BY <1>2 DEF AskForSlot
  <2>2. MovesTo(c, {"queued"})
    BY <1>t, <2>1 DEF MovesTo
  <2> QED
    BY <2>1, <2>2, Joining
<1>3. ASSUME NEW c \in Caller, NEW t \in Thread, StartThread(c, t) PROVE SlotsKept'
  <2>1. /\ pc[c] = "queued" /\ c \in holders /\ UNCHANGED limiter
        /\ pc' = [pc EXCEPT ![c] = "running"]
    BY <1>3 DEF StartThread
  <2>2. InSlots' = InSlots
    BY <1>t, <2>1 DEF InSlots
  <2> QED
    BY <1>t, <2>1, <2>2 DEF SlotsKept, limiter
\* The loop hears of a thread, and the one it served holds a slot.
<1>4. ASSUME NEW t \in Thread, NEW c \in Caller,
             Discovered(t, c) \/ Undiscovered(t, c) \/ Fetched(t, c) \/ NotFetched(t, c)
      PROVE  SlotsKept'
  <2>1. worker[t].caller = c /\ Limiter!GiveBack(c)
    BY <1>4 DEF Discovered, Plans, Undiscovered, Fetched, NotFetched, Hears
  <2>2. c \in holders
    BY <2>1, SqlAssumption DEF DiscoveryInv, ThreadsServe, SlotsKept
  <2>3. MovesTo(c, Out)
    <3>1. CASE Fetched(t, c)
      BY <1>t, <1>e, <3>1 DEF Fetched, MovesTo, Places
    <3>2. CASE ~Fetched(t, c)
      BY <1>4, <1>e, <1>p, <3>2 DEF Discovered, Plans, Undiscovered, NotFetched
    <3> QED
      BY <3>1, <3>2
  <2> QED
    BY <2>1, <2>2, <2>3, Leaving
<1>5. ASSUME NEW c \in Caller, SlotCancelled(c) PROVE SlotsKept'
  <2>1. MovesTo(c, Out)
    BY <1>5, <1>e DEF SlotCancelled
  <2>2. CASE pc[c] = "asking" /\ UNCHANGED limiter
    BY <2>1, <2>2, MovingOutside
  <2>3. CASE pc[c] = "queued" /\ Limiter!Abandon(c)
    BY <2>1, <2>3, Abandoning
  <2> QED
    BY <1>5, <2>2, <2>3 DEF SlotCancelled
<1>6. ASSUME NEW c \in Caller, RunCancelled(c) PROVE SlotsKept'
  <2>1. pc[c] = "running" /\ Limiter!GiveBack(c) /\ End(c, "cancelled")
    BY <1>6 DEF RunCancelled, Abandons
  <2>2. c \in holders /\ MovesTo(c, Out)
    BY <1>e, <2>1 DEF SlotsKept
  <2> QED
    BY <2>1, <2>2, Leaving
<1>7. ASSUME \/ \E t \in Thread : ThreadStep(t) \/ Unheard(t)
             \/ Migrate \/ UNCHANGED vars
      PROVE  SlotsKept'
  <2>1. UNCHANGED <<limiter, pc>>
    BY <1>7 DEF ThreadStep, Inspect, Query, QueryRaises, Selects, QueryFails, Unheard,
           Migrate, vars, request
  <2>2. InSlots' = InSlots
    BY <2>1 DEF InSlots
  <2> QED
    BY <2>1, <2>2 DEF SlotsKept, limiter
<1> QED
  BY <1>1, <1>2, <1>3, <1>4, <1>5, <1>6, <1>7 DEF Next, Heard

(* However a lookup leaves, with its thread or without, its slot is given back
   once: none is held for nothing, never more than Slots are out, and nobody
   waits beside a free one. *)
THEOREM SlotsAreReturned == Spec => []NoSlotLeak
<1>1. SlotsKept => NoSlotLeak
  <2> SUFFICES ASSUME SlotsKept PROVE NoSlotLeak
    OBVIOUS
  <2> QED
    BY SameCount DEF SlotsKept, Accounted, InSlots, NoSlotLeak, Limiter!SlotsAreUsed
<1>2. DiscoveryInv => Typed
  BY DEF DiscoveryInv
<1> QED
  BY <1>1, <1>2, DiscoveryInit, DiscoveryStep, RestInit, RestStep, SlotsInit, SlotsStep, PTL
     DEF Spec
=============================================================================
