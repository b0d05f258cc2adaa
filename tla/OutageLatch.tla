----------------------------- MODULE OutageLatch -----------------------------
(***************************************************************************)
(* _internal/stores/outage.py: which kinds of failure were reported since  *)
(* the last lookup that completed. admit() is one step, under a thread     *)
(* lock; rearm() looks first without the lock, so it is two.               *)
(***************************************************************************)
EXTENDS Integers, FiniteSets

CONSTANT MaxKinds \* MAX_REPORTED_KINDS

VARIABLES reported,  \* the kinds reported
          overflowed \* the notice that there are more was given

latch == <<reported, overflowed>>

IsNews(kind) ==
  ~overflowed /\ kind \notin reported /\ Cardinality(reported) < MaxKinds

\* Every kind is reported once; past the cap there is one notice, then silence.
Admit(kind) ==
  IF overflowed \/ kind \in reported THEN UNCHANGED latch
  ELSE IF Cardinality(reported) >= MaxKinds
  THEN overflowed' = TRUE /\ UNCHANGED reported
  ELSE reported' = reported \cup {kind} /\ UNCHANGED overflowed

NothingToForget == reported = {}

MutantClearKinds == reported' = {} /\ UNCHANGED overflowed

Clear == reported' = {} /\ overflowed' = FALSE

\* What the unlocked look in rearm() rests on: a latch with nothing reported
\* is not silent, so leaving it alone cannot leave it silent for good.
CanSpeak == overflowed => Cardinality(reported) = MaxKinds
=============================================================================
