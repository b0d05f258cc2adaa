-------------------------- MODULE ThrottledAttempt --------------------------
(***************************************************************************)
(* What the library promises an auth service about work it starts on       *)
(* behalf of strangers: at most one attempt runs at a time, and an attempt *)
(* may only start a full Interval after the start of the last one that got *)
(* an answer, good or bad. An attempt that was cancelled got none, so it   *)
(* leaves the window where it was.                                         *)
(*                                                                         *)
(* JwksClient (the key-set fetch) and the contract probe of the remote     *)
(* verifier are both meant to be this.                                     *)
(***************************************************************************)
EXTENDS Integers

CONSTANTS Interval, \* seconds between two completed attempts
          Never     \* the time of something that has not happened

VARIABLES now,       \* the clock
          running,   \* TRUE while an attempt is in flight
          startedAt, \* when that attempt started, Never when none is running
          spentAt    \* the start of the last attempt that got an answer

vars == <<now, running, startedAt, spentAt>>

WindowOpen == spentAt = Never \/ now - spentAt >= Interval

Init == /\ now \in Nat
        /\ running = FALSE
        /\ startedAt = Never
        /\ spentAt = Never

Tick == now' > now /\ UNCHANGED <<running, startedAt, spentAt>>

Begin == /\ ~running
         /\ WindowOpen
         /\ running' = TRUE
         /\ startedAt' = now
         /\ UNCHANGED <<now, spentAt>>

\* An answer arrived, whatever it said: the window is spent.
Complete == /\ running
            /\ running' = FALSE
            /\ startedAt' = Never
            /\ spentAt' = startedAt
            /\ UNCHANGED now

\* The attempt was cancelled: the window is as it was before it.
Abort == /\ running
         /\ running' = FALSE
         /\ startedAt' = Never
         /\ UNCHANGED <<now, spentAt>>

Next == Tick \/ Begin \/ Complete \/ Abort

Spec == Init /\ [][Next]_vars
=============================================================================
