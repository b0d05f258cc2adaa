------------------------------ MODULE TaskLock ------------------------------
(***************************************************************************)
(* anyio.Lock as this library uses it: one holder, the others first come,  *)
(* first served. Whoever leaves hands the lock to the task that has waited *)
(* longest; that task runs some time later, and until then it may still be *)
(* cancelled, in which case it passes the lock on.                         *)
(***************************************************************************)
EXTENDS Integers, Sequences, SequencesExt

CONSTANTS Caller, \* the tasks
          NoOne   \* no task holds the lock

VARIABLES owner,  \* the task that holds it, running or not
          waiters \* the others, in order of arrival

lock == <<owner, waiters>>

LockIsFree == owner = NoOne /\ waiters = <<>>

TakeLock(c) == owner' = c /\ UNCHANGED waiters

JoinLine(c) == waiters' = Append(waiters, c) /\ UNCHANGED owner

Release ==
  IF waiters = <<>>
  THEN owner' = NoOne /\ UNCHANGED waiters
  ELSE owner' = Head(waiters) /\ waiters' = Tail(waiters)

LeaveLine(c) ==
  \E i \in DOMAIN waiters :
    /\ waiters[i] = c
    /\ waiters' = RemoveAt(waiters, i)
    /\ UNCHANGED owner

\* A waiter is cancelled, in line or with the lock already handed to it.
Withdraw(c) == IF owner = c THEN Release ELSE LeaveLine(c)
=============================================================================
