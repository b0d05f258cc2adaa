---------------------------- MODULE BackoffLatch ----------------------------
(***************************************************************************)
(* _internal/remote_backoff.py and the Retry-After rule it reads: a latch  *)
(* that a 429 trips and that time alone clears.                            *)
(***************************************************************************)
EXTENDS Integers, Sequences

CONSTANTS MinBackoff, MaxBackoff, DefaultBackoff, \* seconds
          Never                                   \* no latch is set

VARIABLES now, blockedUntil

Latched == blockedUntil # Never /\ now < blockedUntil

\* latched(): a latch whose time has come is cleared on sight.
AfterAsking == IF Latched THEN blockedUntil ELSE Never

MutantClampBelow(seconds) ==
  IF seconds > MaxBackoff THEN MaxBackoff ELSE seconds

MutantClampAbove(seconds) ==
  IF seconds < MinBackoff THEN MinBackoff ELSE seconds

Clamped(seconds) ==
  IF seconds < MinBackoff THEN MinBackoff
  ELSE IF seconds > MaxBackoff THEN MaxBackoff
  ELSE seconds

\* values are the whole numbers found in retry-after, then x-retry-after.
Backoff(values) ==
  IF values = <<>> THEN DefaultBackoff ELSE Clamped(Head(values))

MutantExtend(values) == now + Backoff(values)

\* observe() of a 429: one that arrives while latched changes nothing.
AfterObserving(values) ==
  IF Latched THEN blockedUntil ELSE now + Backoff(values)
=============================================================================
