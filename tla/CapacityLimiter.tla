-------------------------- MODULE CapacityLimiter ---------------------------
(***************************************************************************)
(* anyio.CapacityLimiter by its documented contract: never more than Slots *)
(* borrowers, the others first come, first served. A slot that is given    *)
(* back goes to the task that has waited longest, which runs some time     *)
(* later and may still be cancelled before it does.                        *)
(***************************************************************************)
EXTENDS Integers, Sequences, SequencesExt, FiniteSets

CONSTANTS Caller, \* the tasks
          Slots   \* how many may hold a slot at once

VARIABLES holders, \* the tasks that hold a slot
          line     \* the tasks that wait for one, in order of arrival

limiter == <<holders, line>>

SlotIsFree == line = <<>> /\ Cardinality(holders) < Slots

TakeSlot(c) ==
  IF SlotIsFree
  THEN holders' = holders \cup {c} /\ UNCHANGED line
  ELSE line' = Append(line, c) /\ UNCHANGED holders

GiveBack(c) ==
  IF line = <<>>
  THEN holders' = holders \ {c} /\ UNCHANGED line
  ELSE holders' = (holders \ {c}) \cup {Head(line)} /\ line' = Tail(line)

\* A task stops waiting, or is cancelled just after it was given a slot.
Abandon(c) ==
  IF c \in holders
  THEN GiveBack(c)
  ELSE \E i \in DOMAIN line :
         /\ line[i] = c
         /\ line' = RemoveAt(line, i)
         /\ UNCHANGED holders

\* No slot is held for nothing, and no one waits beside a free one.
SlotsAreUsed(users) ==
  /\ holders \subseteq users
  /\ Cardinality(holders) <= Slots
  /\ line # <<>> => Cardinality(holders) = Slots
=============================================================================
