---------------------------- MODULE NegativeCache ---------------------------
(***************************************************************************)
(* _internal/negative_cache.py: the cookies upstream answered 200 and null *)
(* about. A dict in insertion order, bounded, each entry with the time it  *)
(* was last stamped. What the methods leave in it, as a function of what   *)
(* was in it: none of them awaits.                                         *)
(***************************************************************************)
EXTENDS Integers, Sequences, SequencesExt

CONSTANTS Ttl,          \* seconds an entry stays live; 0 disables the cache
          MaxRemembered \* the most entries held at once

VARIABLES now, entries

Has(key) == \E i \in DOMAIN entries : entries[i].key = key

Position(key) == CHOOSE i \in DOMAIN entries : entries[i].key = key

Holds(key) == Ttl > 0 /\ Has(key) /\ now - entries[Position(key)].at < Ttl

\* holds(): an expired entry is deleted on sight.
AfterAsking(key) ==
  IF Ttl > 0 /\ Has(key) /\ ~Holds(key)
  THEN RemoveAt(entries, Position(key))
  ELSE entries

MutantEvictLate ==
  IF Len(entries) <= MaxRemembered THEN entries
  ELSE SubSeq(entries, Len(entries) - MaxRemembered + 2, Len(entries))

\* The loop that pops from the front until one more entry fits.
Evicted ==
  IF Len(entries) < MaxRemembered THEN entries
  ELSE SubSeq(entries, Len(entries) - MaxRemembered + 2, Len(entries))

\* remember(): a key that is already there is stamped again in its place.
AfterRemembering(key) ==
  IF Ttl = 0 THEN entries
  ELSE IF Has(key) THEN [entries EXCEPT ![Position(key)].at = now]
  ELSE Append(Evicted, [key |-> key, at |-> now])

Bounded ==
  /\ Len(entries) <= MaxRemembered
  /\ \A i, j \in DOMAIN entries : entries[i].key = entries[j].key => i = j
=============================================================================
