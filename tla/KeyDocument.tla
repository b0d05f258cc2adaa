---------------------------- MODULE KeyDocument ----------------------------
(***************************************************************************)
(* What JwksClient (_internal/jwks.py) makes of the key set's response:    *)
(* the keys a verifier may check signatures with, or a document refused as *)
(* a whole. A defect of the document refuses it; a key that is not for     *)
(* verifying is dropped on its own.                                        *)
(***************************************************************************)
EXTENDS Integers, Sequences, SequencesExt

CONSTANT MaxKeys   \* the cap on a document's keys

Rsa        == {"PS256", "RS256"}
Loaders    == {"EdDSA", "ES256", "ES512"} \cup Rsa
MinRsaBits == 2048

IsKeyDocument(response) ==
  /\ response.status = 200 /\ response.media = "json"
  /\ response.body = "keys"
  /\ Len(response.entries) <= MaxKeys

\* A kid and an algorithm, without which the document is refused.
IsEntry(e) == e.kind = "object" /\ e.kid # "blank" /\ e.alg # "absent"

ForVerifying(e) ==
  /\ e.use \in {"absent", "sig"}
  /\ e.ops = "absent" \/ (e.ops = "list" /\ e.verify)

\* An entry for verifying with an algorithm the verifier accepts; one that makes a key.
IsCandidate(e, algorithms) == e.alg \in Loaders \cap algorithms /\ ForVerifying(e)

IsSound(e, algorithms) ==
  /\ IsCandidate(e, algorithms) /\ e.loads
  /\ e.alg \in Rsa => e.bits >= MinRsaBits

\* A kid is the first sound entry's: those after it are not looked at.
IsTaken(entries, i, algorithms) ==
  \E j \in 1 .. i - 1 : entries[j].kid = entries[i].kid /\ IsSound(entries[j], algorithms)

\* The entries are read in turn, and the first with a defect refuses the document.
Spoils(entries, i, algorithms) ==
  \/ ~IsEntry(entries[i])
  \/ /\ IsCandidate(entries[i], algorithms) /\ ~IsTaken(entries, i, algorithms)
     /\ ~entries[i].loads

IsRefused(response, algorithms) ==
  \/ ~IsKeyDocument(response)
  \/ \E i \in DOMAIN response.entries : Spoils(response.entries, i, algorithms)

\* The keys by kid, of a document that is not refused.
Kept(entries, algorithms) ==
  {i \in DOMAIN entries :
     IsSound(entries[i], algorithms) /\ ~IsTaken(entries, i, algorithms)}

Collected(entries, algorithms) ==
  LET keys == Kept(entries, algorithms) IN
  [kid \in {entries[i].kid : i \in keys} |->
     LET e == entries[CHOOSE i \in keys : entries[i].kid = kid] IN
     [alg |-> e.alg, material |-> e.material]]
=============================================================================
