---------------------------- MODULE TransportRead ----------------------------
(***************************************************************************)
(* One exchange of the HTTP transports (_internal/httpx_transports.py):    *)
(* the response is refused if it is encoded, its body is read chunk by     *)
(* chunk and cut one byte past the cap, which cancels the read; the        *)
(* deadline may fire, or the connection fail, until the response is        *)
(* closed. Bytes are counted: only the end of a body is ever dropped.      *)
(***************************************************************************)
EXTENDS Integers

CONSTANTS
  Cap,       \* max_bytes
  MaxChunk,  \* the largest chunk that arrives (bound)
  MaxWire    \* the longest body (bound)

ASSUME TransportAssumption == /\ Cap \in Nat \ {0}
                              /\ MaxChunk \in Nat \ {0} /\ MaxWire \in Nat

VARIABLES
  link,      \* where the exchange is
  sent,      \* the bytes of the body that arrived
  kept,      \* those in the buffer
  aborting,  \* whether the read was cancelled
  verdict    \* what the caller is to be given

transport == <<link, sent, kept, aborting, verdict>>

Links    == {"idle", "opening", "reading", "closing", "done"}
Failures == {"timeout", "failure"}
Verdicts == {"none", "body", "tooLarge", "encoding"} \cup Failures

TransportInit ==
  /\ link = "idle" /\ sent = 0 /\ kept = 0
  /\ aborting = FALSE /\ verdict = "none"

Open ==
  /\ link = "idle" /\ link' = "opening"
  /\ UNCHANGED <<sent, kept, aborting, verdict>>

\* An encoding was not asked for: the body is not read at all.
RejectContentEncoding ==
  /\ link = "opening"
  /\ link' = "closing" /\ verdict' = "encoding"
  /\ UNCHANGED <<sent, kept, aborting>>

AcceptHeaders ==
  /\ link = "opening" /\ link' = "reading"
  /\ UNCHANGED <<sent, kept, aborting, verdict>>

\* What is appended of a chunk: at most what is left of the cap, and one byte.
MutantSliced(length) == IF length > Cap - kept THEN Cap - kept ELSE length
Sliced(length) == IF length > Cap - kept + 1 THEN Cap - kept + 1 ELSE length

\* A chunk that is ready arrives even though the read was cancelled.
Receive ==
  /\ link = "reading"
  /\ \E length \in 1 .. MaxChunk :
       /\ sent + length <= MaxWire
       /\ sent' = sent + length
       /\ kept' = kept + Sliced(length)
  /\ aborting' = (aborting \/ kept' > Cap)
  /\ UNCHANGED <<link, verdict>>

\* The body ends, or the cancellation reaches a wait.
EndOfBody ==
  /\ link = "reading"
  /\ link' = "closing"
  /\ verdict' = IF aborting THEN "tooLarge" ELSE "body"
  /\ UNCHANGED <<sent, kept, aborting>>

Close ==
  /\ link = "closing" /\ link' = "done"
  /\ UNCHANGED <<sent, kept, aborting, verdict>>

\* The deadline, a timeout of the client's own or any other failure: it stands in for
\* whatever the exchange had come to.
Fail ==
  /\ link \in {"opening", "reading", "closing"}
  /\ link' = "done"
  /\ \E failure \in Failures : verdict' = failure
  /\ UNCHANGED <<sent, kept, aborting>>

Exchange == RejectContentEncoding \/ AcceptHeaders \/ Receive \/ EndOfBody \/ Close \/ Fail

TransportSpec == TransportInit /\ [][Open \/ Exchange]_transport

------------------------------------------------------------------------------
\* A body that is delivered is all that was sent and within the cap, whatever its
\* chunks; one that is refused as too large is; and the buffer outgrows the cap by one
\* byte at most, whenever the cancellation lands (httpx_transports.py, _capped).
BodyIsWhole ==
  /\ kept <= Cap + 1
  /\ verdict = "body" => kept = sent /\ sent <= Cap
  /\ verdict = "tooLarge" => sent > Cap
=============================================================================
