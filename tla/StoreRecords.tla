---------------------------- MODULE StoreRecords ----------------------------
(***************************************************************************)
(* What a stored session means: the readers of the Redis store's document  *)
(* (_internal/stores/redis_store.py, session_document.py), of the SQL      *)
(* stores' rows (sqlalchemy_core.py) and of get-session's answer           *)
(* (remote_response.py), and the checks of expiry and ban that follow.     *)
(*                                                                         *)
(* A document or a row is what its fields hold: a moment, nothing, or      *)
(* something unreadable; for a flag, also the 0 or 1 of a database.        *)
(***************************************************************************)
EXTENDS Integers, Sequences, CookieParsing

JsonFlags == {"true", "false"}
DbFlags   == JsonFlags \cup {"1", "0"}

\* as_flag(), as_db_flag(): nothing is guessed of any other value.
ReadsAs(flags, raw) == raw \in flags

IsTrue(raw) == raw \in {"true", "1"}

IsMoment(value) == value.kind = "moment"

\* The user half. A database's banExpires that cannot be read is none, so that the ban
\* is for good; a document's makes the whole record a miss.
IsDocumentUser(d) ==
  /\ d.id # "blank"
  /\ d.banned = "absent" \/ ReadsAs(JsonFlags, d.banned)
  /\ d.banExpires.kind # "unreadable"

IsRowUser(row) ==
  row.id # "blank" /\ (row.banned = "absent" \/ ReadsAs(DbFlags, row.banned))

\* The session half; the token is the caller's to compare.
CarriesSession(d) == IsMoment(d.expiresAt) /\ d.userId # "blank" /\ d.token # <<>>

IsDocument(d) == d.halves = "both" /\ CarriesSession(d) /\ IsDocumentUser(d)

\* The store's own check: a value that names another session than the key it was found
\* under is a miss, and so is a row a collation folded onto the token.
Names(stored, token) == stored = token

RedisFinds(value, token) ==
  /\ ~IsBlank(token)
  /\ value.kind = "object" /\ IsDocument(value.holds)
  /\ Names(value.holds.token, token)

SqlFinds(rows, token) ==
  /\ Len(rows) = 1
  /\ CarriesSession(rows[1]) /\ IsRowUser(rows[1])
  /\ Names(rows[1].token, token)

HasEnded(record, now) == record.expiresAt.at <= now

\* No ban state is no ban; a ban that does not say when it lifts does not.
IsBarred(record, now) ==
  IsTrue(record.banned) /\ ~(IsMoment(record.banExpires) /\ record.banExpires.at <= now)

------------------------------------------------------------------------------
\* get-session's answer: null is a verdict, and what a verified signature makes of it.
NullOutcome(verified) == IF verified THEN "SessionRevoked" ELSE "InvalidCredential"

FromResponse(response, verified) ==
  IF response.status # 200 \/ response.media # "json" THEN "AuthServiceUnavailable"
  ELSE IF response.body = "null" THEN NullOutcome(verified)
  ELSE IF response.body = "object" /\ IsDocument(response.holds) THEN "none"
  ELSE "AuthServiceUnavailable"
=============================================================================
