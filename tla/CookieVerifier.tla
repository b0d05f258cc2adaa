--------------------------- MODULE CookieVerifier ---------------------------
(***************************************************************************)
(* Mode A (_internal/cookie_verifier.py): concurrent requests that present *)
(* the cookie of one session, looked up in a store the auth service writes *)
(* meanwhile: it extends the session, signs it out, bans its user for good *)
(* or for a while, lifts the ban, deletes the user.                        *)
(*                                                                         *)
(* A joined store answers a session with its user; a split one answers the *)
(* user to a second lookup. A lookup reads at one moment, or fails, and    *)
(* what it read is judged when the request runs again.                     *)
(***************************************************************************)
EXTENDS Integers, FiniteSets

CONSTANTS
  Caller,   \* the requests
  Kind,     \* the kinds of failure a store may raise untranslated
  MaxKinds, \* MAX_REPORTED_KINDS
  Expiry,   \* the ends the session may be given
  BanEnds,  \* when a ban for a while lapses
  Horizon   \* bound: the last second the clock reaches

ASSUME CookieAssumption ==
  /\ IsFiniteSet(Kind)
  /\ Kind \cap {"none", "unavailable", "misconfigured", "more"} = {}
  /\ MaxKinds \in Nat \ {0}
  /\ Expiry \subseteq Nat
  /\ BanEnds \in Nat
  /\ Horizon \in Nat

VARIABLES
  sessionReported, sessionOverflowed,     \* _session_outage
  userReported, userOverflowed,           \* _user_outage
  pc, answer,                             \* each request
  found,                                  \* the session it looked up
  user,                                   \* the user it looked up or was given
  failure,                                \* how its lookup ended, if not with data
  now, expiresAt, status,                 \* the clock and the two rows
  joined,                                 \* the store's flavour
  arrivedAt, sawExpiry, sawStatus,        \* history: the rows since a request arrived
  told                                    \* history: lines since a lookup completed

SessionOutage == INSTANCE OutageLatch
                   WITH reported <- sessionReported, overflowed <- sessionOverflowed
UserOutage    == INSTANCE OutageLatch
                   WITH reported <- userReported, overflowed <- userOverflowed

sessionLatch == <<sessionReported, sessionOverflowed>>
userLatch    == <<userReported, userOverflowed>>
latches      == <<sessionLatch, userLatch>>
request      == <<pc, answer, found, user, failure>>
world        == <<now, expiresAt, status, joined>>
saw          == <<arrivedAt, sawExpiry, sawStatus>>
vars         == <<latches, request, world, saw, told>>

Absent   == -1 \* no such session, or no such user, in the store
Statuses == {"active", "banned", "suspended", "deleted"}
Places   == {"idle", "session", "sessionRead", "user", "userRead", "done"}
Answers  == {"none", "accepted", "invalid", "csrf", "revoked", "expired", "misfit",
             "unavailable", "misconfigured", "cancelled"}
Own      == {"unavailable", "misconfigured"} \* a store's own errors, raised as they are
Failures == {"none"} \cup Own \cup Kind
Lookups  == {"session", "user"}
Line     == Kind \cup {"more"} \* a failure, or that there are more kinds of it

TypeOK ==
  /\ sessionReported \in SUBSET Kind /\ sessionOverflowed \in BOOLEAN
  /\ userReported \in SUBSET Kind /\ userOverflowed \in BOOLEAN
  /\ pc \in [Caller -> Places]
  /\ answer \in [Caller -> Answers]
  /\ found \in [Caller -> Expiry \cup {Absent}]
  /\ user \in [Caller -> Statuses]
  /\ failure \in [Caller -> Failures]
  /\ now \in Nat
  /\ expiresAt \in Expiry \cup {Absent}
  /\ status \in Statuses
  /\ joined \in BOOLEAN
  /\ arrivedAt \in [Caller -> Nat]
  /\ sawExpiry \in [Caller -> SUBSET (Expiry \cup {Absent})]
  /\ sawStatus \in [Caller -> SUBSET Statuses]
  /\ told \in [Lookups -> SUBSET Line]

Init ==
  /\ sessionReported = {} /\ sessionOverflowed = FALSE
  /\ userReported = {} /\ userOverflowed = FALSE
  /\ pc = [c \in Caller |-> "idle"]
  /\ answer = [c \in Caller |-> "none"]
  /\ found = [c \in Caller |-> Absent]
  /\ user = [c \in Caller |-> "deleted"]
  /\ failure = [c \in Caller |-> "none"]
  /\ now = 0
  /\ expiresAt \in Expiry
  /\ status = "active"
  /\ joined \in BOOLEAN
  /\ arrivedAt = [c \in Caller |-> 0]
  /\ sawExpiry = [c \in Caller |-> {}]
  /\ sawStatus = [c \in Caller |-> {}]
  /\ told = [l \in Lookups |-> {}]
-----------------------------------------------------------------------------
(* The requests *)

\* banned is None or False, or the ban has lapsed.
MayPass(s) == s = "active" \/ (s = "suspended" /\ BanEnds <= now)

\* What was looked up is dropped with the frame.
End(c, outcome) ==
  /\ pc' = [pc EXCEPT ![c] = "done"]
  /\ answer' = [answer EXCEPT ![c] = outcome]
  /\ found' = [found EXCEPT ![c] = Absent]
  /\ user' = [user EXCEPT ![c] = "deleted"]
  /\ failure' = [failure EXCEPT ![c] = "none"]
  /\ arrivedAt' = [arrivedAt EXCEPT ![c] = 0]
  /\ sawExpiry' = [sawExpiry EXCEPT ![c] = {}]
  /\ sawStatus' = [sawStatus EXCEPT ![c] = {}]

Goes(c, place) == pc' = [pc EXCEPT ![c] = place] /\ UNCHANGED answer

\* The cookie's shape, the policy, and last the signature: no lookup is made.
RefusedUnread(c) ==
  /\ pc[c] = "idle"
  /\ \E outcome \in {"invalid", "csrf"} : End(c, outcome)
  /\ UNCHANGED <<latches, world, told>>

LookUp(c) ==
  /\ pc[c] = "idle"
  /\ Goes(c, "session")
  /\ arrivedAt' = [arrivedAt EXCEPT ![c] = now]
  /\ sawExpiry' = [sawExpiry EXCEPT ![c] = {expiresAt}]
  /\ sawStatus' = [sawStatus EXCEPT ![c] = {status}]
  /\ UNCHANGED <<latches, found, user, failure, world, told>>

Reads(c, expiry) ==
  /\ pc[c] = "session"
  /\ found' = [found EXCEPT ![c] = expiry]
  /\ user' = IF joined THEN [user EXCEPT ![c] = status] ELSE user
  /\ Goes(c, "sessionRead")
  /\ UNCHANGED <<latches, failure, world, saw, told>>

MutantReadExtends(c) == Reads(c, expiresAt + 1)

\* The store reads: a joined one has no session to answer without its user.
ReadSession(c) == Reads(c, IF joined /\ status = "deleted" THEN Absent ELSE expiresAt)

ReadUser(c) ==
  /\ pc[c] = "user"
  /\ user' = [user EXCEPT ![c] = status]
  /\ Goes(c, "userRead")
  /\ UNCHANGED <<latches, found, failure, world, saw, told>>

\* Or it fails: with an error of the library's own, or with its client's exception.
LookupFails(c, how) ==
  /\ pc[c] \in {"session", "user"}
  /\ failure' = [failure EXCEPT ![c] = how]
  /\ Goes(c, IF pc[c] = "session" THEN "sessionRead" ELSE "userRead")
  /\ UNCHANGED <<latches, found, user, world, saw, told>>

\* Parsing the user into the application's model may fail.
Judge(c, s) ==
  IF MayPass(s) THEN \E outcome \in {"accepted", "misfit"} : End(c, outcome)
  ELSE End(c, "revoked")

Completes(c, place) == pc[c] = place /\ failure[c] = "none"

\* What was logged of a lookup is news again once that lookup completes.
ToldNothing(lookup) == told' = [told EXCEPT ![lookup] = {}]

MutantOneLatch ==
  /\ SessionOutage!Clear
  /\ UserOutage!Clear
  /\ ToldNothing("session")

RearmSession == SessionOutage!Clear /\ ToldNothing("session") /\ UNCHANGED userLatch
RearmUser    == UserOutage!Clear /\ ToldNothing("user") /\ UNCHANGED sessionLatch

NoSession(c) ==
  /\ Completes(c, "sessionRead")
  /\ found[c] = Absent
  /\ RearmSession
  /\ End(c, "revoked")
  /\ UNCHANGED world

MutantExpired(c) == found[c] < now

\* _check_expiry
IsExpired(c) == found[c] <= now

Expired(c) ==
  /\ Completes(c, "sessionRead")
  /\ found[c] # Absent
  /\ IsExpired(c)
  /\ RearmSession
  /\ End(c, "expired")
  /\ UNCHANGED world

HasSession(c) ==
  /\ Completes(c, "sessionRead")
  /\ found[c] # Absent
  /\ ~IsExpired(c)
  /\ RearmSession
  /\ UNCHANGED world

JudgeRecord(c) == joined /\ HasSession(c) /\ Judge(c, user[c])

MutantNoUserIsRefusal(c) == ~joined /\ HasSession(c) /\ End(c, "revoked")

AskUser(c) ==
  /\ ~joined
  /\ HasSession(c)
  /\ Goes(c, "user")
  /\ UNCHANGED <<found, user, failure, saw>>

\* No user, a banned one, or one that may pass.
JudgeUser(c) ==
  /\ Completes(c, "userRead")
  /\ RearmUser
  /\ IF user[c] = "deleted" THEN End(c, "revoked") ELSE Judge(c, user[c])
  /\ UNCHANGED world

\* An error of the library's own is the verifier's, and the store has logged it.
FailedTranslated(c) ==
  /\ pc[c] \in {"sessionRead", "userRead"}
  /\ failure[c] \in Own
  /\ End(c, failure[c])
  /\ UNCHANGED <<latches, world, told>>

\* Anything else is reported, and becomes the same refusal.
NewLines(reported, overflowed) ==
  (reported' \ reported)
    \cup (IF overflowed' /\ ~overflowed THEN {"more"} ELSE {})

SessionLines == NewLines(sessionReported, sessionOverflowed)
UserLines    == NewLines(userReported, userOverflowed)

Tells(lookup, lines) == told' = [told EXCEPT ![lookup] = told[lookup] \cup lines]

SessionFailed(c, kind) ==
  /\ pc[c] = "sessionRead"
  /\ failure[c] = kind
  /\ SessionOutage!Admit(kind)
  /\ Tells("session", SessionLines)
  /\ End(c, "unavailable")
  /\ UNCHANGED <<userLatch, world>>

UserFailed(c, kind) ==
  /\ pc[c] = "userRead"
  /\ failure[c] = kind
  /\ UserOutage!Admit(kind)
  /\ Tells("user", UserLines)
  /\ End(c, "unavailable")
  /\ UNCHANGED <<sessionLatch, world>>

Cancelled(c) ==
  /\ pc[c] \in {"session", "sessionRead", "user", "userRead"}
  /\ End(c, "cancelled")
  /\ UNCHANGED <<latches, world, told>>

Return(c) ==
  /\ pc[c] = "done"
  /\ pc' = [pc EXCEPT ![c] = "idle"]
  /\ answer' = [answer EXCEPT ![c] = "none"]
  /\ UNCHANGED <<latches, found, user, failure, world, saw, told>>
-----------------------------------------------------------------------------
(* The auth service, and time *)

UnderWay == {c \in Caller : pc[c] \notin {"idle", "done"}}

\* The session is extended, or signed out, which is for good.
SessionChanges ==
  /\ expiresAt # Absent
  /\ expiresAt' \in {e \in Expiry : e > expiresAt} \cup {Absent}
  /\ sawExpiry' = [c \in Caller |->
                     IF c \in UnderWay THEN sawExpiry[c] \cup {expiresAt'} ELSE sawExpiry[c]]
  /\ UNCHANGED <<latches, request, now, status, joined, arrivedAt, sawStatus, told>>

UserChanges ==
  /\ status # "deleted"
  /\ status' \in Statuses \ {status}
  /\ sawStatus' = [c \in Caller |->
                     IF c \in UnderWay THEN sawStatus[c] \cup {status'} ELSE sawStatus[c]]
  /\ UNCHANGED <<latches, request, now, expiresAt, joined, arrivedAt, sawExpiry, told>>

Tick ==
  /\ now < Horizon
  /\ now' = now + 1
  /\ UNCHANGED <<latches, request, expiresAt, status, joined, saw, told>>

Next ==
  \/ \E c \in Caller :
       \/ RefusedUnread(c)
       \/ LookUp(c)
       \/ ReadSession(c)
       \/ ReadUser(c)
       \/ \E how \in Own \cup Kind : LookupFails(c, how)
       \/ NoSession(c)
       \/ Expired(c)
       \/ JudgeRecord(c)
       \/ AskUser(c)
       \/ JudgeUser(c)
       \/ FailedTranslated(c)
       \/ \E kind \in Kind : SessionFailed(c, kind) \/ UserFailed(c, kind)
       \/ Cancelled(c)
       \/ Return(c)
  \/ SessionChanges
  \/ UserChanges
  \/ Tick

Spec == Init /\ [][Next]_vars
-----------------------------------------------------------------------------
(* Properties *)

Answered(c, outcome) == pc[c] # "done" /\ pc'[c] = "done" /\ answer'[c] = outcome

\* Whom verify() accepts had, while the request ran, a session that had not
\* ended and a user whose ban, if any, has lapsed by now. A split store's user
\* is looked up after the expiry was checked, so only the arrival counts there.
AcceptedWasTrue ==
  [][\A c \in Caller : Answered(c, "accepted") =>
       /\ \E e \in sawExpiry[c] \ {Absent} : e > IF joined THEN now ELSE arrivedAt[c]
       /\ \E s \in sawStatus[c] : s # "deleted" /\ MayPass(s)]_vars

\* Whom it refuses gave cause while the request ran: no session or no user, a
\* ban that holds, or an end that has come (_resolved, _check_expiry, _check_ban).
RefusalWasTrue ==
  [][\A c \in Caller :
       /\ Answered(c, "revoked")
            => Absent \in sawExpiry[c] \/ \E s \in sawStatus[c] : ~MayPass(s)
       /\ Answered(c, "expired") => \E e \in sawExpiry[c] \ {Absent} : e <= now]_vars

\* A store that stays down is one line per kind, and one that there are more,
\* until a call of the same lookup returns again, whatever the other lookup
\* does meanwhile (_session_outage and _user_outage).
ToldOnce ==
  [][/\ SessionLines \cap told["session"] = {}
     /\ UserLines \cap told["user"] = {}]_vars
=============================================================================
