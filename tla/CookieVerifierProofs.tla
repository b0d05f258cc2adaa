------------------------ MODULE CookieVerifierProofs ------------------------
(***************************************************************************)
(* What holds of CookieVerifier for every set of requests and kinds of     *)
(* failure, and every expiry and ban.                                      *)
(***************************************************************************)
EXTENDS CookieVerifier, TLAPS

Typed ==
  /\ pc \in [Caller -> Places]
  /\ answer \in [Caller -> Answers]
  /\ found \in [Caller -> Expiry \cup {Absent}]
  /\ user \in [Caller -> Statuses]
  /\ failure \in [Caller -> Failures]
  /\ now \in Nat
  /\ expiresAt \in Expiry \cup {Absent}
  /\ status \in Statuses
  /\ joined \in BOOLEAN
  /\ arrivedAt \in [Caller -> Nat]
  /\ sawExpiry \in [Caller -> SUBSET (Expiry \cup {Absent})]
  /\ sawStatus \in [Caller -> SUBSET Statuses]

\* Of a request under way: it has seen both rows as they are now.
UpToDate(c) ==
  /\ arrivedAt[c] <= now
  /\ expiresAt \in sawExpiry[c]
  /\ status \in sawStatus[c]

\* Of a session that was read: it was in the store since the request arrived,
\* or there was none, or a joined store had no user to go with it.
SessionSeen(c) ==
  /\ found[c] \in sawExpiry[c] \/ (found[c] = Absent /\ "deleted" \in sawStatus[c])
  /\ joined /\ found[c] # Absent => user[c] \in sawStatus[c] /\ user[c] # "deleted"

\* Of a request that has gone on to the user: its session had not ended.
SessionHeld(c) ==
  /\ ~joined
  /\ \E e \in sawExpiry[c] \ {Absent} : e > arrivedAt[c]

RowsSeen ==
  \A c \in Caller :
    /\ pc[c] \in {"session", "sessionRead", "user", "userRead"} => UpToDate(c)
    /\ pc[c] = "sessionRead" /\ failure[c] = "none" => SessionSeen(c)
    /\ pc[c] \in {"user", "userRead"} => SessionHeld(c)
    /\ pc[c] = "userRead" /\ failure[c] = "none" => user[c] \in sawStatus[c]

VerdictInv == Typed /\ RowsSeen
-----------------------------------------------------------------------------
(* What a request looked up was in the store while it ran. *)

\* At the start no request has looked anything up.
LEMMA VerdictInit == Init => VerdictInv
BY CookieAssumption
DEF Init, VerdictInv, Typed, RowsSeen, Places, Answers, Statuses, Failures, Absent

(* A request that ends drops what it knew, and leaves the others alone.    *)
LEMMA EndStep ==
  ASSUME VerdictInv, NEW c \in Caller, NEW outcome \in Answers, End(c, outcome),
         UNCHANGED world
  PROVE  VerdictInv'
<1>1. Typed'
  BY DEF VerdictInv, Typed, End, world, Places, Statuses, Failures
<1>2. RowsSeen'
  BY DEF VerdictInv, Typed, RowsSeen, UpToDate, SessionSeen, SessionHeld, End, world
<1> QED
  BY <1>1, <1>2 DEF VerdictInv

\* A judgement of the user ends the request, one way or another.
LEMMA JudgeEnds ==
  ASSUME NEW c, NEW s, Judge(c, s)
  PROVE  \E outcome \in Answers : End(c, outcome)
BY DEF Judge, Answers

\* What a request holds stays among the rows seen, whoever steps.
LEMMA VerdictStep == VerdictInv /\ [Next]_vars => VerdictInv'
<1> SUFFICES ASSUME VerdictInv, [Next]_vars PROVE VerdictInv'
  OBVIOUS
<1> USE CookieAssumption DEF VerdictInv
<1>1. ASSUME NEW c \in Caller,
             \/ RefusedUnread(c) \/ NoSession(c) \/ Expired(c) \/ JudgeRecord(c)
             \/ JudgeUser(c) \/ FailedTranslated(c) \/ Cancelled(c)
             \/ \E kind \in Kind : SessionFailed(c, kind) \/ UserFailed(c, kind)
      PROVE  VerdictInv'
  <2>1. UNCHANGED world
    BY <1>1
    DEF RefusedUnread, NoSession, Expired, JudgeRecord, HasSession, JudgeUser,
        FailedTranslated, Cancelled, SessionFailed, UserFailed
  <2>2. \E outcome \in Answers : End(c, outcome)
    BY <1>1, JudgeEnds
    DEF RefusedUnread, NoSession, Expired, JudgeRecord, JudgeUser,
        FailedTranslated, Own, Cancelled, SessionFailed, UserFailed, Answers
  <2> QED
    BY <2>1, <2>2, EndStep
<1>2. ASSUME NEW c \in Caller, LookUp(c) PROVE VerdictInv'
  <2>1. Typed'
    BY <1>2 DEF LookUp, Goes, Typed, world, Places
  <2>2. RowsSeen'
    BY <1>2
    DEF LookUp, Goes, Typed, RowsSeen, UpToDate, SessionSeen, SessionHeld, world
  <2> QED
    BY <2>1, <2>2
<1>3. ASSUME NEW c \in Caller, ReadSession(c) PROVE VerdictInv'
  <2> DEFINE e == IF joined /\ status = "deleted" THEN Absent ELSE expiresAt
  <2>1. /\ pc[c] = "session"
        /\ found' = [found EXCEPT ![c] = e]
        /\ user' = IF joined THEN [user EXCEPT ![c] = status] ELSE user
        /\ pc' = [pc EXCEPT ![c] = "sessionRead"]
        /\ UNCHANGED <<answer, failure, world, saw>>
    BY <1>3 DEF ReadSession, Reads, Goes
  <2>2. e \in Expiry \cup {Absent}
    BY DEF Typed
  <2>3. Typed'
    BY <2>1, <2>2 DEF Typed, world, saw, Places
  <2>4. SessionSeen(c)'
    BY <2>1 DEF Typed, RowsSeen, UpToDate, SessionSeen, world, saw
  <2>5. RowsSeen'
    BY <2>1, <2>4 DEF Typed, RowsSeen, UpToDate, SessionSeen, SessionHeld, world, saw
  <2> QED
    BY <2>3, <2>5
<1>4. ASSUME NEW c \in Caller, ReadUser(c) PROVE VerdictInv'
  <2>1. Typed'
    BY <1>4 DEF ReadUser, Goes, Typed, world, saw, Places
  <2>2. RowsSeen'
    BY <1>4
    DEF ReadUser, Goes, Typed, RowsSeen, UpToDate, SessionSeen, SessionHeld, world, saw
  <2> QED
    BY <2>1, <2>2
<1>5. ASSUME NEW c \in Caller, NEW how \in Own \cup Kind, LookupFails(c, how)
      PROVE  VerdictInv'
  <2>1. how # "none" /\ how \in Failures
    BY CookieAssumption DEF Own, Failures
  <2>2. Typed'
    BY <1>5, <2>1 DEF LookupFails, Goes, Typed, world, saw, Places
  <2>3. RowsSeen'
    BY <1>5, <2>1
    DEF LookupFails, Goes, Typed, RowsSeen, UpToDate, SessionSeen, SessionHeld, world,
        saw
  <2> QED
    BY <2>2, <2>3
<1>6. ASSUME NEW c \in Caller, AskUser(c) PROVE VerdictInv'
  <2>1. /\ pc[c] = "sessionRead" /\ failure[c] = "none"
        /\ ~joined
        /\ found[c] # Absent /\ ~(found[c] <= now)
        /\ pc' = [pc EXCEPT ![c] = "user"]
        /\ UNCHANGED <<answer, found, user, failure, world, saw>>
    BY <1>6 DEF AskUser, HasSession, Completes, IsExpired, Goes
  <2>2. SessionHeld(c)
    <3>1. found[c] \in sawExpiry[c] /\ arrivedAt[c] <= now
      BY <2>1 DEF RowsSeen, UpToDate, SessionSeen
    <3>2. found[c] \in Nat /\ arrivedAt[c] \in Nat /\ now \in Nat
      BY <2>1 DEF Typed
    <3>3. found[c] > arrivedAt[c]
      BY <2>1, <3>1, <3>2
    <3> QED
      BY <2>1, <3>1, <3>3 DEF SessionHeld
  <2>3. Typed'
    BY <2>1 DEF Typed, world, saw, Places
  <2>4. RowsSeen'
    BY <2>1, <2>2
    DEF Typed, RowsSeen, UpToDate, SessionSeen, SessionHeld, world, saw
  <2> QED
    BY <2>3, <2>4
<1>7. ASSUME NEW c \in Caller, Return(c) PROVE VerdictInv'
  <2>1. Typed'
    BY <1>7 DEF Return, Typed, world, saw, Places, Answers
  <2>2. RowsSeen'
    BY <1>7 DEF Return, Typed, RowsSeen, UpToDate, SessionSeen, SessionHeld, world, saw
  <2> QED
    BY <2>1, <2>2
<1>8. CASE SessionChanges
  <2>1. \A c \in Caller : sawExpiry[c] \subseteq sawExpiry'[c]
                          /\ (c \in UnderWay => expiresAt' \in sawExpiry'[c])
    BY <1>8 DEF SessionChanges
  <2>2. Typed'
    BY <1>8 DEF SessionChanges, Typed, request
  <2>3. RowsSeen'
    BY <1>8, <2>1
    DEF SessionChanges, UnderWay, Typed, RowsSeen, UpToDate, SessionSeen, SessionHeld,
        request
  <2> QED
    BY <2>2, <2>3
<1>9. CASE UserChanges
  <2>1. \A c \in Caller : sawStatus[c] \subseteq sawStatus'[c]
                          /\ (c \in UnderWay => status' \in sawStatus'[c])
    BY <1>9 DEF UserChanges
  <2>2. Typed'
    BY <1>9 DEF UserChanges, Typed, request
  <2>3. RowsSeen'
    BY <1>9, <2>1
    DEF UserChanges, UnderWay, Typed, RowsSeen, UpToDate, SessionSeen, SessionHeld,
        request
  <2> QED
    BY <2>2, <2>3
<1>10. CASE Tick
  <2>1. Typed'
    BY <1>10 DEF Tick, Typed, request, saw
  <2>2. RowsSeen'
    BY <1>10
    DEF Tick, Typed, RowsSeen, UpToDate, SessionSeen, SessionHeld, request, saw
  <2> QED
    BY <2>1, <2>2
<1>11. CASE UNCHANGED vars
  <2>1. Typed'
    BY <1>11 DEF vars, request, world, saw, Typed
  <2>2. RowsSeen'
    BY <1>11
    DEF vars, request, world, saw, RowsSeen, UpToDate, SessionSeen, SessionHeld
  <2> QED
    BY <2>1, <2>2
<1> QED
  BY <1>1, <1>2, <1>3, <1>4, <1>5, <1>6, <1>7, <1>8, <1>9, <1>10, <1>11 DEF Next

(* How a request comes to be answered with a verdict on the session.       *)
LEMMA VerdictComesFrom ==
  ASSUME VerdictInv, [Next]_vars, NEW c \in Caller,
         NEW outcome \in {"accepted", "revoked", "expired"}, Answered(c, outcome)
  PROVE  \/ NoSession(c) /\ outcome = "revoked"
         \/ Expired(c) /\ outcome = "expired"
         \/ JudgeRecord(c) \/ JudgeUser(c)
<1> USE DEF VerdictInv
<1>1. pc[c] # "done" /\ pc'[c] = "done" /\ answer'[c] = outcome
  BY DEF Answered
<1>2. ASSUME NEW d \in Caller, NEW o, End(d, o) PROVE c = d /\ outcome = o
  BY <1>1, <1>2 DEF End, Typed
<1>3. ASSUME NEW d \in Caller, NEW p, p # "done", Goes(d, p) PROVE FALSE
  BY <1>1, <1>3 DEF Goes, Typed
<1>4. ASSUME NEW d \in Caller,
             \/ RefusedUnread(d) \/ FailedTranslated(d) \/ Cancelled(d)
             \/ \E kind \in Kind : SessionFailed(d, kind) \/ UserFailed(d, kind)
      PROVE  FALSE
  BY <1>2, <1>4
  DEF Own, RefusedUnread, FailedTranslated, Cancelled, SessionFailed, UserFailed
<1>5. ASSUME NEW d \in Caller,
             \/ LookUp(d) \/ ReadSession(d) \/ ReadUser(d) \/ AskUser(d)
             \/ \E how \in Own \cup Kind : LookupFails(d, how)
      PROVE  FALSE
  BY <1>3, <1>5 DEF LookUp, ReadSession, Reads, ReadUser, AskUser, LookupFails
<1>6. ASSUME NEW d \in Caller, Return(d) PROVE FALSE
  BY <1>1, <1>6 DEF Return, Typed
<1>7. CASE SessionChanges \/ UserChanges \/ Tick \/ UNCHANGED vars
  BY <1>1, <1>7 DEF SessionChanges, UserChanges, Tick, vars, request
<1>8. ASSUME NEW d \in Caller, NoSession(d) \/ Expired(d) \/ JudgeRecord(d) \/ JudgeUser(d)
      PROVE  c = d
  BY <1>2, <1>8, JudgeEnds DEF NoSession, Expired, JudgeRecord, JudgeUser
<1>9. NoSession(c) => outcome = "revoked"
  BY <1>2 DEF NoSession
<1>10. Expired(c) => outcome = "expired"
  BY <1>2 DEF Expired
<1> QED
  BY <1>4, <1>5, <1>6, <1>7, <1>8, <1>9, <1>10 DEF Next

(* A judgement is an acceptance, or says that the model or the ban refused. *)
LEMMA JudgeAnswers ==
  ASSUME Typed, NEW c \in Caller, NEW s, Judge(c, s)
  PROVE  /\ answer'[c] = "accepted" => MayPass(s)
         /\ answer'[c] = "revoked" => ~MayPass(s)
         /\ answer'[c] # "expired"
BY DEF Judge, End, Typed

(* Every verdict has its cause in rows the store held while the request    *)
(* ran: an acceptance.                                                     *)
LEMMA AcceptStep ==
  ASSUME VerdictInv, [Next]_vars, NEW c \in Caller, Answered(c, "accepted")
  PROVE  /\ \E e \in sawExpiry[c] \ {Absent} : e > IF joined THEN now ELSE arrivedAt[c]
         /\ \E s \in sawStatus[c] : s # "deleted" /\ MayPass(s)
<1> USE DEF VerdictInv
<1>1. answer'[c] = "accepted"
  BY DEF Answered
<1>3. JudgeRecord(c) \/ JudgeUser(c)
  BY VerdictComesFrom
<1>4. CASE JudgeRecord(c)
  <2>1. /\ joined /\ pc[c] = "sessionRead" /\ failure[c] = "none"
        /\ found[c] # Absent /\ ~(found[c] <= now)
        /\ Judge(c, user[c])
    BY <1>4 DEF JudgeRecord, HasSession, Completes, IsExpired
  <2>2. SessionSeen(c) /\ UpToDate(c)
    BY <2>1 DEF RowsSeen
  <2>3. found[c] \in sawExpiry[c] \ {Absent} /\ found[c] > now
    <3>1. found[c] \in Nat /\ now \in Nat
      BY <2>1, CookieAssumption DEF Typed
    <3> QED
      BY <2>1, <2>2, <3>1 DEF SessionSeen
  <2> QED
    BY <1>1, <2>1, <2>2, <2>3, JudgeAnswers DEF SessionSeen
<1>5. CASE JudgeUser(c)
  <2>1. /\ pc[c] = "userRead" /\ failure[c] = "none"
        /\ user[c] # "deleted" /\ Judge(c, user[c])
    BY <1>1, <1>5 DEF JudgeUser, Completes, End, Typed
  <2>2. SessionHeld(c) /\ user[c] \in sawStatus[c]
    BY <2>1 DEF RowsSeen
  <2> QED
    BY <1>1, <2>1, <2>2, JudgeAnswers DEF SessionHeld
<1> QED
  BY <1>3, <1>4, <1>5

(* ... and a refusal.                                                      *)
LEMMA RefuseStep ==
  ASSUME VerdictInv, [Next]_vars, NEW c \in Caller
  PROVE  /\ Answered(c, "revoked")
              => Absent \in sawExpiry[c] \/ \E s \in sawStatus[c] : ~MayPass(s)
         /\ Answered(c, "expired")
              => \E e \in sawExpiry[c] \ {Absent} : e <= now
<1> USE DEF VerdictInv
<1>0. ~MayPass("deleted")
  BY DEF MayPass
<1>1. ASSUME Answered(c, "revoked")
      PROVE  Absent \in sawExpiry[c] \/ \E s \in sawStatus[c] : ~MayPass(s)
  <2>1. answer'[c] = "revoked"
    BY <1>1 DEF Answered
  <2>2. NoSession(c) \/ JudgeRecord(c) \/ JudgeUser(c)
    BY <1>1, VerdictComesFrom
  <2>3. CASE NoSession(c)
    BY <1>0, <2>3 DEF NoSession, Completes, RowsSeen, SessionSeen
  <2>4. CASE JudgeRecord(c)
    <3>1. /\ joined /\ pc[c] = "sessionRead" /\ failure[c] = "none"
          /\ found[c] # Absent
          /\ Judge(c, user[c])
      BY <2>4 DEF JudgeRecord, HasSession, Completes
    <3> QED
      BY <2>1, <3>1, JudgeAnswers DEF RowsSeen, SessionSeen
  <2>5. CASE JudgeUser(c)
    <3>1. /\ pc[c] = "userRead" /\ failure[c] = "none"
          /\ user[c] = "deleted" \/ Judge(c, user[c])
      BY <2>5 DEF JudgeUser, Completes
    <3>2. user[c] \in sawStatus[c]
      BY <3>1 DEF RowsSeen
    <3> QED
      BY <1>0, <2>1, <3>1, <3>2, JudgeAnswers
  <2> QED
    BY <2>2, <2>3, <2>4, <2>5
<1>2. ASSUME Answered(c, "expired")
      PROVE  \E e \in sawExpiry[c] \ {Absent} : e <= now
  <2>1. answer'[c] = "expired"
    BY <1>2 DEF Answered
  <2>2. Expired(c) \/ JudgeRecord(c) \/ JudgeUser(c)
    BY <1>2, VerdictComesFrom
  <2>3. CASE Expired(c)
    BY <2>3 DEF Expired, Completes, IsExpired, RowsSeen, SessionSeen
  <2>4. CASE JudgeRecord(c) \/ JudgeUser(c)
    <3>1. Judge(c, user[c]) \/ End(c, "revoked")
      BY <2>4 DEF JudgeRecord, JudgeUser
    <3> QED
      BY <2>1, <3>1, JudgeAnswers DEF End, Typed
  <2> QED
    BY <2>2, <2>3, <2>4
<1> QED
  BY <1>1, <1>2

(* Whoever is accepted had a session and a user that may pass, as the rows *)
(* stood while the request ran (verify).                                   *)
THEOREM CookieAcceptanceIsTrue == Spec => AcceptedWasTrue
<1> DEFINE Good == \A c \in Caller : Answered(c, "accepted") =>
       /\ \E e \in sawExpiry[c] \ {Absent} : e > IF joined THEN now ELSE arrivedAt[c]
       /\ \E s \in sawStatus[c] : s # "deleted" /\ MayPass(s)
<1>1. VerdictInv /\ [Next]_vars => [Good]_vars
  BY AcceptStep
<1> QED
  BY <1>1, VerdictInit, VerdictStep, PTL DEF Spec, AcceptedWasTrue

(* Whoever is refused over the session gave cause while the request ran    *)
(* (verify).                                                               *)
THEOREM CookieRefusalIsTrue == Spec => RefusalWasTrue
<1> DEFINE Good == \A c \in Caller :
       /\ Answered(c, "revoked")
            => Absent \in sawExpiry[c] \/ \E s \in sawStatus[c] : ~MayPass(s)
       /\ Answered(c, "expired") => \E e \in sawExpiry[c] \ {Absent} : e <= now
<1>1. VerdictInv /\ [Next]_vars => [Good]_vars
  BY RefuseStep
<1> QED
  BY <1>1, VerdictInit, VerdictStep, PTL DEF Spec, RefusalWasTrue
-----------------------------------------------------------------------------
(* The outage latches. *)

\* What was logged of a lookup is what its latch holds.
ToldIsReported ==
  /\ told \in [Lookups -> SUBSET Line]
  /\ told["session"] \subseteq
       sessionReported \cup (IF sessionOverflowed THEN {"more"} ELSE {})
  /\ told["user"] \subseteq userReported \cup (IF userOverflowed THEN {"more"} ELSE {})
  /\ sessionReported \in SUBSET Kind /\ sessionOverflowed \in BOOLEAN
  /\ userReported \in SUBSET Kind /\ userOverflowed \in BOOLEAN

\* At the start nothing was logged.
LEMMA ToldInit == Init => ToldIsReported
BY DEF Init, ToldIsReported, Lookups, Line

(* A latch that admits a kind holds what it held, and is not silenced for  *)
(* less than one line.                                                     *)
LEMMA SessionAdmits ==
  ASSUME ToldIsReported, NEW kind \in Kind, SessionOutage!Admit(kind)
  PROVE  /\ sessionReported \subseteq sessionReported'
         /\ sessionReported' \in SUBSET Kind
         /\ sessionOverflowed' \in BOOLEAN
         /\ sessionOverflowed => sessionOverflowed'
BY Zenon DEF SessionOutage!Admit, SessionOutage!latch, ToldIsReported

\* The same of the latch of the user lookup.
LEMMA UserAdmits ==
  ASSUME ToldIsReported, NEW kind \in Kind, UserOutage!Admit(kind)
  PROVE  /\ userReported \subseteq userReported'
         /\ userReported' \in SUBSET Kind
         /\ userOverflowed' \in BOOLEAN
         /\ userOverflowed => userOverflowed'
BY Zenon DEF UserOutage!Admit, UserOutage!latch, ToldIsReported

\* What was logged stays in its latch until that lookup completes.
LEMMA ToldStep == ToldIsReported /\ [Next]_vars => ToldIsReported'
<1> SUFFICES ASSUME ToldIsReported, [Next]_vars PROVE ToldIsReported'
  OBVIOUS
<1>1. CASE UNCHANGED <<latches, told>>
  BY <1>1 DEF latches, sessionLatch, userLatch, ToldIsReported
<1>2. CASE RearmSession
  BY <1>2 DEF RearmSession, SessionOutage!Clear, ToldNothing, userLatch, ToldIsReported,
              Lookups
<1>3. CASE RearmUser
  BY <1>3 DEF RearmUser, UserOutage!Clear, ToldNothing, sessionLatch, ToldIsReported,
              Lookups
<1>4. ASSUME NEW kind \in Kind, SessionOutage!Admit(kind),
             Tells("session", SessionLines), UNCHANGED userLatch
      PROVE  ToldIsReported'
  <2>1. SessionLines \subseteq sessionReported' \cup (IF sessionOverflowed' THEN {"more"} ELSE {})
    BY DEF SessionLines, NewLines
  <2>2. SessionLines \subseteq Line
    BY <1>4, SessionAdmits DEF SessionLines, NewLines, Line
  <2>3. told' = [told EXCEPT !["session"] = told["session"] \cup SessionLines]
    BY <1>4 DEF Tells
  <2>4. told' \in [Lookups -> SUBSET Line]
    BY <2>2, <2>3 DEF ToldIsReported, Lookups
  <2>5. told'["user"] = told["user"]
        /\ told'["session"] = told["session"] \cup SessionLines
    BY <2>3 DEF ToldIsReported, Lookups
  <2> QED
    BY <1>4, <2>1, <2>4, <2>5, SessionAdmits DEF ToldIsReported, userLatch
<1>5. ASSUME NEW kind \in Kind, UserOutage!Admit(kind),
             Tells("user", UserLines), UNCHANGED sessionLatch
      PROVE  ToldIsReported'
  <2>1. UserLines \subseteq userReported' \cup (IF userOverflowed' THEN {"more"} ELSE {})
    BY DEF UserLines, NewLines
  <2>2. UserLines \subseteq Line
    BY <1>5, UserAdmits DEF UserLines, NewLines, Line
  <2>3. told' = [told EXCEPT !["user"] = told["user"] \cup UserLines]
    BY <1>5 DEF Tells
  <2>4. told' \in [Lookups -> SUBSET Line]
    BY <2>2, <2>3 DEF ToldIsReported, Lookups
  <2>5. told'["session"] = told["session"]
        /\ told'["user"] = told["user"] \cup UserLines
    BY <2>3 DEF ToldIsReported, Lookups
  <2> QED
    BY <1>5, <2>1, <2>4, <2>5, UserAdmits DEF ToldIsReported, sessionLatch
<1>6. \/ UNCHANGED <<latches, told>> \/ RearmSession \/ RearmUser
      \/ \E kind \in Kind :
           \/ SessionOutage!Admit(kind) /\ Tells("session", SessionLines)
                /\ UNCHANGED userLatch
           \/ UserOutage!Admit(kind) /\ Tells("user", UserLines)
                /\ UNCHANGED sessionLatch
  <2>1. CASE SessionChanges \/ UserChanges \/ Tick \/ UNCHANGED vars
    BY <2>1 DEF SessionChanges, UserChanges, Tick, vars
  <2>2. ASSUME NEW c \in Caller,
               \/ RefusedUnread(c) \/ LookUp(c) \/ ReadSession(c) \/ ReadUser(c)
               \/ \E how \in Own \cup Kind : LookupFails(c, how)
               \/ FailedTranslated(c) \/ Cancelled(c) \/ Return(c)
        PROVE  UNCHANGED <<latches, told>>
    BY <2>2
    DEF RefusedUnread, LookUp, ReadSession, Reads, ReadUser, LookupFails,
        FailedTranslated, Cancelled, Return
  <2>3. ASSUME NEW c \in Caller,
               \/ NoSession(c) \/ Expired(c) \/ JudgeRecord(c) \/ AskUser(c)
        PROVE  RearmSession
    BY <2>3 DEF NoSession, Expired, JudgeRecord, AskUser, HasSession
  <2>4. ASSUME NEW c \in Caller, JudgeUser(c) PROVE RearmUser
    BY <2>4 DEF JudgeUser
  <2>5. ASSUME NEW c \in Caller, NEW kind \in Kind, SessionFailed(c, kind)
        PROVE  SessionOutage!Admit(kind) /\ Tells("session", SessionLines)
                /\ UNCHANGED userLatch
    BY <2>5 DEF SessionFailed
  <2>6. ASSUME NEW c \in Caller, NEW kind \in Kind, UserFailed(c, kind)
        PROVE  UserOutage!Admit(kind) /\ Tells("user", UserLines)
                /\ UNCHANGED sessionLatch
    BY <2>6 DEF UserFailed
  <2> QED
    BY <2>1, <2>2, <2>3, <2>4, <2>5, <2>6 DEF Next
<1> QED
  BY <1>1, <1>2, <1>3, <1>4, <1>5, <1>6

(* New lines are not among those a latch holds.                            *)
LEMMA LinesAreNews ==
  ToldIsReported /\ ToldIsReported'
    => SessionLines \cap told["session"] = {} /\ UserLines \cap told["user"] = {}
<1> SUFFICES ASSUME ToldIsReported, ToldIsReported'
             PROVE  /\ SessionLines \cap told["session"] = {}
                    /\ UserLines \cap told["user"] = {}
  OBVIOUS
<1>1. ASSUME NEW l, l \in SessionLines, l \in told["session"] PROVE FALSE
  <2>1. CASE l = "more"
    <3>1. l \notin sessionReported /\ l \notin sessionReported'
      BY <2>1, CookieAssumption DEF ToldIsReported
    <3>2. sessionOverflowed
      BY <1>1, <3>1 DEF ToldIsReported
    <3>3. ~sessionOverflowed
      BY <1>1, <3>1 DEF SessionLines, NewLines
    <3> QED
      BY <3>2, <3>3
  <2>2. CASE l # "more"
    BY <1>1, <2>2 DEF ToldIsReported, SessionLines, NewLines
  <2> QED
    BY <2>1, <2>2
<1>2. ASSUME NEW l, l \in UserLines, l \in told["user"] PROVE FALSE
  <2>1. CASE l = "more"
    <3>1. l \notin userReported /\ l \notin userReported'
      BY <2>1, CookieAssumption DEF ToldIsReported
    <3>2. userOverflowed
      BY <1>2, <3>1 DEF ToldIsReported
    <3>3. ~userOverflowed
      BY <1>2, <3>1 DEF UserLines, NewLines
    <3> QED
      BY <3>2, <3>3
  <2>2. CASE l # "more"
    BY <1>2, <2>2 DEF ToldIsReported, UserLines, NewLines
  <2> QED
    BY <2>1, <2>2
<1> QED
  BY <1>1, <1>2

(* A store that stays down is not logged again, whatever the verifier's    *)
(* other lookup does meanwhile (_session_outage and _user_outage).         *)
THEOREM OutageIsToldOnce == Spec => ToldOnce
<1> DEFINE Good == /\ SessionLines \cap told["session"] = {}
                   /\ UserLines \cap told["user"] = {}
<1>1. ToldIsReported /\ [Next]_vars => [Good]_vars
  BY LinesAreNews, ToldStep
<1> QED
  BY <1>1, ToldInit, ToldStep, PTL DEF Spec, ToldOnce

(* Every variable keeps its type, whatever the stores answer and however the
   service changes its rows meanwhile. *)
THEOREM CookieTypeCorrect == Spec => []TypeOK
<1>1. VerdictInv /\ ToldIsReported => TypeOK
  BY DEF VerdictInv, Typed, ToldIsReported, TypeOK
<1> QED
  BY <1>1, VerdictInit, VerdictStep, ToldInit, ToldStep, PTL DEF Spec
=============================================================================
