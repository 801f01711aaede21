--------------------------- MODULE AccountsProofs ---------------------------
(***************************************************************************)
(* The properties of Accounts, proved for any number of accounts, requests *)
(* and sessions: types, that a session is ended once, and that a change of *)
(* role or a deactivation leaves no session behind.                        *)
(***************************************************************************)
EXTENDS Accounts, SequenceTheorems, TLAPS

Row == [role : Roles, active : BOOLEAN]
Session == [user : Users, role : Roles, revoked : BOOLEAN, ended : Nat]

-----------------------------------------------------------------------------
(* Types                                                                   *)

LEMMA ChangedTyped ==
  ASSUME NEW row \in Row, NEW change \in Changes
  PROVE  /\ Changed(row, change) \in Row
         /\ Changed(row, change).role =
              IF change = "promote" THEN "root" ELSE IF change = "demote" THEN "admin" ELSE row.role
         /\ row.active /\ ~Changed(row, change).active => change = "deactivate"
BY DEF Changed, Changes, Row, Roles

\* What the UPDATE of the revocations does to a row.
LEMMA RevokedRow ==
  ASSUME NEW row \in Session, NEW n \in Nat
  PROVE  /\ [row EXCEPT !.revoked = TRUE, !.ended = n] \in Session
         /\ [row EXCEPT !.revoked = TRUE, !.ended = n].user = row.user
         /\ [row EXCEPT !.revoked = TRUE, !.ended = n].revoked
         /\ [row EXCEPT !.revoked = TRUE, !.ended = n].ended = n
BY DEF Session

\* The statement changes the live rows it names, and no other.
LEMMA RevokedRows ==
  ASSUME TypeOK, NEW S
  PROVE  /\ Revoked(S) \in Seq(Session) /\ Len(Revoked(S)) = Len(sessions)
         /\ \A s \in DOMAIN sessions :
              IF s \in S /\ ~sessions[s].revoked
              THEN /\ Revoked(S)[s].user = sessions[s].user
                   /\ Revoked(S)[s].revoked
                   /\ Revoked(S)[s].ended = sessions[s].ended + 1
              ELSE Revoked(S)[s] = sessions[s]
<1>1. sessions \in Seq(Session)
  BY DEF TypeOK, Session
<1>2. /\ DOMAIN sessions = 1 .. Len(sessions) /\ Len(sessions) \in Nat
      /\ \A s \in DOMAIN sessions : sessions[s] \in Session
  BY <1>1
<1>3. \A s \in DOMAIN sessions : sessions[s].ended + 1 \in Nat
  BY <1>2 DEF Session
<1> DEFINE row(s) == IF s \in S \intersect Live
                     THEN [sessions[s] EXCEPT !.revoked = TRUE, !.ended = sessions[s].ended + 1]
                     ELSE sessions[s]
<1>4. \A s \in DOMAIN sessions : row(s) \in Session
  BY <1>2, <1>3, RevokedRow
<1>5. \A s \in DOMAIN sessions :
        IF s \in S /\ ~sessions[s].revoked
        THEN /\ row(s).user = sessions[s].user
             /\ row(s).revoked
             /\ row(s).ended = sessions[s].ended + 1
        ELSE row(s) = sessions[s]
  BY <1>2, <1>3, RevokedRow DEF Live
<1>6. Revoked(S) = [s \in DOMAIN sessions |-> row(s)]
  BY DEF Revoked
<1> HIDE DEF row
<1>7. Revoked(S) \in [1 .. Len(sessions) -> Session]
  BY <1>2, <1>4, <1>6
<1>8. Revoked(S) \in Seq(Session) /\ Len(Revoked(S)) = Len(sessions)
  BY <1>2, <1>7
<1> QED
  BY <1>5, <1>6, <1>8

LEMMA IdleTyped == Idle \in ReqType
  BY DEF Idle, ReqType

LEMMA EndsTyped ==
  ASSUME TypeOK, NEW r \in Requests, Ends(r)
  PROVE  req' \in [Requests -> ReqType]
BY IdleTyped DEF TypeOK, Ends

LEMMA TakesTyped ==
  ASSUME TypeOK, NEW r \in Requests, NEW work \in ReqType, Takes(r, work)
  PROVE  req' \in [Requests -> ReqType]
BY DEF TypeOK, Takes

\* What a request carries while it changes an account.
LEMMA Carries ==
  ASSUME TypeOK, NEW r \in Requests
  PROVE  /\ At(r, "open") => req[r] \in [pc : {"open"}, user : Users, role : Roles]
         /\ At(r, "lock") =>
              req[r] \in [pc : {"lock"}, caller : Ids, user : Users, change : Changes]
         /\ At(r, "count") \/ At(r, "write") =>
              req[r] \in [pc : {"count", "write"}, caller : Ids, user : Users,
                          change : Changes, before : Roles]
<1>1. req[r] \in ReqType
  BY DEF TypeOK
<1> QED
  BY <1>1 DEF ReqType, At

LEMMA GoesToWrite ==
  ASSUME TypeOK, NEW r \in Requests, At(r, "count"), Goes(r, "write")
  PROVE  /\ req' \in [Requests -> ReqType]
         /\ req'[r].user = req[r].user /\ req'[r].before = req[r].before
         /\ \A q \in Requests \ {r} : req'[q] = req[q]
<1> DEFINE Working == [pc : {"count", "write"}, caller : Ids, user : Users,
                       change : Changes, before : Roles]
<1>1. req[r] \in Working
  BY Carries
<1>2. /\ [req[r] EXCEPT !.pc = "write"] \in Working
      /\ [req[r] EXCEPT !.pc = "write"].user = req[r].user
      /\ [req[r] EXCEPT !.pc = "write"].before = req[r].before
  BY <1>1
<1>3. Working \subseteq ReqType
  BY DEF ReqType
<1> HIDE DEF Working
<1> QED
  BY <1>2, <1>3 DEF TypeOK, Goes

LEMMA ReadingTyped ==
  ASSUME TypeOK, NEW r \in Requests, At(r, "lock")
  PROVE  /\ Reading(r, req[r].user) \in ReqType
         /\ Reading(r, req[r].user).user = req[r].user
         /\ Reading(r, req[r].user).before = users[req[r].user].role
         /\ req[r].user \in Users
<1>1. req[r] \in [pc : {"lock"}, caller : Ids, user : Users, change : Changes]
  BY Carries
<1>2. users[req[r].user].role \in Roles
  BY <1>1 DEF TypeOK
<1> QED
  BY <1>1, <1>2 DEF Reading, ReqType

LEMMA RevokedTyped ==
  ASSUME TypeOK, NEW S, sessions' = Revoked(S)
  PROVE  sessions' \in Seq(Session) /\ Len(sessions') <= MaxSessions
BY RevokedRows DEF TypeOK

LEMMA SessionIds == TypeOK => DOMAIN sessions \subseteq Ids
<1> SUFFICES ASSUME TypeOK PROVE DOMAIN sessions \subseteq Ids
  OBVIOUS
<1>1. DOMAIN sessions = 1 .. Len(sessions) /\ Len(sessions) \in Nat /\ Len(sessions) <= MaxSessions
  BY DEF TypeOK
<1> QED
  BY <1>1, AccountsAssumption DEF Ids

LEMMA TypeStep == TypeOK /\ [Next]_vars => TypeOK'
<1> SUFFICES ASSUME TypeOK, [Next]_vars PROVE TypeOK'
  OBVIOUS
<1> USE DEF Session
<1>1. CASE UNCHANGED vars
  BY <1>1 DEF TypeOK, vars
<1>2. ASSUME NEW r \in Requests, NEW u \in Users, CheckLoginPassword(r, u)
      PROVE  TypeOK'
  <2>1. [pc |-> "open", user |-> u, role |-> users[u].role] \in ReqType
    BY DEF TypeOK, ReqType
  <2> QED
    BY <1>2, <2>1, TakesTyped DEF CheckLoginPassword, TypeOK
<1>3. ASSUME NEW r \in Requests, NEW s \in DOMAIN sessions, NEW u \in Users,
             NEW change \in Changes, UpdateUser(r, s, u, change)
      PROVE  TypeOK'
  <2>1. [pc |-> "lock", caller |-> s, user |-> u, change |-> change] \in ReqType
    BY SessionIds DEF ReqType
  <2> QED
    BY <1>3, <2>1, TakesTyped DEF UpdateUser, TypeOK
<1>4. ASSUME NEW r \in Requests, NEW s \in DOMAIN sessions, ChangePassword(r, s)
      PROVE  TypeOK'
  <2>1. [pc |-> "change", caller |-> s] \in ReqType
    BY SessionIds DEF ReqType
  <2> QED
    BY <1>4, <2>1, TakesTyped DEF ChangePassword, TypeOK
<1>5. ASSUME NEW r \in Requests, NEW s \in DOMAIN sessions, NEW t \in DOMAIN sessions,
             ReadSession(r, s, t)
      PROVE  TypeOK'
  <2>1. [pc |-> "revoke", caller |-> s, session |-> t] \in ReqType
    BY SessionIds DEF ReqType
  <2> QED
    BY <1>5, <2>1, TakesTyped DEF ReadSession, TypeOK
<1>6. ASSUME NEW r \in Requests, NEW s \in DOMAIN sessions, NEW u \in Users,
             AskRevokeOthers(r, s, u)
      PROVE  TypeOK'
  <2>1. [pc |-> "others", caller |-> s, user |-> u] \in ReqType
    BY SessionIds DEF ReqType
  <2> QED
    BY <1>6, <2>1, TakesTyped DEF AskRevokeOthers, TypeOK
<1>7. ASSUME NEW r \in Requests, CreateSession(r)
      PROVE  TypeOK'
  <2>1. [user |-> req[r].user, role |-> req[r].role, revoked |-> FALSE, ended |-> 0] \in Session
    BY <1>7, Carries DEF CreateSession
  <2>2. sessions' \in Seq(Session) /\ Len(sessions') <= MaxSessions
    BY <1>7, <2>1, AccountsAssumption DEF CreateSession, TypeOK
  <2> QED
    BY <1>7, <2>2, EndsTyped DEF CreateSession, TypeOK
<1>8. ASSUME NEW r \in Requests, SignInFails(r)
      PROVE  TypeOK'
  BY <1>8, EndsTyped DEF SignInFails, TypeOK
<1>9. ASSUME NEW r \in Requests, ReadForUpdate(r)
      PROVE  TypeOK'
  <2>1. req' \in [Requests -> ReqType]
    BY <1>9, ReadingTyped DEF ReadForUpdate, TypeOK
  <2>2. lock' \in [Users -> Requests \union {NoOne}]
    BY <1>9 DEF ReadForUpdate, Locks, TypeOK
  <2> QED
    BY <1>9, <2>1, <2>2 DEF ReadForUpdate, TypeOK
<1>10. ASSUME NEW r \in Requests, CountRoots(r)
       PROVE  TypeOK'
  <2>1. req' \in [Requests -> ReqType]
    BY <1>10, EndsTyped, GoesToWrite DEF CountRoots
  <2>2. lock' \in [Users -> Requests \union {NoOne}]
    BY <1>10 DEF CountRoots, Unlocks, TypeOK
  <2> QED
    BY <1>10, <2>1, <2>2 DEF CountRoots, TypeOK
<1>11. ASSUME NEW r \in Requests, WriteUser(r)
       PROVE  TypeOK'
  <2>1. req[r].user \in Users /\ req[r].change \in Changes
    BY <1>11, Carries DEF WriteUser
  <2>2. Changed(users[req[r].user], req[r].change) \in Row
    BY <2>1, ChangedTyped DEF TypeOK, Row
  <2>3. users' \in [Users -> Row]
    BY <1>11, <2>2 DEF WriteUser, TypeOK, Row
  <2>4. sessions' \in Seq(Session) /\ Len(sessions') <= MaxSessions
    BY <1>11, RevokedTyped DEF WriteUser, TypeOK
  <2>5. lock' \in [Users -> Requests \union {NoOne}]
    BY <1>11 DEF WriteUser, Unlocks, TypeOK
  <2> QED
    BY <1>11, <2>3, <2>4, <2>5, EndsTyped DEF WriteUser, TypeOK, Row
<1>12. ASSUME NEW r \in Requests, WritePassword(r) \/ RevokeSession(r) \/ RevokeOtherSessions(r)
       PROVE  TypeOK'
  <2>1. (\E S : sessions' = Revoked(S)) /\ Ends(r) /\ UNCHANGED <<users, lock>>
    BY <1>12 DEF WritePassword, RevokeSession, RevokeOtherSessions
  <2> QED
    BY <2>1, EndsTyped, RevokedTyped DEF TypeOK
<1> QED
  BY <1>1, <1>2, <1>3, <1>4, <1>5, <1>6, <1>7, <1>8, <1>9, <1>10, <1>11, <1>12
  DEF Next, Arrives, Proceeds

\* Every account, session, lock and request has its type.
THEOREM TypeCorrect == Spec => []TypeOK
<1>1. Init => TypeOK
  BY IdleTyped, AccountsAssumption DEF Init, TypeOK, Roles
<1> QED
  BY <1>1, TypeStep, PTL DEF Spec

-----------------------------------------------------------------------------
(* A session is ended once                                                 *)

LEMMA EndedStep == TypeOK /\ EndedOnce /\ [Next]_vars => EndedOnce'
<1> SUFFICES ASSUME TypeOK, EndedOnce, [Next]_vars PROVE EndedOnce'
  OBVIOUS
<1>1. CASE UNCHANGED sessions
  BY <1>1 DEF EndedOnce
<1>2. ASSUME NEW S, sessions' = Revoked(S)
      PROVE  EndedOnce'
  <2>1. DOMAIN sessions' = DOMAIN sessions
    BY <1>2, RevokedRows DEF TypeOK, Session
  <2>2. ASSUME NEW s \in DOMAIN sessions
        PROVE  sessions'[s].ended = IF sessions'[s].revoked THEN 1 ELSE 0
    BY <1>2, RevokedRows DEF EndedOnce
  <2> QED
    BY <2>1, <2>2 DEF EndedOnce
<1>3. ASSUME NEW r \in Requests, CreateSession(r)
      PROVE  EndedOnce'
  <2> DEFINE new == [user |-> req[r].user, role |-> req[r].role, revoked |-> FALSE, ended |-> 0]
  <2>1. /\ DOMAIN sessions' = DOMAIN sessions \union {Len(sessions) + 1}
        /\ sessions'[Len(sessions) + 1] = new
        /\ \A s \in DOMAIN sessions : sessions'[s] = sessions[s]
    BY <1>3 DEF CreateSession, TypeOK
  <2>2. new.ended = 0 /\ ~new.revoked
    OBVIOUS
  <2> HIDE DEF new
  <2> QED
    BY <2>1, <2>2 DEF EndedOnce
<1> QED
  BY <1>1, <1>2, <1>3
  DEF Next, Arrives, Proceeds, vars, CheckLoginPassword, UpdateUser, ChangePassword, ReadSession,
      AskRevokeOthers, SignInFails, ReadForUpdate, CountRoots, WriteUser, WritePassword,
      RevokeSession, RevokeOtherSessions

\* However calls that end a session compete, exactly one is told that it did.
THEOREM SessionsEndOnce == Spec => []EndedOnce
<1>1. Init => EndedOnce
  BY DEF Init, EndedOnce
<1> QED
  BY <1>1, EndedStep, TypeCorrect, PTL DEF Spec

-----------------------------------------------------------------------------
(* A change takes the sessions with it                                     *)

LEMMA DecidedStep == TypeOK /\ DecidedOnWhatIs /\ [Next]_vars => DecidedOnWhatIs'
<1> SUFFICES ASSUME TypeOK, DecidedOnWhatIs, [Next]_vars PROVE DecidedOnWhatIs'
  OBVIOUS
<1> DEFINE Holds(q) == req[q].pc \in {"count", "write"} =>
                         lock[req[q].user] = q /\ users[req[q].user].role = req[q].before
<1>1. CASE UNCHANGED vars
  BY <1>1 DEF DecidedOnWhatIs, vars
<1>2. ASSUME NEW r \in Requests, UNCHANGED <<users, lock>>,
             \A q \in Requests \ {r} : req'[q] = req[q],
             req'[r].pc \notin {"count", "write"}
      PROVE  DecidedOnWhatIs'
  BY <1>2 DEF DecidedOnWhatIs
<1>3. ASSUME NEW r \in Requests, Ends(r)
      PROVE  req'[r].pc \notin {"count", "write"} /\ \A q \in Requests \ {r} : req'[q] = req[q]
  BY <1>3 DEF Ends, Idle, TypeOK
<1>4. ASSUME NEW r \in Requests,
             \/ Arrives(r)
             \/ CreateSession(r) \/ SignInFails(r)
             \/ WritePassword(r) \/ RevokeSession(r) \/ RevokeOtherSessions(r)
      PROVE  DecidedOnWhatIs'
  <2>1. UNCHANGED <<users, lock>>
    BY <1>4 DEF Arrives, CheckLoginPassword, UpdateUser, ChangePassword, ReadSession,
      AskRevokeOthers, CreateSession, SignInFails, WritePassword, RevokeSession, RevokeOtherSessions
  <2>2. CASE Ends(r)
    BY <1>2, <1>3, <2>1, <2>2
  <2>3. CASE Arrives(r)
    <3>1. \A q \in Requests \ {r} : req'[q] = req[q]
      BY <2>3 DEF Arrives, CheckLoginPassword, UpdateUser, ChangePassword, ReadSession,
        AskRevokeOthers, Takes, TypeOK
    <3>2. req'[r].pc \notin {"count", "write"}
      BY <2>3 DEF Arrives, CheckLoginPassword, UpdateUser, ChangePassword, ReadSession,
        AskRevokeOthers, Takes, TypeOK
    <3> QED
      BY <1>2, <2>1, <3>1, <3>2
  <2> QED
    BY <1>4, <2>2, <2>3
    DEF CreateSession, SignInFails, WritePassword, RevokeSession, RevokeOtherSessions
<1>5. ASSUME NEW r \in Requests, ReadForUpdate(r)
      PROVE  DecidedOnWhatIs'
  <2>1. /\ \A q \in Requests \ {r} : req'[q] = req[q]
        /\ req'[r].user = req[r].user /\ req'[r].before = users[req[r].user].role
        /\ req[r].user \in Users
        /\ users' = users
    BY <1>5, ReadingTyped DEF ReadForUpdate, TypeOK
  <2>2. /\ lock[req[r].user] = NoOne /\ lock'[req[r].user] = r
        /\ \A u \in Users \ {req[r].user} : lock'[u] = lock[u]
    BY <1>5, <2>1 DEF ReadForUpdate, Locks, Unlocked, TypeOK
  <2>3. ASSUME NEW q \in Requests \ {r}, req'[q].pc \in {"count", "write"}
        PROVE  lock'[req'[q].user] = q /\ users'[req'[q].user].role = req'[q].before
    <3>1. lock[req[q].user] = q /\ req[q].user \in Users
      BY <2>1, <2>3, Carries DEF DecidedOnWhatIs, At
    <3>2. req[q].user # req[r].user
      BY <2>2, <3>1, AccountsAssumption
    <3> QED
      BY <2>1, <2>2, <2>3, <3>1, <3>2 DEF DecidedOnWhatIs
  <2> QED
    BY <2>1, <2>2, <2>3 DEF DecidedOnWhatIs
<1>6. ASSUME NEW r \in Requests, CountRoots(r)
      PROVE  DecidedOnWhatIs'
  <2>1. users' = users /\ req[r].user \in Users /\ lock[req[r].user] = r
    BY <1>6, Carries DEF CountRoots, DecidedOnWhatIs, At
  <2>2. CASE Goes(r, "write") /\ UNCHANGED lock
    BY <1>6, <2>1, <2>2, GoesToWrite DEF CountRoots, DecidedOnWhatIs, At
  <2>3. CASE Ends(r) /\ Unlocks(req[r].user)
    <3>1. \A u \in Users \ {req[r].user} : lock'[u] = lock[u]
      BY <2>3 DEF Unlocks, TypeOK
    <3>2. ASSUME NEW q \in Requests \ {r}, req'[q].pc \in {"count", "write"}
          PROVE  lock'[req'[q].user] = q /\ users'[req'[q].user].role = req'[q].before
      <4>1. req[q].user \in Users /\ lock[req[q].user] = q
        BY <1>3, <2>3, <3>2, Carries DEF DecidedOnWhatIs, At
      <4> QED
        BY <1>3, <2>1, <2>3, <3>1, <3>2, <4>1 DEF DecidedOnWhatIs
    <3> QED
      BY <1>3, <2>3, <3>2 DEF DecidedOnWhatIs
  <2> QED
    BY <1>6, <2>2, <2>3 DEF CountRoots
<1>7. ASSUME NEW r \in Requests, WriteUser(r)
      PROVE  DecidedOnWhatIs'
  <2>1. /\ req[r].user \in Users /\ lock[req[r].user] = r /\ Ends(r)
        /\ \A u \in Users \ {req[r].user} : users'[u] = users[u] /\ lock'[u] = lock[u]
    BY <1>7, Carries DEF WriteUser, DecidedOnWhatIs, At, Unlocks, TypeOK
  <2>2. ASSUME NEW q \in Requests \ {r}, req'[q].pc \in {"count", "write"}
        PROVE  lock'[req'[q].user] = q /\ users'[req'[q].user].role = req'[q].before
    <3>1. req[q].user \in Users /\ lock[req[q].user] = q
      BY <1>3, <2>1, <2>2, Carries DEF DecidedOnWhatIs, At
    <3> QED
      BY <1>3, <2>1, <2>2, <3>1 DEF DecidedOnWhatIs
  <2> QED
    BY <1>3, <2>1, <2>2 DEF DecidedOnWhatIs
<1> QED
  BY <1>1, <1>4, <1>5, <1>6, <1>7 DEF Next, Proceeds

\* updateUser decides on the role that is still there when it writes.
LEMMA DecidedAlways == Spec => []DecidedOnWhatIs
<1>1. Init => DecidedOnWhatIs
  BY DEF Init, DecidedOnWhatIs, Idle
<1> QED
  BY <1>1, DecidedStep, TypeCorrect, PTL DEF Spec

SessionsEnd ==
  \A u \in Users :
    (users'[u].role # users[u].role \/ (users[u].active /\ ~users'[u].active)) =>
      \A s \in DOMAIN sessions' : sessions'[s].user = u => sessions'[s].revoked

LEMMA ChangeStep == TypeOK /\ DecidedOnWhatIs /\ [Next]_vars => SessionsEnd
<1> SUFFICES ASSUME TypeOK, DecidedOnWhatIs, [Next]_vars,
                    NEW u \in Users,
                    users'[u].role # users[u].role \/ (users[u].active /\ ~users'[u].active)
             PROVE  \A s \in DOMAIN sessions' : sessions'[s].user = u => sessions'[s].revoked
  BY DEF SessionsEnd
<1>1. PICK r \in Requests : WriteUser(r)
  BY DEF Next, Arrives, Proceeds, vars, CheckLoginPassword, UpdateUser, ChangePassword,
    ReadSession, AskRevokeOthers, CreateSession, SignInFails, ReadForUpdate, CountRoots,
    WritePassword, RevokeSession, RevokeOtherSessions
<1>2. /\ req[r].user \in Users /\ req[r].change \in Changes
      /\ req[r].before = users[req[r].user].role
  BY <1>1, Carries DEF WriteUser, DecidedOnWhatIs, At
<1>3. /\ u = req[r].user
      /\ users'[u] = Changed(users[u], req[r].change)
  BY <1>1, <1>2 DEF WriteUser, TypeOK
<1>4. users[u] \in Row
  BY DEF TypeOK, Row
<1>5. EndsSessions(req[r].change, req[r].before)
  <2>1. users[u].role \in {"root", "admin"}
    BY <1>4 DEF Row, Roles
  <2> DEFINE change == req[r].change
             role == users[u].role
  <2>2. /\ users'[u].role = IF change = "promote" THEN "root"
                            ELSE IF change = "demote" THEN "admin" ELSE role
        /\ users[u].active /\ ~users'[u].active => change = "deactivate"
    BY <1>2, <1>3, <1>4, ChangedTyped
  <2>3. req[r].before = role
    BY <1>2, <1>3
  <2>4. CASE users'[u].role # role
    <3>0. role \in {"root", "admin"}
      BY <2>1
    <3> HIDE DEF change, role
    <3>1. (change = "promote" /\ role # "root") \/ (change = "demote" /\ role = "root")
      BY <2>2, <2>4, <3>0
    <3> QED
      BY <2>3, <3>1 DEF EndsSessions, change
  <2>5. CASE users[u].active /\ ~users'[u].active
    BY <2>2, <2>5 DEF EndsSessions
  <2> QED
    BY <2>4, <2>5
<1>6. sessions' = Revoked(LiveOf(u))
  BY <1>1, <1>3, <1>5 DEF WriteUser
<1>7. DOMAIN sessions' = DOMAIN sessions
  BY <1>6, RevokedRows DEF TypeOK, Session
<1>8. ASSUME NEW s \in DOMAIN sessions, sessions'[s].user = u
      PROVE  sessions'[s].revoked
  BY <1>6, <1>8, RevokedRows DEF LiveOf, Live
<1> QED
  BY <1>7, <1>8

\* A change of role and a deactivation take every session of the account with them.
THEOREM NoSessionOutlivesAChange == Spec => ChangeEndsSessions
<1>1. TypeOK /\ DecidedOnWhatIs /\ [Next]_vars => [SessionsEnd]_vars
  BY ChangeStep
<1> QED
  BY <1>1, TypeCorrect, DecidedAlways, PTL DEF Spec, ChangeEndsSessions, SessionsEnd
=============================================================================
