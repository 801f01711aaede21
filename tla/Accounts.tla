------------------------------ MODULE Accounts ------------------------------
(***************************************************************************)
(* Accounts and their sessions: root changes accounts (updateUser in       *)
(* services/admin/users.ts), people sign in (services/auth.ts), change     *)
(* their password and end sessions (services/sessions.ts), and every       *)
(* request is admitted by validateSession (lib/auth/sessions.ts).          *)
(*                                                                         *)
(* updateUser holds a FOR UPDATE lock on the ONE row it changes, from its  *)
(* read to its commit.  Opening a session waits for that lock (the foreign *)
(* key to users), and so does every other write of the row.  The statements *)
(* of a transaction see what had been committed when each of them began.   *)
(***************************************************************************)
EXTENDS Naturals, Sequences, FiniteSets

CONSTANTS
  Users,        \* the accounts
  InitialRoots, \* those that are root at first; the others are 'admin'
  Requests,     \* requests that may be served at the same time
  NoOne,        \* no request holds the lock of a row
  MaxSessions   \* sessions ever opened; bounds the model

ASSUME AccountsAssumption ==
  /\ InitialRoots \subseteq Users
  /\ InitialRoots # {}
  /\ NoOne \notin Requests
  /\ MaxSessions \in Nat

VARIABLES
  users,    \* the users rows: role and active
  sessions, \* the sessions rows, with the number of calls that claim to have ended it
  lock,     \* the transaction that holds a users row FOR UPDATE
  req       \* the requests being served

vars == <<users, sessions, lock, req>>

-----------------------------------------------------------------------------
(* Helpers                                                                 *)

\* 'project_manager' behaves as 'admin' here: neither may change an account.
Roles == {"root", "admin"}

\* What updateUser may be asked for.  A password is data without a value.
Changes == {"promote", "demote", "activate", "deactivate", "reset password"}

Changed(row, change) ==
  CASE change = "promote"        -> [row EXCEPT !.role = "root"]
    [] change = "demote"         -> [row EXCEPT !.role = "admin"]
    [] change = "activate"       -> [row EXCEPT !.active = TRUE]
    [] change = "deactivate"     -> [row EXCEPT !.active = FALSE]
    [] change = "reset password" -> row

Idle == [pc |-> "idle"]

At(r, pc) == req[r].pc = pc

Live == {s \in DOMAIN sessions : ~sessions[s].revoked}
LiveOf(u) == {s \in Live : sessions[s].user = u}

ActiveRoots == {u \in Users : users[u].role = "root" /\ users[u].active}

\* validateSession: the row, joined with the account's 'active'.
Validated(s) == s \in Live /\ users[sessions[s].user].active

LosesRoot(role, change) == role = "root" /\ change \in {"demote", "deactivate"}

RevokedUnasked(S) ==
  [s \in DOMAIN sessions |->
     IF s \in S THEN [sessions[s] EXCEPT !.revoked = TRUE, !.ended = sessions[s].ended + 1]
     ELSE sessions[s]]

\* UPDATE sessions SET revoked_at ... WHERE revoked_at IS NULL RETURNING id: the
\* caller is told of the rows it changed.
Revoked(S) ==
  [s \in DOMAIN sessions |->
     IF s \in S \intersect Live
     THEN [sessions[s] EXCEPT !.revoked = TRUE, !.ended = sessions[s].ended + 1]
     ELSE sessions[s]]

Takes(r, work) == At(r, "idle") /\ req' = [req EXCEPT ![r] = work]
Goes(r, pc) == req' = [req EXCEPT ![r].pc = pc]
Ends(r) == req' = [req EXCEPT ![r] = Idle]

Unlocked(u) == lock[u] = NoOne
Locks(r, u) == Unlocked(u) /\ lock' = [lock EXCEPT ![u] = r]
Unlocks(u) == lock' = [lock EXCEPT ![u] = NoOne]

-----------------------------------------------------------------------------
Init ==
  /\ users = [u \in Users |->
                [role |-> IF u \in InitialRoots THEN "root" ELSE "admin", active |-> TRUE]]
  /\ sessions = <<>>
  /\ lock = [u \in Users |-> NoOne]
  /\ req = [r \in Requests |-> Idle]

-----------------------------------------------------------------------------
(* Signing in                                                              *)

\* checkLoginPassword: the row is read with a plain SELECT; comparing the password
\* (and the second factor of a two-step sign-in) takes its time after that.
CheckLoginPassword(r, u) ==
  /\ users[u].active
  /\ Takes(r, [pc |-> "open", user |-> u, role |-> users[u].role])
  /\ UNCHANGED <<users, sessions, lock>>

\* createSession: the token carries the role that was read.
CreateSession(r) ==
  /\ At(r, "open")
  /\ Unlocked(req[r].user)
  /\ Len(sessions) < MaxSessions
  /\ sessions' = Append(sessions,
       [user |-> req[r].user, role |-> req[r].role, revoked |-> FALSE, ended |-> 0])
  /\ Ends(r)
  /\ UNCHANGED <<users, lock>>

SignInFails(r) ==
  /\ At(r, "open")
  /\ Ends(r)
  /\ UNCHANGED <<users, sessions, lock>>

-----------------------------------------------------------------------------
(* Changing an account                                                     *)

\* requireRole('root') and the guard against turning oneself off.
UpdateUser(r, s, u, change) ==
  /\ Validated(s)
  /\ sessions[s].role = "root"
  /\ ~(u = sessions[s].user /\ LosesRoot("root", change))
  /\ Takes(r, [pc |-> "lock", caller |-> s, user |-> u, change |-> change])
  /\ UNCHANGED <<users, sessions, lock>>

\* Only a change that takes a root away asks whether another one is left.
Reading(r, u) ==
  [pc |-> IF LosesRoot(users[u].role, req[r].change) THEN "count" ELSE "write",
   caller |-> req[r].caller, user |-> u, change |-> req[r].change, before |-> users[u].role]

ReadUnlocked(r) ==
  /\ At(r, "lock")
  /\ req' = [req EXCEPT ![r] = Reading(r, req[r].user)]
  /\ UNCHANGED <<users, sessions, lock>>

ReadUnrecorded(r) ==
  /\ At(r, "lock")
  /\ Locks(r, req[r].user)
  /\ Goes(r, IF LosesRoot(users[req[r].user].role, req[r].change) THEN "count" ELSE "write")
  /\ UNCHANGED <<users, sessions>>

\* SELECT role ... FOR UPDATE opens the transaction.
ReadForUpdate(r) ==
  /\ At(r, "lock")
  /\ Locks(r, req[r].user)
  /\ req' = [req EXCEPT ![r] = Reading(r, req[r].user)]
  /\ UNCHANGED <<users, sessions>>

OtherRoots(r) == ActiveRoots \ {req[r].user}

ReturnsLocked(r) ==
  /\ At(r, "count")
  /\ \/ OtherRoots(r) # {} /\ Goes(r, "write")
     \/ OtherRoots(r) = {} /\ Ends(r)
  /\ UNCHANGED <<users, sessions, lock>>

\* COUNT of the other active roots; none left rolls the transaction back.
CountRoots(r) ==
  /\ At(r, "count")
  /\ \/ OtherRoots(r) # {} /\ Goes(r, "write") /\ UNCHANGED lock
     \/ OtherRoots(r) = {} /\ Ends(r) /\ Unlocks(req[r].user)
  /\ UNCHANGED <<users, sessions>>

EndsSessions(change, before) ==
  \/ change \in {"deactivate", "reset password"}
  \/ change = "promote" /\ before # "root"
  \/ change = "demote" /\ before = "root"

\* The UPDATE, the revocation that follows from it, and the commit.
WriteUser(r) ==
  LET u == req[r].user
      change == req[r].change
  IN /\ At(r, "write")
     /\ users' = [users EXCEPT ![u] = Changed(users[u], change)]
     /\ sessions' = IF EndsSessions(change, req[r].before) THEN Revoked(LiveOf(u)) ELSE sessions
     /\ Unlocks(u)
     /\ Ends(r)

\* changePassword: one's own, after bcrypt has compared the old one.
ChangePassword(r, s) ==
  /\ Validated(s)
  /\ Takes(r, [pc |-> "change", caller |-> s])
  /\ UNCHANGED <<users, sessions, lock>>

\* Every other session of the account ends with the write, in one transaction.
WritePassword(r) ==
  LET u == sessions[req[r].caller].user
  IN /\ At(r, "change")
     /\ Unlocked(u)
     /\ sessions' = Revoked(LiveOf(u) \ {req[r].caller})
     /\ Ends(r)
     /\ UNCHANGED <<users, lock>>

-----------------------------------------------------------------------------
(* Ending sessions                                                         *)

\* revokeSession reads the row: whose it is, and whether it is live.
ReadSession(r, s, t) ==
  /\ Validated(s)
  /\ t \in Live
  /\ sessions[t].user = sessions[s].user \/ sessions[s].role = "root"
  /\ Takes(r, [pc |-> "revoke", caller |-> s, session |-> t])
  /\ UNCHANGED <<users, sessions, lock>>

RevokeOnItsWord(r) ==
  /\ At(r, "revoke")
  /\ sessions' = RevokedUnasked({req[r].session})
  /\ Ends(r)
  /\ UNCHANGED <<users, lock>>

\* Whoever still finds it live has ended it.
RevokeSession(r) ==
  /\ At(r, "revoke")
  /\ sessions' = Revoked({req[r].session})
  /\ Ends(r)
  /\ UNCHANGED <<users, lock>>

\* revokeOtherSessions of oneself, or of another account by root.  The request
\* was admitted before the statement runs.
AskRevokeOthers(r, s, u) ==
  /\ Validated(s)
  /\ u = sessions[s].user \/ sessions[s].role = "root"
  /\ Takes(r, [pc |-> "others", caller |-> s, user |-> u])
  /\ UNCHANGED <<users, sessions, lock>>

RevokeOtherSessions(r) ==
  /\ At(r, "others")
  /\ sessions' = Revoked(LiveOf(req[r].user) \ {req[r].caller})
  /\ Ends(r)
  /\ UNCHANGED <<users, lock>>

-----------------------------------------------------------------------------
Arrives(r) ==
  \/ \E u \in Users : CheckLoginPassword(r, u)
  \/ \E s \in DOMAIN sessions :
       \/ \E u \in Users, change \in Changes : UpdateUser(r, s, u, change)
       \/ ChangePassword(r, s)
       \/ \E t \in DOMAIN sessions : ReadSession(r, s, t)
       \/ \E u \in Users : AskRevokeOthers(r, s, u)

Proceeds(r) ==
  \/ CreateSession(r) \/ SignInFails(r)
  \/ ReadForUpdate(r) \/ CountRoots(r) \/ WriteUser(r)
  \/ WritePassword(r)
  \/ RevokeSession(r) \/ RevokeOtherSessions(r)

Next == \E r \in Requests : Arrives(r) \/ Proceeds(r)

\* Every await returns, and PostgreSQL grants a row lock in the order of asking.
Fairness == \A r \in Requests : SF_vars(Proceeds(r))

Spec == Init /\ [][Next]_vars
FairSpec == Spec /\ Fairness

-----------------------------------------------------------------------------
(* Properties                                                              *)

Ids == 1 .. MaxSessions

ReqType ==
  [pc : {"idle"}]
  \union [pc : {"open"}, user : Users, role : Roles]
  \union [pc : {"lock"}, caller : Ids, user : Users, change : Changes]
  \union [pc : {"count", "write"}, caller : Ids, user : Users, change : Changes, before : Roles]
  \union [pc : {"change"}, caller : Ids]
  \union [pc : {"revoke"}, caller : Ids, session : Ids]
  \union [pc : {"others"}, caller : Ids, user : Users]

\* Every variable has its type, and a request carries what its step needs.
TypeOK ==
  /\ users \in [Users -> [role : Roles, active : BOOLEAN]]
  /\ sessions \in Seq([user : Users, role : Roles, revoked : BOOLEAN, ended : Nat])
  /\ Len(sessions) <= MaxSessions
  /\ lock \in [Users -> Requests \union {NoOne}]
  /\ req \in [Requests -> ReqType]

\* The decision to end an account's sessions is taken on the role that was read:
\* it is still the role when the change is written.
DecidedOnWhatIs ==
  \A r \in Requests : req[r].pc \in {"count", "write"} =>
    /\ lock[req[r].user] = r
    /\ users[req[r].user].role = req[r].before

\* "Whether IT was the one that changed the row": however calls that end a
\* session compete, exactly one of them is told that it did.
EndedOnce == \A s \in DOMAIN sessions : sessions[s].ended = IF sessions[s].revoked THEN 1 ELSE 0

\* A change of role and a deactivation take every session of the account with
\* them, those opened while updateUser was at work included.
ChangeEndsSessions ==
  [][\A u \in Users :
       (users'[u].role # users[u].role \/ (users[u].active /\ ~users'[u].active)) =>
         \A s \in DOMAIN sessions' : sessions'[s].user = u => sessions'[s].revoked]_vars

\* Every request ends: no transaction leaves a row locked behind.
RequestsEnd == \A r \in Requests : ~At(r, "idle") ~> At(r, "idle")

\* "Two concurrent requests cannot each see a second root and both proceed": the
\* platform always has an account that can administer it.
SomeRootRemains == ActiveRoots # {}

\* "Revoking makes them sign in again and pick up the role they now have": every live
\* session was opened with the role its account has.
SessionsCarryTheRole == \A s \in Live : sessions[s].role = users[sessions[s].user].role
=============================================================================
