---------------------------- MODULE Delegations ----------------------------
(***************************************************************************)
(* Out-of-office substitutes (services/delegations.ts): admins hand their  *)
(* approval authority to one another for a period and take it back.        *)
(* createDelegation locks the rows of both admins, asks three questions    *)
(* about overlapping delegations and inserts; each is a step of its own.   *)
(*                                                                         *)
(* The SELECT ... FOR UPDATE names both ids and no ORDER BY, so either row *)
(* may be locked first, and PostgreSQL ends one of any transactions that   *)
(* wait for each other in a circle.                                        *)
(***************************************************************************)
EXTENDS Naturals, Sequences, FiniteSets

CONSTANTS
  Admins,        \* the active accounts with the role 'admin'
  Requests,      \* requests that may be served at the same time
  NoOne,         \* no request holds the lock of a row
  LastDay,       \* the days that may be asked for are 1 .. LastDay, none is past
  MaxDelegations \* delegations ever created; bounds the model

ASSUME DelegationsAssumption ==
  /\ IsFiniteSet(Requests) /\ NoOne \notin Requests
  /\ {LastDay, MaxDelegations} \subseteq Nat

VARIABLES
  delegations, \* approval_delegations
  lock,        \* the transaction that holds a users row FOR UPDATE
  req          \* the requests being served

vars == <<delegations, lock, req>>

-----------------------------------------------------------------------------
Days == 1 .. LastDay
Periods == {p \in [from : Days, to : Days] : p.from <= p.to}

Idle == [pc |-> "idle"]
At(r, pc) == req[r].pc = pc
Goes(r, pc) == req' = [req EXCEPT ![r].pc = pc]

Both(r) == {req[r].giver, req[r].taker}
Held(r) == {a \in Admins : lock[a] = r}

Ends(r) ==
  /\ req' = [req EXCEPT ![r] = Idle]
  /\ lock' = [a \in Admins |-> IF a \in Held(r) THEN NoOne ELSE lock[a]]

\* Both periods are inclusive at both ends.
Overlap(p, q) == p.from <= q.to /\ p.to >= q.from

\* The delegations in force on a day of the period.
Over(period) ==
  {d \in DOMAIN delegations : ~delegations[d].revoked /\ Overlap(delegations[d].period, period)}

-----------------------------------------------------------------------------
Init ==
  /\ delegations = <<>>
  /\ lock = [a \in Admins |-> NoOne]
  /\ req = [r \in Requests |-> Idle]

NominateUnordered(r, giver, taker, period) ==
  /\ At(r, "idle")
  /\ giver # taker
  /\ req' = [req EXCEPT ![r] = [pc |-> "lock", giver |-> giver, taker |-> taker,
                               period |-> [from |-> period.to, to |-> period.from]]]
  /\ UNCHANGED <<delegations, lock>>

\* createDelegation up to its transaction; the substitute is read outside it.
Nominate(r, giver, taker, period) ==
  /\ At(r, "idle")
  /\ giver # taker
  /\ req' = [req EXCEPT ![r] =
       [pc |-> "lock", giver |-> giver, taker |-> taker, period |-> period]]
  /\ UNCHANGED <<delegations, lock>>

LockGiver(r, a) ==
  /\ At(r, "lock")
  /\ a = req[r].giver
  /\ lock[a] = NoOne
  /\ lock' = [lock EXCEPT ![a] = r]
  /\ Goes(r, "giver")
  /\ UNCHANGED delegations

LockUser(r, a) ==
  /\ At(r, "lock")
  /\ a \in Both(r) /\ lock[a] = NoOne
  /\ lock' = [lock EXCEPT ![a] = r]
  /\ Goes(r, IF Both(r) \ {a} \subseteq Held(r) THEN "giver" ELSE "lock")
  /\ UNCHANGED delegations

WaitsFor(r, q) == At(r, "lock") /\ \E a \in Both(r) : lock[a] = q /\ q # r

\* Locks of the process instead, where nobody looks for a circle.
NeverFound(r) == FALSE

\* r is one of some transactions that each hold what another waits for.
Deadlocked(r) ==
  \E circle \in SUBSET Requests :
    /\ r \in circle
    /\ \A q \in circle : (\E p \in circle : WaitsFor(q, p)) /\ (\E p \in circle : WaitsFor(p, q))

\* deadlock_timeout: one of them is rolled back.
DeadlockDetected(r) ==
  /\ Deadlocked(r)
  /\ Ends(r)
  /\ UNCHANGED delegations

\* The three questions, in the order of the code: does the giver delegate
\* already, do they hold somebody's authority, has the taker given theirs away?
Asks(r, pc, found, next) ==
  /\ At(r, pc)
  /\ IF found = {} THEN Goes(r, next) /\ UNCHANGED lock ELSE Ends(r)
  /\ UNCHANGED delegations

MineOnTheFirstDay(r) ==
  LET first == [from |-> req[r].period.from, to |-> req[r].period.from]
  IN Asks(r, "giver", {d \in Over(first) : delegations[d].giver = req[r].giver}, "holder")

MineAlready(r) ==
  Asks(r, "giver", {d \in Over(req[r].period) : delegations[d].giver = req[r].giver}, "holder")

HeldByMe(r) ==
  Asks(r, "holder", {d \in Over(req[r].period) : delegations[d].taker = req[r].giver}, "taker")

SubstituteDelegatedAway(r) ==
  Asks(r, "taker", {d \in Over(req[r].period) : delegations[d].giver = req[r].taker}, "insert")

\* The insert, the audit entry and the commit.
InsertDelegation(r) ==
  /\ At(r, "insert")
  /\ Len(delegations) < MaxDelegations
  /\ delegations' = Append(delegations,
       [giver |-> req[r].giver, taker |-> req[r].taker, period |-> req[r].period, revoked |-> FALSE])
  /\ Ends(r)

\* A statement of the transaction fails and it is rolled back.
Abort(r) ==
  /\ At(r, "insert")
  /\ Ends(r)
  /\ UNCHANGED delegations

\* revokeDelegation reads the row ...
ReadDelegation(r, d) ==
  /\ At(r, "idle")
  /\ ~delegations[d].revoked
  /\ req' = [req EXCEPT ![r] = [pc |-> "revoke", delegation |-> d]]
  /\ UNCHANGED <<delegations, lock>>

\* ... and the UPDATE finds it unless another call has revoked it meanwhile.
RevokeDelegation(r) ==
  LET d == req[r].delegation
  IN /\ At(r, "revoke")
     /\ delegations' = [delegations EXCEPT ![d].revoked = TRUE]
     /\ Ends(r)

-----------------------------------------------------------------------------
Arrives(r) ==
  \/ \E giver, taker \in Admins, period \in Periods : Nominate(r, giver, taker, period)
  \/ \E d \in DOMAIN delegations : ReadDelegation(r, d)

Proceeds(r) ==
  \/ \E a \in Admins : LockUser(r, a)
  \/ DeadlockDetected(r)
  \/ MineAlready(r) \/ HeldByMe(r) \/ SubstituteDelegatedAway(r)
  \/ InsertDelegation(r) \/ Abort(r) \/ RevokeDelegation(r)

Next == \E r \in Requests : Arrives(r) \/ Proceeds(r)

Spec == Init /\ [][Next]_vars

-----------------------------------------------------------------------------
(* Properties                                                              *)

ReqType ==
  [pc : {"idle"}]
  \union [pc : {"lock", "giver", "holder", "taker", "insert"},
          giver : Admins, taker : Admins, period : Periods]
  \union [pc : {"revoke"}, delegation : 1 .. MaxDelegations]

\* Every variable has its type.
TypeOK ==
  /\ delegations \in
       Seq([giver : Admins, taker : Admins, period : Periods, revoked : BOOLEAN])
  /\ Len(delegations) <= MaxDelegations
  /\ lock \in [Admins -> Requests \union {NoOne}]
  /\ req \in [Requests -> ReqType]

InForce == {d \in DOMAIN delegations : ~delegations[d].revoked}

\* "Authority never travels more than one hop": on no day does an admin hold
\* somebody's authority and give their own away, whatever is created at the same
\* moment and from whichever end.
OneHop ==
  \A d, e \in InForce :
    Overlap(delegations[d].period, delegations[e].period) =>
      delegations[d].taker # delegations[e].giver

\* One delegation per delegator, over the whole of its period.
OnePerGiver ==
  \A d, e \in InForce :
    d # e /\ Overlap(delegations[d].period, delegations[e].period) =>
      delegations[d].giver # delegations[e].giver

\* Calls that lock the two rows in either order may wait for one another, and none
\* of them waits for ever: of any calls that wait, and that no deadlock will end, one
\* waits for a call of the others that is still at work.
Waits(r) ==
  At(r, "lock") /\ (\A a \in Both(r) : lock[a] # NoOne) /\ ~Deadlocked(r)
NoStandstill ==
  \A S \in SUBSET Requests :
    (S # {} /\ \A r \in S : Waits(r)) =>
      \E r \in S, q \in Requests \ S : WaitsFor(r, q) /\ ~At(q, "idle")
=============================================================================
