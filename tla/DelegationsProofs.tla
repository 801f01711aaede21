-------------------------- MODULE DelegationsProofs --------------------------
(***************************************************************************)
(* The properties of Delegations, proved for any number of administrators, *)
(* concurrent requests, days and delegations: types, that no calls wait    *)
(* for one another for ever, and that authority travels one hop and once.  *)
(***************************************************************************)
EXTENDS Delegations, FiniteSetTheorems, SequenceTheorems, WellFoundedInduction, TLAPS

Asking == {"lock", "giver", "holder", "taker", "insert"}

-----------------------------------------------------------------------------
(* Types                                                                   *)

Delegation == [giver : Admins, taker : Admins, period : Periods, revoked : BOOLEAN]

\* t is s, but for rows that are revoked in t and were not in s.
SameButRevoked(s, t) ==
  /\ t \in Seq(Delegation) /\ Len(t) = Len(s)
  /\ \A e \in DOMAIN s : /\ t[e].giver = s[e].giver
                         /\ t[e].taker = s[e].taker
                         /\ t[e].period = s[e].period
                         /\ s[e].revoked => t[e].revoked

\* What a request carries at each step.
LEMMA Carries ==
  ASSUME TypeOK, NEW r \in Requests
  PROVE  /\ req[r].pc \in Asking =>
              /\ req[r].giver \in Admins /\ req[r].taker \in Admins
              /\ req[r].period \in Periods
              /\ \A pc \in Asking : [req[r] EXCEPT !.pc = pc] \in ReqType
         /\ req[r].pc = "revoke" => req[r].delegation \in 1 .. MaxDelegations
         /\ req[r].pc \in Asking \union {"idle", "revoke"}
<1>1. req[r] \in ReqType
  BY DEF TypeOK
<1> QED
  BY <1>1 DEF ReqType, Asking

LEMMA IdleTyped == Idle \in ReqType
  BY DEF Idle, ReqType

LEMMA EndsTyped ==
  ASSUME TypeOK, NEW r \in Requests, Ends(r)
  PROVE  /\ lock' \in [Admins -> Requests \union {NoOne}]
         /\ req' \in [Requests -> ReqType]
  BY IdleTyped DEF TypeOK, Ends

LEMMA GoesTyped ==
  ASSUME TypeOK, NEW r \in Requests, NEW pc \in Asking, req[r].pc \in Asking, Goes(r, pc)
  PROVE  req' \in [Requests -> ReqType]
<1>1. [req[r] EXCEPT !.pc = pc] \in ReqType
  BY Carries
<1> QED
  BY <1>1 DEF TypeOK, Goes

\* Going on to the next question changes nothing of the request but its step.
LEMMA GoesMoves ==
  ASSUME TypeOK, NEW r \in Requests, NEW pc \in Asking, req[r].pc \in Asking, Goes(r, pc)
  PROVE  /\ \A q \in Requests \ {r} : req'[q] = req[q]
         /\ req'[r].pc = pc /\ req'[r].giver = req[r].giver
         /\ req'[r].taker = req[r].taker /\ req'[r].period = req[r].period
<1>1. /\ \A q \in Requests \ {r} : req'[q] = req[q]
      /\ req'[r] = [req[r] EXCEPT !.pc = pc]
  BY DEF Goes, TypeOK
<1>2. req[r] \in [pc : Asking, giver : Admins, taker : Admins, period : Periods]
  BY DEF TypeOK, ReqType, Asking
<1> QED
  BY <1>1, <1>2

\* Replacing one row by another with the same parties and period.
LEMMA RowReplaced ==
  ASSUME NEW s \in Seq(Delegation), NEW d \in 1 .. Len(s), NEW row \in Delegation,
         row.giver = s[d].giver, row.taker = s[d].taker, row.period = s[d].period,
         row.revoked,
         NEW t, t = [s EXCEPT ![d] = row]
  PROVE  SameButRevoked(s, t)
<1>1. t \in Seq(Delegation) /\ Len(t) = Len(s)
  BY ExceptSeq
<1>2. DOMAIN s = 1 .. Len(s) /\ \A e \in 1 .. Len(s) : t[e] = IF e = d THEN row ELSE s[e]
  BY ExceptSeq
<1> QED
  BY <1>1, <1>2 DEF SameButRevoked

\* A revocation changes one row, and nothing of it but the flag.
LEMMA RevokedRow ==
  ASSUME TypeOK, NEW d, delegations' = [delegations EXCEPT ![d].revoked = TRUE]
  PROVE  SameButRevoked(delegations, delegations')
<1> DEFINE row == [delegations[d] EXCEPT !.revoked = TRUE]
<1>1. delegations \in Seq(Delegation)
  BY DEF TypeOK, Delegation
<1>2. CASE d \in 1 .. Len(delegations)
  <2>1. delegations[d] \in Delegation
    BY <1>1, <1>2
  <2>2. row \in Delegation /\ row.giver = delegations[d].giver
        /\ row.taker = delegations[d].taker /\ row.period = delegations[d].period
        /\ row.revoked
    BY <2>1 DEF Delegation
  <2>3. delegations' = [delegations EXCEPT ![d] = row]
    OBVIOUS
  <2> HIDE DEF row
  <2> QED
    BY <1>1, <1>2, <2>2, <2>3, RowReplaced
<1>3. CASE d \notin 1 .. Len(delegations)
  <2>1. delegations \in [1 .. Len(delegations) -> Delegation]
    BY <1>1
  <2>2. delegations' = delegations
    BY <1>3, <2>1
  <2> QED
    BY <1>1, <2>2 DEF SameButRevoked
<1> QED
  BY <1>2, <1>3

LEMMA TypeStep == TypeOK /\ [Next]_vars => TypeOK'
<1> SUFFICES ASSUME TypeOK, [Next]_vars PROVE TypeOK'
  OBVIOUS
<1>1. CASE UNCHANGED vars
  BY <1>1 DEF TypeOK, vars
<1>2. ASSUME NEW r \in Requests, NEW giver \in Admins, NEW taker \in Admins,
             NEW period \in Periods, Nominate(r, giver, taker, period)
      PROVE  TypeOK'
  <2>1. [pc |-> "lock", giver |-> giver, taker |-> taker, period |-> period] \in ReqType
    BY DEF ReqType
  <2> QED
    BY <1>2, <2>1 DEF Nominate, TypeOK
<1>3. ASSUME NEW r \in Requests, NEW d \in DOMAIN delegations, ReadDelegation(r, d)
      PROVE  TypeOK'
  <2>1. d \in 1 .. MaxDelegations
    BY DelegationsAssumption DEF TypeOK
  <2>2. [pc |-> "revoke", delegation |-> d] \in ReqType
    BY <2>1 DEF ReqType
  <2> QED
    BY <1>3, <2>2 DEF ReadDelegation, TypeOK
<1>4. ASSUME NEW r \in Requests, NEW a \in Admins, LockUser(r, a)
      PROVE  TypeOK'
  <2>1. req' \in [Requests -> ReqType]
    BY <1>4, GoesTyped DEF LockUser, At, Asking
  <2> QED
    BY <1>4, <2>1 DEF LockUser, TypeOK
<1>5. ASSUME NEW r \in Requests, DeadlockDetected(r) \/ Abort(r)
      PROVE  TypeOK'
  BY <1>5, EndsTyped DEF DeadlockDetected, Abort, TypeOK
<1>6. ASSUME NEW r \in Requests, MineAlready(r) \/ HeldByMe(r) \/ SubstituteDelegatedAway(r)
      PROVE  TypeOK'
  <2>1. PICK pc \in Asking : (Goes(r, pc) /\ UNCHANGED lock) \/ Ends(r)
    BY <1>6 DEF MineAlready, HeldByMe, SubstituteDelegatedAway, Asks, Asking
  <2>2. req[r].pc \in Asking /\ UNCHANGED delegations
    BY <1>6 DEF MineAlready, HeldByMe, SubstituteDelegatedAway, Asks, Asking, At
  <2> QED
    BY <2>1, <2>2, EndsTyped, GoesTyped DEF TypeOK
<1>7. ASSUME NEW r \in Requests, InsertDelegation(r)
      PROVE  TypeOK'
  <2>1. [giver |-> req[r].giver, taker |-> req[r].taker, period |-> req[r].period,
         revoked |-> FALSE] \in Delegation
    BY <1>7, Carries DEF InsertDelegation, At, Asking, Delegation
  <2>2. delegations' \in Seq(Delegation) /\ Len(delegations') <= MaxDelegations
    BY <1>7, <2>1, DelegationsAssumption DEF InsertDelegation, TypeOK, Delegation
  <2> QED
    BY <1>7, <2>2, EndsTyped DEF InsertDelegation, TypeOK, Delegation
<1>8. ASSUME NEW r \in Requests, RevokeDelegation(r)
      PROVE  TypeOK'
  <2>1. delegations' \in Seq(Delegation) /\ Len(delegations') = Len(delegations)
    BY <1>8, RevokedRow DEF RevokeDelegation, SameButRevoked
  <2> QED
    BY <1>8, <2>1, EndsTyped DEF RevokeDelegation, TypeOK, Delegation
<1> QED
  BY <1>1, <1>2, <1>3, <1>4, <1>5, <1>6, <1>7, <1>8 DEF Next, Arrives, Proceeds

\* Every delegation, lock and request has its type, whoever nominates whom.
THEOREM TypeCorrect == Spec => []TypeOK
<1>1. Init => TypeOK
  BY IdleTyped, DelegationsAssumption DEF Init, TypeOK
<1> QED
  BY <1>1, TypeStep, PTL DEF Spec

-----------------------------------------------------------------------------
(* Locks                                                                   *)

\* A row is locked only for a call that is at work on it, and from its first
\* question to its insert a call holds both rows, in whichever order it got them.
LocksAreHeld ==
  /\ \A a \in Admins : lock[a] # NoOne =>
       req[lock[a]].pc \notin {"idle", "revoke"} /\ a \in Both(lock[a])
  /\ \A r \in Requests :
       req[r].pc \in {"giver", "holder", "taker", "insert"} => Both(r) \subseteq Held(r)

LEMMA EndsKeepsLocks ==
  ASSUME TypeOK, LocksAreHeld, NEW r \in Requests, Ends(r)
  PROVE  LocksAreHeld'
<1>1. /\ \A q \in Requests \ {r} : req'[q] = req[q]
      /\ req'[r] = Idle
      /\ \A a \in Admins : lock'[a] = IF lock[a] = r THEN NoOne ELSE lock[a]
  BY DEF Ends, Held, TypeOK
<1>2. r # NoOne
  BY DelegationsAssumption
<1>3. ASSUME NEW a \in Admins, lock'[a] # NoOne
      PROVE  /\ req'[lock'[a]].pc \notin {"idle", "revoke"}
             /\ a \in {req'[lock'[a]].giver, req'[lock'[a]].taker}
  BY <1>1, <1>3 DEF LocksAreHeld, Both, TypeOK
<1>4. ASSUME NEW q \in Requests, req'[q].pc \in {"giver", "holder", "taker", "insert"}
      PROVE  \A a \in {req'[q].giver, req'[q].taker} : a \in Admins /\ lock'[a] = q
  <2>1. q # r
    BY <1>1, <1>4 DEF Idle
  <2> QED
    BY <1>1, <1>4, <2>1 DEF LocksAreHeld, Both, Held
<1> QED
  BY <1>3, <1>4 DEF LocksAreHeld, Both, Held

LEMMA GoesKeepsLocks ==
  ASSUME TypeOK, LocksAreHeld, NEW r \in Requests, NEW pc \in Asking,
         Goes(r, pc), UNCHANGED lock, req[r].pc \in Asking \ {"lock"}
  PROVE  LocksAreHeld'
<1>1. \A q \in Requests \ {r} : req'[q] = req[q]
  BY GoesMoves
<1>2. req'[r].pc = pc /\ req'[r].giver = req[r].giver /\ req'[r].taker = req[r].taker
  BY GoesMoves
<1>3. ASSUME NEW a \in Admins, lock'[a] # NoOne
      PROVE  /\ req'[lock'[a]].pc \notin {"idle", "revoke"}
             /\ a \in {req'[lock'[a]].giver, req'[lock'[a]].taker}
  BY <1>1, <1>2, <1>3 DEF LocksAreHeld, Both, TypeOK, Asking
<1>4. ASSUME NEW q \in Requests, req'[q].pc \in {"giver", "holder", "taker", "insert"}
      PROVE  \A a \in {req'[q].giver, req'[q].taker} : a \in Admins /\ lock'[a] = q
  <2>1. CASE q = r
    <3>1. req[r].pc \in {"giver", "holder", "taker", "insert"}
      BY DEF Asking
    <3> QED
      BY <1>2, <2>1, <3>1 DEF LocksAreHeld, Both, Held
  <2>2. CASE q # r
    BY <1>1, <1>4, <2>2 DEF LocksAreHeld, Both, Held
  <2> QED
    BY <2>1, <2>2
<1> QED
  BY <1>3, <1>4 DEF LocksAreHeld, Both, Held

LEMMA LocksStep == TypeOK /\ LocksAreHeld /\ [Next]_vars => LocksAreHeld'
<1> SUFFICES ASSUME TypeOK, LocksAreHeld, [Next]_vars PROVE LocksAreHeld'
  OBVIOUS
<1>1. CASE UNCHANGED vars
  BY <1>1 DEF LocksAreHeld, Both, Held, vars
<1>2. ASSUME NEW r \in Requests, Arrives(r)
      PROVE  LocksAreHeld'
  <2>1. /\ \A q \in Requests \ {r} : req'[q] = req[q]
        /\ req[r].pc = "idle" /\ req'[r].pc \in {"lock", "revoke"}
        /\ lock' = lock
    BY <1>2 DEF Arrives, Nominate, ReadDelegation, At, TypeOK
  <2>2. ASSUME NEW a \in Admins, lock'[a] # NoOne
        PROVE  /\ req'[lock'[a]].pc \notin {"idle", "revoke"}
               /\ a \in {req'[lock'[a]].giver, req'[lock'[a]].taker}
    BY <2>1, <2>2 DEF LocksAreHeld, Both, TypeOK
  <2>3. ASSUME NEW q \in Requests, req'[q].pc \in {"giver", "holder", "taker", "insert"}
        PROVE  \A a \in {req'[q].giver, req'[q].taker} : a \in Admins /\ lock'[a] = q
    BY <2>1, <2>3 DEF LocksAreHeld, Both, Held
  <2> QED
    BY <2>2, <2>3 DEF LocksAreHeld, Both, Held
<1>3. ASSUME NEW r \in Requests, NEW a \in Admins, LockUser(r, a)
      PROVE  LocksAreHeld'
  <2>1. /\ \A q \in Requests \ {r} : req'[q] = req[q]
        /\ req'[r].pc \in {"giver", "lock"}
        /\ req'[r].pc = "giver" => Both(r) \ {a} \subseteq Held(r)
        /\ req'[r].giver = req[r].giver /\ req'[r].taker = req[r].taker
    BY <1>3, Carries DEF LockUser, Goes, TypeOK, At, Asking
  <2>2. /\ lock'[a] = r /\ lock[a] = NoOne /\ a \in Both(r)
        /\ \A b \in Admins \ {a} : lock'[b] = lock[b]
    BY <1>3 DEF LockUser, TypeOK
  <2>3. req[r].pc = "lock"
    BY <1>3 DEF LockUser, At
  <2>4. ASSUME NEW b \in Admins, lock'[b] # NoOne
        PROVE  /\ req'[lock'[b]].pc \notin {"idle", "revoke"}
               /\ b \in {req'[lock'[b]].giver, req'[lock'[b]].taker}
    BY <2>1, <2>2, <2>4 DEF LocksAreHeld, Both, TypeOK
  <2>5. ASSUME NEW q \in Requests, req'[q].pc \in {"giver", "holder", "taker", "insert"}
        PROVE  \A b \in {req'[q].giver, req'[q].taker} : b \in Admins /\ lock'[b] = q
    <3>1. CASE q = r
      BY <2>1, <2>2, <2>5, <3>1 DEF Both, Held
    <3>2. CASE q # r
      <4>1. \A b \in {req[q].giver, req[q].taker} : b \in Admins /\ lock[b] = q
        BY <2>1, <2>5, <3>2 DEF LocksAreHeld, Both, Held
      <4>2. q # NoOne
        BY DelegationsAssumption
      <4> QED
        BY <2>1, <2>2, <3>2, <4>1, <4>2
    <3> QED
      BY <3>1, <3>2
  <2> QED
    BY <2>4, <2>5 DEF LocksAreHeld, Both, Held
<1>4. ASSUME NEW r \in Requests,
             MineAlready(r) \/ HeldByMe(r) \/ SubstituteDelegatedAway(r)
      PROVE  LocksAreHeld'
  <2>1. PICK pc \in Asking : (Goes(r, pc) /\ UNCHANGED lock) \/ Ends(r)
    BY <1>4 DEF MineAlready, HeldByMe, SubstituteDelegatedAway, Asks, Asking
  <2>2. req[r].pc \in Asking \ {"lock"}
    BY <1>4 DEF MineAlready, HeldByMe, SubstituteDelegatedAway, Asks, Asking, At
  <2> QED
    BY <2>1, <2>2, EndsKeepsLocks, GoesKeepsLocks
<1>5. ASSUME NEW r \in Requests,
             DeadlockDetected(r) \/ InsertDelegation(r) \/ Abort(r) \/ RevokeDelegation(r)
      PROVE  LocksAreHeld'
  BY <1>5, EndsKeepsLocks DEF DeadlockDetected, InsertDelegation, Abort, RevokeDelegation
<1> QED
  BY <1>1, <1>2, <1>3, <1>4, <1>5 DEF Next, Proceeds

LEMMA LocksHeld == Spec => []LocksAreHeld
<1>1. Init => LocksAreHeld
  BY DEF Init, LocksAreHeld, Idle
<1> QED
  BY <1>1, LocksStep, TypeCorrect, PTL DEF Spec

-----------------------------------------------------------------------------
(* Waiting                                                                 *)

\* Who has yet to lock a row lacks one of them.
Lacking == \A r \in Requests : At(r, "lock") => \E a \in Both(r) : lock[a] # r

LEMMA LackingStep == TypeOK /\ LocksAreHeld /\ Lacking /\ [Next]_vars => Lacking'
<1> SUFFICES ASSUME TypeOK, LocksAreHeld, Lacking, [Next]_vars PROVE Lacking'
  OBVIOUS
<1>1. CASE UNCHANGED vars
  BY <1>1 DEF Lacking, At, Both, vars
<1>2. ASSUME NEW r \in Requests, Arrives(r)
      PROVE  Lacking'
  <2>1. /\ \A q \in Requests \ {r} : req'[q] = req[q]
        /\ req[r].pc = "idle" /\ lock' = lock
        /\ req'[r].pc = "lock" => req'[r].giver \in Admins
    BY <1>2 DEF Arrives, Nominate, ReadDelegation, At, TypeOK
  <2>2. \A a \in Admins : lock[a] # r
    BY <2>1, DelegationsAssumption DEF LocksAreHeld
  <2>3. req'[r].pc = "lock" => lock'[req'[r].giver] # r
    BY <2>1, <2>2
  <2>4. ASSUME NEW q \in Requests \ {r}, req'[q].pc = "lock"
        PROVE  \E a \in {req'[q].giver, req'[q].taker} : lock'[a] # q
    BY <2>1, <2>4 DEF Lacking, At, Both
  <2> QED
    BY <2>3, <2>4 DEF Lacking, At, Both
<1>3. ASSUME NEW r \in Requests, NEW a \in Admins, LockUser(r, a)
      PROVE  Lacking'
  <2>1. /\ \A q \in Requests \ {r} : req'[q] = req[q]
        /\ req'[r].pc = IF Both(r) \ {a} \subseteq Held(r) THEN "giver" ELSE "lock"
        /\ req'[r].giver = req[r].giver /\ req'[r].taker = req[r].taker
        /\ Both(r) \subseteq Admins
    <3> DEFINE pc == IF Both(r) \ {a} \subseteq Held(r) THEN "giver" ELSE "lock"
    <3>1. req[r].pc \in Asking /\ pc \in Asking /\ Goes(r, pc)
      BY <1>3 DEF LockUser, At, Asking
    <3>2. Both(r) \subseteq Admins
      BY <3>1, Carries DEF Both
    <3> QED
      BY <3>1, <3>2, GoesMoves
  <2>2. lock'[a] = r /\ \A b \in Admins \ {a} : lock'[b] = lock[b]
    BY <1>3 DEF LockUser, TypeOK
  <2>3. ASSUME req'[r].pc = "lock"
        PROVE  \E b \in {req'[r].giver, req'[r].taker} : lock'[b] # r
    BY <2>1, <2>2, <2>3 DEF Both, Held
  <2>4. ASSUME NEW q \in Requests \ {r}, req'[q].pc = "lock"
        PROVE  \E b \in {req'[q].giver, req'[q].taker} : lock'[b] # q
    <3>1. At(q, "lock") /\ req'[q] = req[q] /\ Both(q) \subseteq Admins
      BY <2>1, <2>4, Carries DEF At, Both, Asking
    <3>2. PICK b \in Both(q) : lock[b] # q
      BY <3>1 DEF Lacking
    <3>3. lock'[b] # q
      BY <2>2, <3>1, <3>2
    <3> QED
      BY <3>1, <3>2, <3>3 DEF Both
  <2> QED
    BY <2>3, <2>4 DEF Lacking, At, Both
<1>4. ASSUME NEW r \in Requests, Ends(r)
      PROVE  Lacking'
  <2>1. /\ \A q \in Requests \ {r} : req'[q] = req[q]
        /\ req'[r].pc = "idle"
        /\ \A a \in Admins : lock'[a] = IF lock[a] = r THEN NoOne ELSE lock[a]
    BY <1>4 DEF Ends, Held, Idle, TypeOK
  <2>2. ASSUME NEW q \in Requests \ {r}, req'[q].pc = "lock"
        PROVE  \E b \in {req'[q].giver, req'[q].taker} : lock'[b] # q
    <3>1. At(q, "lock") /\ req'[q] = req[q] /\ Both(q) \subseteq Admins
      BY <2>1, <2>2, Carries DEF At, Both, Asking
    <3>2. PICK b \in Both(q) : lock[b] # q
      BY <3>1 DEF Lacking
    <3>3. lock'[b] # q
      BY <2>1, <3>1, <3>2, DelegationsAssumption
    <3> QED
      BY <3>1, <3>2, <3>3 DEF Both
  <2> QED
    BY <2>1, <2>2 DEF Lacking, At, Both
<1>5. ASSUME NEW r \in Requests,
             MineAlready(r) \/ HeldByMe(r) \/ SubstituteDelegatedAway(r)
      PROVE  Lacking'
  <2>1. PICK pc \in Asking \ {"lock"} : (Goes(r, pc) /\ UNCHANGED lock) \/ Ends(r)
    BY <1>5 DEF MineAlready, HeldByMe, SubstituteDelegatedAway, Asks, Asking
  <2>2. req[r].pc \in Asking
    BY <1>5 DEF MineAlready, HeldByMe, SubstituteDelegatedAway, Asks, Asking, At
  <2>3. CASE Goes(r, pc) /\ UNCHANGED lock
    <3>1. (\A q \in Requests \ {r} : req'[q] = req[q]) /\ req'[r].pc = pc
      BY <2>2, <2>3, GoesMoves
    <3> QED
      BY <2>3, <3>1 DEF Lacking, At, Both
  <2> QED
    BY <1>4, <2>1, <2>3
<1>6. ASSUME NEW r \in Requests,
             DeadlockDetected(r) \/ InsertDelegation(r) \/ Abort(r) \/ RevokeDelegation(r)
      PROVE  Lacking'
  BY <1>4, <1>6 DEF DeadlockDetected, InsertDelegation, Abort, RevokeDelegation
<1> QED
  BY <1>1, <1>2, <1>3, <1>5, <1>6 DEF Next, Proceeds

\* Calls that each wait for one of them.
Closed(S) == S # {} /\ \A r \in S : \E q \in S : WaitsFor(r, q)

\* The smallest of such sets is a circle.
LEMMA ClosedHoldsCircle ==
  ASSUME NEW S \in SUBSET Requests, Closed(S)
  PROVE  \E r \in S : Deadlocked(r)
<1> DEFINE Q == {T \in SUBSET S : Closed(T)}
<1>1. IsFiniteSet(S)
  BY DelegationsAssumption, FS_Subset
<1>2. IsWellFoundedOn(StrictSubsetOrdering(S), SUBSET S)
  BY <1>1, FS_StrictSubsetOrderingWellFounded, FS_FiniteSubsetsOfFinite
<1>3. Q # {} /\ Q \subseteq SUBSET S
  OBVIOUS
<1>4. PICK T \in Q : \A U \in Q : <<U, T>> \notin StrictSubsetOrdering(S)
  BY <1>2, <1>3, WFMin
<1> DEFINE Awaited == {p \in T : \E q \in T : WaitsFor(q, p)}
<1>5. Awaited \in Q
  <2>1. Awaited # {}
    BY <1>4 DEF Closed
  <2>2. \A p \in Awaited : \E q \in Awaited : WaitsFor(p, q)
    BY <1>4 DEF Closed
  <2> QED
    BY <1>4, <2>1, <2>2 DEF Closed
<1>6. Awaited = T
  BY <1>4, <1>5 DEF StrictSubsetOrdering
<1>7. PICK r \in T : TRUE
  BY <1>4 DEF Closed
<1>8. Deadlocked(r)
  <2>1. T \in SUBSET Requests /\ \A q \in T : \E p \in T : WaitsFor(q, p)
    BY <1>4 DEF Closed
  <2>2. \A q \in T : \E p \in T : WaitsFor(p, q)
    BY <1>6
  <2> QED
    BY <1>7, <2>1, <2>2 DEF Deadlocked
<1> QED
  BY <1>4, <1>7, <1>8

\* A row that is waited for is held by a call at work on it.
LEMMA WaitsForSomebody ==
  ASSUME TypeOK, LocksAreHeld, Lacking, NEW r \in Requests, Waits(r)
  PROVE  \E q \in Requests : WaitsFor(r, q) /\ ~At(q, "idle")
<1>1. At(r, "lock") /\ Both(r) \subseteq Admins /\ \A a \in Both(r) : lock[a] # NoOne
  BY Carries DEF Waits, At, Both, Asking
<1>2. PICK a \in Both(r) : lock[a] # r
  BY <1>1 DEF Lacking
<1>3. lock[a] \in Requests /\ req[lock[a]].pc # "idle"
  BY <1>1, <1>2 DEF LocksAreHeld, TypeOK
<1> QED
  BY <1>1, <1>2, <1>3 DEF WaitsFor, At

\* Whatever rows the calls lock first, and however many of them there are, those
\* that wait and are in no circle wait for a call that is at work and does not.
THEOREM NobodyWaitsForEver == Spec => []NoStandstill
<1>1. Init => Lacking
  BY DEF Init, Lacking, At, Idle
<1>2. TypeOK /\ LocksAreHeld /\ Lacking => NoStandstill
  <2> SUFFICES ASSUME TypeOK, LocksAreHeld, Lacking, NEW S \in SUBSET Requests,
                      S # {}, \A r \in S : Waits(r),
                      ~\E r \in S, q \in Requests \ S : WaitsFor(r, q) /\ ~At(q, "idle")
               PROVE  FALSE
    BY DEF NoStandstill
  <2>1. Closed(S)
    BY WaitsForSomebody DEF Closed
  <2> QED
    BY <2>1, ClosedHoldsCircle DEF Waits
<1> QED
  BY <1>1, <1>2, LackingStep, LocksHeld, TypeCorrect, PTL DEF Spec

-----------------------------------------------------------------------------
(* One hop                                                                 *)

\* What a request has asked stays answered: none of the delegations in force on
\* a day of its period is given by its giver,
GiverIsFree(r) ==
  \A d \in InForce : Overlap(delegations[d].period, req[r].period) =>
    delegations[d].giver # req[r].giver
\* held by its giver,
GiverHoldsNone(r) ==
  \A d \in InForce : Overlap(delegations[d].period, req[r].period) =>
    delegations[d].taker # req[r].giver
\* or given by its taker.
TakerIsFree(r) ==
  \A d \in InForce : Overlap(delegations[d].period, req[r].period) =>
    delegations[d].giver # req[r].taker

Answered(r) ==
  /\ req[r].pc \in Asking => req[r].giver # req[r].taker
  /\ req[r].pc \in {"holder", "taker", "insert"} => GiverIsFree(r)
  /\ req[r].pc \in {"taker", "insert"} => GiverHoldsNone(r)
  /\ req[r].pc = "insert" => TakerIsFree(r)

HopInv == (\A r \in Requests : Answered(r)) /\ OneHop /\ OnePerGiver

LEMMA OverlapFacts ==
  ASSUME NEW p \in Periods, NEW q \in Periods
  PROVE  Overlap(p, p) /\ (Overlap(p, q) <=> Overlap(q, p))
<1>1. \A x \in Periods : x.from \in Nat /\ x.to \in Nat /\ x.from <= x.to
  BY DelegationsAssumption DEF Periods, Days
<1> QED
  BY <1>1 DEF Overlap

\* Delegations that only lose rows in force keep every answer and both rules.
LEMMA FewerInForce ==
  ASSUME TypeOK, HopInv, InForce' \subseteq InForce,
         \A d \in InForce' : /\ delegations'[d].giver = delegations[d].giver
                             /\ delegations'[d].taker = delegations[d].taker
                             /\ delegations'[d].period = delegations[d].period
  PROVE  /\ OneHop' /\ OnePerGiver'
         /\ \A r \in Requests : req'[r] = req[r] => Answered(r)'
<1>1. OneHop' /\ OnePerGiver'
  BY DEF HopInv, OneHop, OnePerGiver
<1>2. ASSUME NEW r \in Requests, req'[r] = req[r]
      PROVE  Answered(r)'
  BY <1>2 DEF HopInv, Answered, GiverIsFree, GiverHoldsNone, TakerIsFree
<1> QED
  BY <1>1, <1>2

LEMMA HopStep == TypeOK /\ LocksAreHeld /\ HopInv /\ [Next]_vars => HopInv'
<1> SUFFICES ASSUME TypeOK, LocksAreHeld, HopInv, [Next]_vars PROVE HopInv'
  OBVIOUS
<1> DEFINE Same == delegations' = delegations
<1>1. Same => /\ OneHop' /\ OnePerGiver'
              /\ \A r \in Requests : req'[r] = req[r] => Answered(r)'
  BY FewerInForce DEF InForce
<1>2. CASE UNCHANGED vars
  BY <1>1, <1>2 DEF vars, HopInv
<1>3. ASSUME NEW r \in Requests, Same,
             \A q \in Requests \ {r} : req'[q] = req[q], Answered(r)'
      PROVE  HopInv'
  BY <1>1, <1>3 DEF HopInv
<1>4. ASSUME NEW r \in Requests, Ends(r)
      PROVE  Answered(r)' /\ \A q \in Requests \ {r} : req'[q] = req[q]
  BY <1>4 DEF Ends, Idle, TypeOK, Answered, Asking
<1>5. ASSUME NEW r \in Requests, DeadlockDetected(r) \/ Abort(r)
      PROVE  HopInv'
  BY <1>3, <1>4, <1>5 DEF DeadlockDetected, Abort
<1>6. ASSUME NEW r \in Requests, Arrives(r)
      PROVE  HopInv'
  <2>1. Same /\ \A q \in Requests \ {r} : req'[q] = req[q]
    BY <1>6 DEF Arrives, Nominate, ReadDelegation, TypeOK
  <2>2. \/ req'[r].pc = "revoke"
        \/ req'[r].pc = "lock" /\ req'[r].giver # req'[r].taker
    BY <1>6 DEF Arrives, Nominate, ReadDelegation, TypeOK
  <2>3. Answered(r)'
    BY <2>2 DEF Answered, Asking
  <2> QED
    BY <1>3, <2>1, <2>3
<1>7. ASSUME NEW r \in Requests, NEW a \in Admins, LockUser(r, a)
      PROVE  HopInv'
  <2>1. /\ Same /\ \A q \in Requests \ {r} : req'[q] = req[q]
        /\ req'[r].pc \in {"lock", "giver"}
        /\ req'[r].giver = req[r].giver /\ req'[r].taker = req[r].taker
        /\ req[r].pc = "lock"
    BY <1>7, Carries DEF LockUser, At, Goes, TypeOK, Asking
  <2>2. Answered(r)'
    BY <2>1 DEF HopInv, Answered, Asking
  <2> QED
    BY <1>3, <2>1, <2>2
<1>8. ASSUME NEW r \in Requests, MineAlready(r) \/ HeldByMe(r) \/ SubstituteDelegatedAway(r)
      PROVE  HopInv'
  <2>1. Same
    BY <1>8 DEF MineAlready, HeldByMe, SubstituteDelegatedAway, Asks
  <2>2. CASE Ends(r)
    BY <1>3, <1>4, <2>1, <2>2
  <2>3. CASE ~Ends(r)
    <3>1. CASE MineAlready(r)
      <4>1. req[r].pc = "giver" /\ Goes(r, "holder") /\ {d \in Over(req[r].period) : delegations[d].giver = req[r].giver} = {}
        BY <2>3, <3>1 DEF MineAlready, Asks, At
      <4>2. GiverIsFree(r)
        BY <4>1 DEF GiverIsFree, Over, InForce
      <4>3. /\ \A q \in Requests \ {r} : req'[q] = req[q]
            /\ req'[r].pc = "holder" /\ req'[r].giver = req[r].giver
            /\ req'[r].taker = req[r].taker /\ req'[r].period = req[r].period
        BY <4>1, GoesMoves DEF Asking
      <4>4. Answered(r)'
        BY <2>1, <4>1, <4>2, <4>3 DEF HopInv, Answered, Asking, InForce, GiverIsFree
      <4> QED
        BY <1>3, <2>1, <4>3, <4>4
    <3>2. CASE HeldByMe(r)
      <4>1. req[r].pc = "holder" /\ Goes(r, "taker") /\ {d \in Over(req[r].period) : delegations[d].taker = req[r].giver} = {}
        BY <2>3, <3>2 DEF HeldByMe, Asks, At
      <4>2. GiverHoldsNone(r)
        BY <4>1 DEF GiverHoldsNone, Over, InForce
      <4>3. /\ \A q \in Requests \ {r} : req'[q] = req[q]
            /\ req'[r].pc = "taker" /\ req'[r].giver = req[r].giver
            /\ req'[r].taker = req[r].taker /\ req'[r].period = req[r].period
        BY <4>1, GoesMoves DEF Asking
      <4>4. Answered(r)'
        BY <2>1, <4>1, <4>2, <4>3 DEF HopInv, Answered, Asking, InForce, GiverIsFree, GiverHoldsNone
      <4> QED
        BY <1>3, <2>1, <4>3, <4>4
    <3>3. CASE SubstituteDelegatedAway(r)
      <4>1. req[r].pc = "taker" /\ Goes(r, "insert") /\ {d \in Over(req[r].period) : delegations[d].giver = req[r].taker} = {}
        BY <2>3, <3>3 DEF SubstituteDelegatedAway, Asks, At
      <4>2. TakerIsFree(r)
        BY <4>1 DEF TakerIsFree, Over, InForce
      <4>3. /\ \A q \in Requests \ {r} : req'[q] = req[q]
            /\ req'[r].pc = "insert" /\ req'[r].giver = req[r].giver
            /\ req'[r].taker = req[r].taker /\ req'[r].period = req[r].period
        BY <4>1, GoesMoves DEF Asking
      <4>4. Answered(r)'
        BY <2>1, <4>1, <4>2, <4>3 DEF HopInv, Answered, Asking, InForce,
            GiverIsFree, GiverHoldsNone, TakerIsFree
      <4> QED
        BY <1>3, <2>1, <4>3, <4>4
    <3> QED
      BY <1>8, <3>1, <3>2, <3>3
  <2> QED
    BY <2>2, <2>3
<1>9. ASSUME NEW r \in Requests, RevokeDelegation(r)
      PROVE  HopInv'
  <2>1. /\ Len(delegations') = Len(delegations) /\ delegations' \in Seq(Delegation)
        /\ \A e \in DOMAIN delegations :
              /\ delegations'[e].giver = delegations[e].giver
              /\ delegations'[e].taker = delegations[e].taker
              /\ delegations'[e].period = delegations[e].period
              /\ delegations[e].revoked => delegations'[e].revoked
    BY <1>9, RevokedRow DEF RevokeDelegation, SameButRevoked
  <2>2. DOMAIN delegations' = DOMAIN delegations
    BY <2>1 DEF TypeOK
  <2>3. InForce' \subseteq InForce
    BY <2>1, <2>2 DEF InForce
  <2>4. /\ OneHop' /\ OnePerGiver'
        /\ \A q \in Requests : req'[q] = req[q] => Answered(q)'
    BY <2>1, <2>3, FewerInForce DEF InForce
  <2> QED
    BY <1>4, <1>9, <2>4 DEF HopInv, RevokeDelegation
<1>10. ASSUME NEW r \in Requests, InsertDelegation(r)
       PROVE  HopInv'
  <2> DEFINE n == Len(delegations) + 1
             new == [giver |-> req[r].giver, taker |-> req[r].taker,
                     period |-> req[r].period, revoked |-> FALSE]
  <2>1. req[r].pc = "insert" /\ delegations' = Append(delegations, new) /\ Ends(r)
    BY <1>10 DEF InsertDelegation, At
  <2>2. /\ req[r].giver \in Admins /\ req[r].taker \in Admins /\ req[r].period \in Periods
        /\ req[r].giver # req[r].taker
        /\ GiverIsFree(r) /\ GiverHoldsNone(r) /\ TakerIsFree(r)
    BY <2>1, Carries DEF HopInv, Answered, Asking
  <2>3. /\ delegations'[n] = new
        /\ DOMAIN delegations = 1 .. Len(delegations)
        /\ DOMAIN delegations' = 1 .. n
        /\ \A d \in DOMAIN delegations : delegations'[d] = delegations[d]
    BY <2>1 DEF TypeOK
  <2>3a. Len(delegations) \in Nat /\ ~new.revoked
        /\ \A d \in DOMAIN delegations : delegations[d].period \in Periods
    <3>1. delegations \in Seq(Delegation)
      BY DEF TypeOK, Delegation
    <3>2. \A d \in DOMAIN delegations : delegations[d] \in Delegation
      BY <3>1
    <3> QED
      BY <3>1, <3>2 DEF Delegation
  <2> HIDE DEF new
  <2>4. /\ InForce' = InForce \union {n} /\ n \notin InForce
        /\ \A d \in InForce : delegations'[d] = delegations[d] /\ delegations[d].period \in Periods
    BY <2>3, <2>3a DEF InForce
  <2> USE DEF new
  <2>5. /\ delegations'[n].giver = req[r].giver /\ delegations'[n].taker = req[r].taker
        /\ delegations'[n].period = req[r].period
    BY <2>3
  <2> HIDE DEF n, new
  <2>6. OneHop'
    <3> SUFFICES ASSUME NEW d \in InForce', NEW e \in InForce',
                        Overlap(delegations'[d].period, delegations'[e].period)
                 PROVE  delegations'[d].taker # delegations'[e].giver
      BY DEF OneHop, Overlap
    <3>1. CASE d = n /\ e = n
      BY <2>2, <2>5, <3>1
    <3>2. CASE d = n /\ e # n
      BY <2>2, <2>4, <2>5, <3>2, OverlapFacts DEF TakerIsFree
    <3>3. CASE d # n /\ e = n
      BY <2>2, <2>4, <2>5, <3>3, OverlapFacts DEF GiverHoldsNone
    <3>4. CASE d # n /\ e # n
      BY <2>4, <3>4 DEF HopInv, OneHop
    <3> QED
      BY <3>1, <3>2, <3>3, <3>4
  <2>7. OnePerGiver'
    <3> SUFFICES ASSUME NEW d \in InForce', NEW e \in InForce', d # e,
                        Overlap(delegations'[d].period, delegations'[e].period)
                 PROVE  delegations'[d].giver # delegations'[e].giver
      BY DEF OnePerGiver, Overlap
    <3>1. CASE d = n
      BY <2>2, <2>4, <2>5, <3>1, OverlapFacts DEF GiverIsFree
    <3>2. CASE e = n
      BY <2>2, <2>4, <2>5, <3>2, OverlapFacts DEF GiverIsFree
    <3>3. CASE d # n /\ e # n
      BY <2>4, <3>3 DEF HopInv, OnePerGiver
    <3> QED
      BY <3>1, <3>2, <3>3
  <2>8. ASSUME NEW q \in Requests \ {r}
        PROVE  Answered(q)'
    <3>1. req'[q] = req[q]
      BY <1>4, <2>1
    <3>2. req[q].pc \in {"holder", "taker", "insert"} =>
            {req[q].giver, req[q].taker} \intersect {req[r].giver, req[r].taker} = {}
      BY <2>1 DEF LocksAreHeld, Both, Held
    <3> QED
      BY <2>4, <2>5, <3>1, <3>2 DEF HopInv, Answered, GiverIsFree, GiverHoldsNone, TakerIsFree
  <2> QED
    BY <1>4, <2>1, <2>6, <2>7, <2>8 DEF HopInv
<1> QED
  BY <1>2, <1>5, <1>6, <1>7, <1>8, <1>9, <1>10 DEF Next, Proceeds

LEMMA HopAlways == Spec => []HopInv
<1>1. Init => HopInv
  BY DEF Init, HopInv, Answered, Idle, Asking, OneHop, OnePerGiver, InForce
<1> QED
  BY <1>1, HopStep, TypeCorrect, LocksHeld, PTL DEF Spec

\* On no day does anybody hold somebody's authority and give their own away.
THEOREM AuthorityTravelsOneHop == Spec => []OneHop
BY HopAlways, PTL DEF HopInv

\* Nobody gives their authority to two people on the same day.
THEOREM AuthorityIsGivenOnce == Spec => []OnePerGiver
BY HopAlways, PTL DEF HopInv
=============================================================================
