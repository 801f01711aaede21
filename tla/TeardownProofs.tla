--------------------------- MODULE TeardownProofs ---------------------------
(***************************************************************************)
(* What Teardown guarantees for every number of elements, teardowns,       *)
(* retries, triggers, callbacks and failures, proved with TLAPS.           *)
(***************************************************************************)
EXTENDS Teardown, TLAPS

-----------------------------------------------------------------------------
(* The pipeline tracking                                                   *)

LEMMA Blank ==
  ASSUME NEW P
  PROVE  Cleared \in TrackingOf(P) /\ Opened \in TrackingOf(P)
  BY DEF Cleared, Opened, NoStatus, StatusMap, TrackingOf

LEMMA Appending ==
  ASSUME NEW P, NEW t \in TrackingOf(P), NEW p \in P
  PROVE  AppendOne(t, p) \in TrackingOf(P)
  BY DEF AppendOne, TrackingOf

LEMMA Closing ==
  ASSUME NEW P, NEW t \in TrackingOf(P), NEW started \in SUBSET P, NEW missed \in BOOLEAN
  PROVE  Closed(t, started, missed) \in TrackingOf(P)
  BY DEF Closed, StatusMap, TrackingOf

LEMMA Merging ==
  ASSUME NEW P, NEW t \in TrackingOf(P), NEW p \in P
  PROVE  MergeSuccess(t, p) \in TrackingOf(P) /\ MergeFailure(t, p) \in TrackingOf(P)
<1> DEFINE succeeded == [t.st EXCEPT !.good = t.st.good \union {p}, !.bad = t.st.bad \ {p}]
           failed == [t.st EXCEPT !.bad = t.st.bad \union {p}, !.good = t.st.good \ {p}]
<1>1. succeeded \in StatusMap(P) /\ failed \in StatusMap(P)
  BY DEF TrackingOf, StatusMap
<1>2. MergeSuccess(t, p) = [t EXCEPT !.st = succeeded]
  BY DEF MergeSuccess
<1>3. MergeFailure(t, p) = [t EXCEPT !.st = failed]
  BY DEF MergeFailure
<1> HIDE DEF succeeded, failed
<1> QED
  BY <1>1, <1>2, <1>3 DEF TrackingOf

-----------------------------------------------------------------------------
(* Type correctness                                                        *)

TearRecord ==
  [pc : TearPcs, project : BOOLEAN, todo : SUBSET Elements,
   e : SUBSET Elements, k : Nat, started : SUBSET Pids,
   missed : BOOLEAN, previous : TrackingOf(Pids), blocked : BOOLEAN]

RetryRecord ==
  [pc : RetryPcs, asked : SUBSET Elements, covers : SUBSET Elements,
   fallback : BOOLEAN, todo : SUBSET Elements, started : SUBSET Pids]

\* A teardown that is about to fire or to record a trigger counts one of its own.
InRange(T) ==
  T.pc \in {"idle", "claim", "read", "begin", "fire", "record"} => T.k \in 1 .. LastTrigger

GoodTear == {T \in TearRecord : InRange(T)}

Typed ==
  /\ order \in OrderStatuses
  /\ attempt \in Attempts
  /\ est \in [Elements -> ElementStatuses]
  /\ track \in [Elements -> TrackingOf(Pids)]
  /\ retired \in BOOLEAN
  /\ ci \in [Pids -> CiStates]
  /\ tear \in [Tears -> GoodTear]
  /\ retry \in [Retries -> RetryRecord]
  /\ hnd \in [Handlers -> SUBSET [p : Pids, verdict : {"success", "failed"}]]
  /\ settle \in [Procs -> SUBSET [e : Elements, decided : StatusMap(Pids)]]
  /\ faults \in [db : Nat, death : Nat]
  /\ holder \in [Elements -> Tears \union {0}]
  /\ stale \subseteq Elements

LEMMA TypedIsTypeOK == Typed => TypeOK
  BY DEF Typed, TypeOK, GoodTear, TearRecord, RetryRecord

LEMMA Numbers ==
  /\ LastTrigger \in Nat \ {0}
  /\ Tears \subseteq Nat \ {0} /\ Attempts \subseteq Nat
  /\ Tears \intersect Attempts = {}
  /\ Retries \subseteq Attempts /\ 0 \in Attempts
  BY TeardownAssumption DEF LastTrigger, Tears, Attempts, Retries

LEMMA PidsOf ==
  /\ \A t \in Tears, e \in Elements, k \in 1 .. LastTrigger : <<t, e, k>> \in Pids
  /\ \A r \in Attempts, e \in Elements : ApplyOf(r, e) \in Pids
  /\ \A p \in Pids : p[2] \in Elements
  BY Numbers DEF Pids, ApplyOf

\* An element that was left goes on to the next claim or to an end.
LEMMA LeavingTyped ==
  ASSUME Typed, NEW t \in Tears, NEW failed \in BOOLEAN
  PROVE  Left(t, failed) \in GoodTear
<1>1. tear[t] \in TearRecord
  BY DEF Typed, GoodTear
<1>2. Cleared \in TrackingOf(Pids)
  BY Blank
<1>3. Left(t, failed) \in TearRecord
  BY <1>1, <1>2 DEF Left, TearRecord, TearPcs
<1>4. Left(t, failed).k = 1
  BY <1>1 DEF Left, TearRecord
<1> QED
  BY <1>3, <1>4, Numbers DEF GoodTear, InRange

LEMMA ThrowingTyped ==
  ASSUME Typed, NEW t \in Tears
  PROVE  Thrown(t) \in GoodTear
<1>1. tear[t] \in TearRecord
  BY DEF Typed, GoodTear
<1>2. CASE tear[t].project
  BY <1>2, LeavingTyped DEF Thrown
<1>3. CASE ~tear[t].project
  BY <1>1, <1>3 DEF Thrown, GoodTear, TearRecord, InRange, TearPcs
<1> QED
  BY <1>2, <1>3

LEMMA DecidingTyped ==
  ASSUME NEW e \in Elements, NEW t \in TrackingOf(Pids)
  PROVE  Deciding(e, t) \subseteq [e : Elements, decided : StatusMap(Pids)]
  BY DEF Deciding, NoSettling, TrackingOf

LEMMA InitTyped == Init => Typed
<1> SUFFICES ASSUME Init PROVE Typed
  OBVIOUS
<1> USE DEF Init
<1>1. track \in [Elements -> TrackingOf(Pids)] /\ ci \in [Pids -> CiStates]
  <2>1. PICK D \in (SUBSET Elements) \ {{}} :
          /\ track = [e \in Elements |->
                        [Cleared EXCEPT !.ids = IF e \in D THEN {ApplyOf(0, e)} ELSE {}]]
          /\ ci = [p \in Pids |->
                     IF \E e \in D : p = ApplyOf(0, e) THEN "running" ELSE "none"]
    OBVIOUS
  <2>2. \A e \in Elements :
          [Cleared EXCEPT !.ids = IF e \in D THEN {ApplyOf(0, e)} ELSE {}] \in TrackingOf(Pids)
    <3> TAKE e \in Elements
    <3> DEFINE ps == IF e \in D THEN {ApplyOf(0, e)} ELSE {}
    <3>1. ps \in SUBSET Pids
      BY PidsOf, Numbers
    <3>2. Cleared \in TrackingOf(Pids)
      BY Blank
    <3>3. [Cleared EXCEPT !.ids = ps] \in TrackingOf(Pids)
      <4> HIDE DEF ps
      <4> QED
        BY <3>1, <3>2 DEF TrackingOf
    <3> QED
      BY <3>3
  <2> QED
    BY <2>1, <2>2 DEF CiStates
<1>2. tear \in [Tears -> GoodTear]
  <2>1. FreshTear \in GoodTear
    BY Blank, Numbers DEF FreshTear, GoodTear, TearRecord, InRange, TearPcs
  <2> QED
    BY <2>1
<1>3. retry \in [Retries -> RetryRecord]
  BY DEF FreshRetry, RetryRecord, RetryPcs
<1>4. settle \in [Procs -> SUBSET [e : Elements, decided : StatusMap(Pids)]]
  BY DEF NoSettling
<1> QED
  BY <1>1, <1>2, <1>3, <1>4, Numbers DEF Typed, OrderStatuses, ElementStatuses

LEMMA StepTyped == Typed /\ [Next]_vars => Typed'
<1> SUFFICES ASSUME Typed, [Next]_vars PROVE Typed'
  OBVIOUS
<1> USE DEF Typed
<1>0. \A t \in Tears : /\ tear[t] \in TearRecord
                       /\ InRange(tear[t])
                       /\ tear[t].e \subseteq Elements /\ tear[t].todo \subseteq Elements
                       /\ tear[t].started \subseteq Pids /\ tear[t].missed \in BOOLEAN
  BY DEF GoodTear, TearRecord
<1>1. CASE UNCHANGED vars
  BY <1>1 DEF vars, rowVars, history
<1>2. CASE OrderCompletes
  <2>1. ci' \in [Pids -> CiStates]
    BY <1>2 DEF OrderCompletes, CiStates
  <2> QED
    BY <1>2, <2>1 DEF OrderCompletes, OrderStatuses, history
<1>3. CASE OrderFails
  BY <1>3 DEF OrderFails, OrderStatuses, history
<1>4. ASSUME NEW t \in Tears, Requests(t)
      PROVE  Typed'
  <2>1. ASSUME NEW kind \in AllKinds, NEW todo \in SUBSET Elements, Begins(t, kind, todo)
        PROVE  Typed'
    <3> DEFINE project == kind = "project"
               pc == IF todo = {} THEN "retire" ELSE "claim"
    <3>1. tear[t].k \in 1 .. LastTrigger
      BY <2>1, <1>0 DEF Begins, IsNext, At, InRange
    <3>2. project \in BOOLEAN /\ pc \in TearPcs
      BY DEF TearPcs
    <3>3. tear' = [tear EXCEPT ![t] = [@ EXCEPT !.project = project, !.todo = todo, !.pc = pc]]
      BY <2>1 DEF Begins
    <3> HIDE DEF project, pc
    <3>4. [tear[t] EXCEPT !.project = project, !.todo = todo, !.pc = pc] \in GoodTear
      BY <1>0, <3>1, <3>2 DEF GoodTear, TearRecord, InRange
    <3>5. tear' \in [Tears -> GoodTear]
      BY <3>3, <3>4
    <3> QED
      BY <2>1, <3>5 DEF Begins, rowVars, history
  <2>2. Active \in SUBSET Elements
    BY DEF Active
  <2>3. CASE DecommissionInfra(t)
    BY <2>1, <2>3 DEF DecommissionInfra, AllKinds
  <2>4. CASE SweepDueDecommissions(t)
    BY <2>1, <2>2, <2>4 DEF SweepDueDecommissions, AllKinds
  <2>5. CASE DeleteProject(t)
    BY <2>1, <2>2, <2>5 DEF DeleteProject, AllKinds
  <2> QED
    BY <1>4, <2>3, <2>4, <2>5 DEF Requests
<1>5. ASSUME NEW t \in Tears, TearStep(t)
      PROVE  Typed'
  <2>1. CASE Claim(t)
    <3>1. PICK e \in tear[t].todo :
            /\ est' = [est EXCEPT ![e] = "decommissioning"]
            /\ tear' = [tear EXCEPT ![t].e = {e}, ![t].pc = "read"]
            /\ holder' = [holder EXCEPT ![e] = t]
            /\ stale' = IF Unfinished(e) \/ Deploying(e) THEN stale \union {e} ELSE stale
      BY <2>1 DEF Claim
    <3>2. [tear[t] EXCEPT !.e = {e}, !.pc = "read"] \in GoodTear
      BY <2>1, <1>0 DEF Claim, At, GoodTear, TearRecord, TearPcs, InRange
    <3>3. tear' \in [Tears -> GoodTear]
      BY <3>1, <3>2
    <3> QED
      BY <2>1, <1>0, <3>1, <3>3 DEF Claim, ElementStatuses
  <2>2. CASE ClaimRefused(t)
    <3>1. PICK e \in tear[t].todo :
            tear' = [tear EXCEPT ![t].todo = tear[t].todo \ {e},
                       ![t].pc = CASE tear[t].todo \ {e} # {} -> "claim"
                                   [] tear[t].todo \ {e} = {} /\ tear[t].project -> "retire"
                                   [] OTHER -> "done"]
      BY <2>2 DEF ClaimRefused
    <3> DEFINE left == tear[t].todo \ {e}
               pc == CASE left # {} -> "claim"
                       [] left = {} /\ tear[t].project -> "retire"
                       [] OTHER -> "done"
    <3>2. left \in SUBSET Elements /\ pc \in TearPcs
      BY <1>0 DEF TearPcs
    <3>3. tear[t].k \in 1 .. LastTrigger
      BY <2>2, <1>0 DEF ClaimRefused, At, InRange
    <3>4. tear' = [tear EXCEPT ![t] = [@ EXCEPT !.todo = left, !.pc = pc]]
      BY <3>1
    <3> HIDE DEF left, pc
    <3>5. [tear[t] EXCEPT !.todo = left, !.pc = pc] \in GoodTear
      BY <1>0, <3>2, <3>3 DEF GoodTear, TearRecord, InRange
    <3>6. tear' \in [Tears -> GoodTear]
      BY <3>4, <3>5
    <3> QED
      BY <2>2, <3>6 DEF ClaimRefused, rowVars, history
  <2>3. CASE BeginReads(t)
    <3>1. PICK e \in tear[t].e :
            tear' = [tear EXCEPT ![t].previous = track[e], ![t].pc = "begin"]
      BY <2>3 DEF BeginReads
    <3>2. [tear[t] EXCEPT !.previous = track[e], !.pc = "begin"] \in GoodTear
      BY <2>3, <1>0 DEF BeginReads, At, GoodTear, TearRecord, TearPcs, InRange
    <3>3. tear' \in [Tears -> GoodTear]
      BY <3>1, <3>2
    <3> QED
      BY <2>3, <3>3 DEF BeginReads, rowVars, history
  <2>4. CASE BeginElementTriggerRun(t)
    <3>1. track' \in [Elements -> TrackingOf(Pids)]
      BY <2>4, <1>0, Blank DEF BeginElementTriggerRun
    <3>2. [tear[t] EXCEPT !.pc = "fire"] \in GoodTear
      BY <2>4, <1>0 DEF BeginElementTriggerRun, At, GoodTear, TearRecord, TearPcs, InRange
    <3>3. tear' \in [Tears -> GoodTear]
      BY <2>4, <3>2 DEF BeginElementTriggerRun, Goto
    <3> QED
      BY <2>4, <3>1, <3>3 DEF BeginElementTriggerRun, history
  <2>5. CASE DestroyStarts(t)
    <3>1. PICK e \in tear[t].e :
            LET p == <<t, e, tear[t].k>> IN
              /\ ci' = [ci EXCEPT ![p] = "running"]
              /\ tear' = [tear EXCEPT ![t].started = @ \union {p}, ![t].pc = "record"]
      BY <2>5 DEF DestroyStarts
    <3>2. At(t, "fire") /\ <<t, e, tear[t].k>> \in Pids
      BY <2>5, <1>0, PidsOf DEF DestroyStarts, At, InRange
    <3>3. [tear[t] EXCEPT !.started = @ \union {<<t, e, tear[t].k>>}, !.pc = "record"]
            \in GoodTear
      BY <1>0, <3>2 DEF At, GoodTear, TearRecord, TearPcs, InRange
    <3>4. tear' \in [Tears -> GoodTear]
      BY <3>1, <3>3
    <3>5. ci' \in [Pids -> CiStates]
      BY <3>1, <3>2 DEF CiStates
    <3> QED
      BY <2>5, <3>4, <3>5 DEF DestroyStarts, rowVars, history
  <2>6. ASSUME tear[t].pc \in {"fire", "record"}, NEW missed \in BOOLEAN,
               NEW started \in SUBSET Pids
        PROVE  [tear[t] EXCEPT !.missed = missed, !.k = @ + 1,
                  !.pc = AfterTrigger(t, started, missed)] \in GoodTear
    <3>1. tear[t].k \in 1 .. LastTrigger
      BY <2>6, <1>0 DEF InRange
    <3>2. /\ AfterTrigger(t, started, missed) \in {"fire", "unclaim", "close"}
          /\ AfterTrigger(t, started, missed) = "fire" => tear[t].k < LastTrigger
      BY <3>1, Numbers DEF AfterTrigger
    <3>3. tear[t].k + 1 \in Nat
      BY <3>1, Numbers
    <3>4. tear[t].k < LastTrigger => tear[t].k + 1 \in 1 .. LastTrigger
      BY <3>1, Numbers
    <3> QED
      BY <1>0, <3>2, <3>3, <3>4 DEF GoodTear, TearRecord, TearPcs, InRange
  <2>7. CASE DestroyFails(t)
    <3>1. [tear[t] EXCEPT !.missed = TRUE, !.k = @ + 1,
             !.pc = AfterTrigger(t, tear[t].started, TRUE)] \in GoodTear
      BY <2>6, <2>7, <1>0 DEF DestroyFails, At
    <3>2. tear' \in [Tears -> GoodTear]
      BY <2>7, <3>1 DEF DestroyFails
    <3> QED
      BY <2>7, <3>2 DEF DestroyFails, rowVars, history
  <2>8. CASE RecordElementPipelineId(t)
    <3>1. [tear[t] EXCEPT !.k = @ + 1,
             !.pc = AfterTrigger(t, tear[t].started, tear[t].missed)] \in GoodTear
      <4>1. [tear[t] EXCEPT !.missed = tear[t].missed, !.k = @ + 1,
               !.pc = AfterTrigger(t, tear[t].started, tear[t].missed)] \in GoodTear
        BY <2>6, <2>8, <1>0 DEF RecordElementPipelineId, At
      <4> QED
        BY <4>1, <1>0 DEF TearRecord
    <3>2. tear' \in [Tears -> GoodTear]
      BY <2>8, <3>1 DEF RecordElementPipelineId
    <3>3. \A e \in tear[t].e : <<t, e, tear[t].k>> \in Pids
      BY <2>8, <1>0, PidsOf DEF RecordElementPipelineId, At, InRange
    <3>4. track' \in [Elements -> TrackingOf(Pids)]
      BY <2>8, <1>0, <3>3, Appending DEF RecordElementPipelineId
    <3> QED
      BY <2>8, <3>2, <3>4 DEF RecordElementPipelineId, history
  <2>9. CASE Unclaim(t)
    <3>1. [tear[t] EXCEPT !.pc = "restore"] \in GoodTear
      BY <1>0 DEF GoodTear, TearRecord, TearPcs, InRange
    <3>2. tear' \in [Tears -> GoodTear]
      BY <2>9, <3>1 DEF Unclaim, Goto
    <3>3. est' \in [Elements -> ElementStatuses]
      BY <2>9, <1>0 DEF Unclaim, ElementStatuses
    <3> QED
      BY <2>9, <3>2, <3>3 DEF Unclaim, history
  <2>10. ASSUME NEW failed \in BOOLEAN, Leave(t, failed)
         PROVE  tear' \in [Tears -> GoodTear]
    BY <2>10, LeavingTyped DEF Leave
  <2>11. CASE RestoreElementTriggerRun(t)
    <3>1. track' \in [Elements -> TrackingOf(Pids)]
      BY <2>11, <1>0 DEF RestoreElementTriggerRun, TearRecord
    <3> QED
      BY <2>10, <2>11, <3>1 DEF RestoreElementTriggerRun, history
  <2>12. CASE FinishElementTriggerRun(t)
    <3>1. PICK e \in tear[t].e :
            LET new == Closed(track[e], tear[t].started, tear[t].missed) IN
              /\ track' = [track EXCEPT ![e] = new]
              /\ settle' = [settle EXCEPT ![t] = Deciding(e, new)]
              /\ IF IsSettled(new) THEN Goto(t, "settling") ELSE Leave(t, tear[t].missed)
      BY <2>12 DEF FinishElementTriggerRun
    <3>2. Closed(track[e], tear[t].started, tear[t].missed) \in TrackingOf(Pids)
      BY <1>0, Closing
    <3>3. settle' \in [Procs -> SUBSET [e : Elements, decided : StatusMap(Pids)]]
      BY <1>0, <3>1, <3>2, DecidingTyped
    <3>4. [tear[t] EXCEPT !.pc = "settling"] \in GoodTear
      BY <1>0 DEF GoodTear, TearRecord, TearPcs, InRange
    <3>5. tear' \in [Tears -> GoodTear]
      BY <1>0, <2>10, <3>1, <3>4 DEF Goto
    <3> QED
      BY <1>0, <2>12, <3>1, <3>2, <3>3, <3>5 DEF FinishElementTriggerRun, history
  <2>13. CASE PutBack(t)
    <3>1. est' \in [Elements -> ElementStatuses]
      BY <2>13, <1>0 DEF PutBack, ElementStatuses
    <3> QED
      BY <2>10, <2>13, <3>1 DEF PutBack, history
  <2>14. CASE RetireProject(t)
    <3>1. [tear[t] EXCEPT !.pc = "done"] \in GoodTear
      BY <1>0 DEF GoodTear, TearRecord, TearPcs, InRange
    <3>2. tear' \in [Tears -> GoodTear]
      BY <2>14, <3>1 DEF RetireProject, Goto
    <3> QED
      BY <2>14, <3>2 DEF RetireProject, history
  <2> QED
    BY <1>5, <2>1, <2>2, <2>3, <2>4, <2>5, <2>7, <2>8, <2>9, <2>11, <2>12, <2>13, <2>14
    DEF TearStep
<1>6. ASSUME NEW t \in Tears, TearFaults(t)
      PROVE  Typed'
  <2>0. DbFault \/ Death => faults' \in [db : Nat, death : Nat]
    BY DEF DbFault, Death
  <2>1. CASE RecordLost(t)
    <3>1. tear[t].pc = "record" /\ tear[t].k \in 1 .. LastTrigger
      BY <2>1, <1>0 DEF RecordLost, At, InRange
    <3>2. /\ AfterTrigger(t, tear[t].started, tear[t].missed) \in {"fire", "unclaim", "close"}
          /\ AfterTrigger(t, tear[t].started, tear[t].missed) = "fire" => tear[t].k < LastTrigger
      BY <3>1, Numbers DEF AfterTrigger
    <3>3. tear[t].k + 1 \in Nat /\ (tear[t].k < LastTrigger => tear[t].k + 1 \in 1 .. LastTrigger)
      BY <3>1, Numbers
    <3>4. [tear[t] EXCEPT !.k = @ + 1,
             !.pc = AfterTrigger(t, tear[t].started, tear[t].missed)] \in GoodTear
      BY <1>0, <3>2, <3>3 DEF GoodTear, TearRecord, TearPcs, InRange
    <3>5. tear' \in [Tears -> GoodTear]
      BY <2>1, <3>4 DEF RecordLost
    <3> QED
      BY <2>0, <2>1, <3>5 DEF RecordLost, rowVars, history
  <2>2. CASE TearThrows(t)
    <3>1. tear' \in [Tears -> GoodTear]
      BY <2>2, ThrowingTyped DEF TearThrows, Throw
    <3> QED
      BY <2>0, <2>2, <3>1 DEF TearThrows, rowVars, history
  <2>3. CASE PutBackFails(t)
    <3>1. tear' \in [Tears -> GoodTear]
      BY <2>3, LeavingTyped DEF PutBackFails, Leave
    <3> QED
      BY <2>0, <2>3, <3>1 DEF PutBackFails, rowVars, history
  <2>4. CASE TearDies(t)
    <3>1. [FreshTear EXCEPT !.pc = "done"] \in GoodTear
      BY Blank, Numbers DEF FreshTear, GoodTear, TearRecord, InRange, TearPcs
    <3>2. tear' \in [Tears -> GoodTear]
      BY <2>4, <3>1 DEF TearDies
    <3>3. settle' \in [Procs -> SUBSET [e : Elements, decided : StatusMap(Pids)]]
      BY <2>4 DEF TearDies, NoSettling
    <3> QED
      BY <2>0, <2>4, <3>2, <3>3 DEF TearDies, rowVars, history
  <2> QED
    BY <1>6, <2>1, <2>2, <2>3, <2>4 DEF TearFaults
<1>7. ASSUME NEW h \in Handlers, HandlerStep(h)
      PROVE  Typed'
  <2>0. \A ev \in hnd[h] : ev.p \in Pids /\ ev.p[2] \in Elements /\ ev.p[2] \in DOMAIN track
    BY PidsOf
  <2>1. CASE CallbackArrives(h)
    <3>1. PICK p \in Pids, v \in {"success", "failed"} :
            /\ ci' = [ci EXCEPT ![p] = v]
            /\ hnd' = IF est[p[2]] = "decommissioning" /\ p \in track[p[2]].ids
                        THEN [hnd EXCEPT ![h] = {[p |-> p, verdict |-> v]}] ELSE hnd
      BY <2>1 DEF CallbackArrives
    <3>2. {[p |-> p, verdict |-> v]} \in SUBSET [p : Pids, verdict : {"success", "failed"}]
      OBVIOUS
    <3>3. hnd' \in [Handlers -> SUBSET [p : Pids, verdict : {"success", "failed"}]]
      BY <3>1, <3>2
    <3>4. ci' \in [Pids -> CiStates]
      BY <3>1 DEF CiStates
    <3> QED
      BY <2>1, <3>3, <3>4 DEF CallbackArrives, rowVars, history
  <2>2. CASE MergeSuccessEvent(h)
    <3>1. PICK ev \in hnd[h] :
            IF est[ev.p[2]] = "decommissioning"
              THEN /\ track' = [track EXCEPT ![ev.p[2]] = MergeSuccess(@, ev.p)]
                   /\ settle' = [settle EXCEPT ![h] =
                                    Deciding(ev.p[2], MergeSuccess(track[ev.p[2]], ev.p))]
              ELSE UNCHANGED <<track, settle>>
      BY <2>2 DEF MergeSuccessEvent
    <3>2. MergeSuccess(track[ev.p[2]], ev.p) \in TrackingOf(Pids)
      BY <2>0, Merging
    <3>3. /\ track' \in [Elements -> TrackingOf(Pids)]
          /\ settle' \in [Procs -> SUBSET [e : Elements, decided : StatusMap(Pids)]]
      BY <2>0, <3>1, <3>2, DecidingTyped
    <3>4. hnd' \in [Handlers -> SUBSET [p : Pids, verdict : {"success", "failed"}]]
      BY <2>2 DEF MergeSuccessEvent
    <3> QED
      BY <2>2, <3>3, <3>4 DEF MergeSuccessEvent, history
  <2>3. CASE MergeFailureEvent(h)
    <3>1. track' \in [Elements -> TrackingOf(Pids)]
      BY <2>0, <2>3, Merging DEF MergeFailureEvent
    <3>2. hnd' \in [Handlers -> SUBSET [p : Pids, verdict : {"success", "failed"}]]
      BY <2>3 DEF MergeFailureEvent
    <3> QED
      BY <2>3, <3>1, <3>2 DEF MergeFailureEvent, history
  <2> QED
    BY <1>7, <2>1, <2>2, <2>3 DEF HandlerStep
<1>8. ASSUME NEW x \in Procs, SettleSwaps(x) \/ SettleThrows(x)
      PROVE  Typed'
  <2>1. Swapped(x) \/ UNCHANGED est => est' \in [Elements -> ElementStatuses]
    BY DEF Swapped, ElementStatuses
  <2>2. settle' \in [Procs -> SUBSET [e : Elements, decided : StatusMap(Pids)]]
    BY <1>8 DEF SettleSwaps, SettleThrows, NoSettling
  <2>3. tear' \in [Tears -> GoodTear]
    BY <1>0, <1>8, LeavingTyped, ThrowingTyped DEF SettleSwaps, SettleThrows, Leave, Throw
  <2>4. faults' \in [db : Nat, death : Nat]
    BY <1>8 DEF SettleSwaps, SettleThrows, DbFault
  <2> QED
    BY <1>8, <2>1, <2>2, <2>3, <2>4 DEF SettleSwaps, SettleThrows, history
<1>9. ASSUME NEW r \in Retries, RetryClaim(r) \/ RetryStep(r)
      PROVE  Typed'
  <2>0. /\ retry[r] \in RetryRecord
        /\ retry[r].asked \subseteq Elements /\ retry[r].covers \subseteq Elements
        /\ retry[r].todo \subseteq Elements /\ retry[r].started \subseteq Pids
    BY DEF RetryRecord
  <2>1. CASE RetryClaim(r)
    <3>1. retry' \in [Retries -> RetryRecord]
      <4>1. PICK e \in Elements :
              retry' = [retry EXCEPT ![r].pc = "siblings", ![r].asked = {e}]
        BY <2>1 DEF RetryClaim
      <4>2. [retry[r] EXCEPT !.pc = "siblings", !.asked = {e}] \in RetryRecord
        BY <2>0 DEF RetryRecord, RetryPcs
      <4> QED
        BY <4>1, <4>2
    <3> QED
      BY <2>1, <3>1, Numbers DEF RetryClaim, OrderStatuses, history
  <2>2. CASE RetrySiblings(r)
    <3> DEFINE covers == IF Active # {} THEN Active ELSE retry[r].asked
    <3>1. /\ retry' = [retry EXCEPT ![r].pc = "fire", ![r].asked = {}, ![r].covers = covers,
                          ![r].fallback = (Active = {}), ![r].todo = covers]
          /\ stale' = stale \union {e \in covers : Unfinished(e)}
      BY <2>2 DEF RetrySiblings
    <3>2. covers \in SUBSET Elements /\ (Active = {}) \in BOOLEAN
      BY <2>0 DEF Active
    <3> HIDE DEF covers
    <3>3. [retry[r] EXCEPT !.pc = "fire", !.asked = {}, !.covers = covers,
             !.fallback = (Active = {}), !.todo = covers] \in RetryRecord
      BY <2>0, <3>2 DEF RetryRecord, RetryPcs
    <3>4. retry' \in [Retries -> RetryRecord]
      BY <3>1, <3>3
    <3> QED
      BY <2>2, <3>1, <3>2, <3>4 DEF RetrySiblings, rowVars
  <2>3. ASSUME NEW e \in retry[r].todo, NEW started \in SUBSET Pids, RetryMoves(r, e, started)
        PROVE  retry' \in [Retries -> RetryRecord]
    <3>1. retry'[r] \in RetryRecord
      BY <2>0, <2>3 DEF RetryMoves, RetryRecord, RetryPcs
    <3> QED
      BY <2>3, <3>1 DEF RetryMoves
  <2>4. CASE ApplyStarts(r)
    <3>1. PICK e \in retry[r].todo :
            /\ ci' = [ci EXCEPT ![ApplyOf(r, e)] = "running"]
            /\ RetryMoves(r, e, retry[r].started \union {ApplyOf(r, e)})
      BY <2>4 DEF ApplyStarts
    <3>2. ApplyOf(r, e) \in Pids
      BY <2>0, PidsOf, Numbers
    <3>3. retry' \in [Retries -> RetryRecord]
      BY <2>0, <2>3, <3>1, <3>2
    <3>4. ci' \in [Pids -> CiStates]
      BY <3>1 DEF CiStates
    <3> QED
      BY <2>4, <3>3, <3>4 DEF ApplyStarts, rowVars, history
  <2>5. CASE ApplyFails(r)
    <3>1. retry' \in [Retries -> RetryRecord]
      BY <2>0, <2>3, <2>5 DEF ApplyFails
    <3> QED
      BY <2>5, <3>1 DEF ApplyFails, rowVars, history
  <2>6. CASE RewriteElement(r)
    <3>1. PICK e \in retry[r].todo :
            LET left == retry[r].todo \ {e} IN
              /\ est' = [est EXCEPT ![e] = "active"]
              /\ track' = [track EXCEPT ![e] = [Cleared EXCEPT !.ids =
                                                  {p \in retry[r].started : p[2] = e}]]
              /\ retry' = [retry EXCEPT ![r].todo = left,
                             ![r].started = IF left = {} THEN {} ELSE @,
                             ![r].pc = IF left = {} THEN "done" ELSE "rewrite"]
      BY <2>6 DEF RewriteElement
    <3> DEFINE ps == {p \in retry[r].started : p[2] = e}
               left == retry[r].todo \ {e}
    <3>2. ps \in SUBSET Pids /\ Cleared \in TrackingOf(Pids)
      BY <2>0, Blank
    <3>3. [Cleared EXCEPT !.ids = ps] \in TrackingOf(Pids)
      <4> HIDE DEF ps
      <4> QED
        BY <3>2 DEF TrackingOf
    <3>4. track' \in [Elements -> TrackingOf(Pids)]
      BY <3>1, <3>3
    <3>5. [retry[r] EXCEPT !.todo = left, !.started = IF left = {} THEN {} ELSE @,
             !.pc = IF left = {} THEN "done" ELSE "rewrite"] \in RetryRecord
      BY <2>0 DEF RetryRecord, RetryPcs
    <3>6. retry' \in [Retries -> RetryRecord]
      BY <3>1, <3>5
    <3> QED
      BY <2>0, <2>6, <3>1, <3>4, <3>6 DEF RewriteElement, ElementStatuses, history
  <2>7. CASE ReleaseRetryClaim(r)
    <3>1. [retry[r] EXCEPT !.pc = "done"] \in RetryRecord
      BY <2>0 DEF RetryRecord, RetryPcs
    <3>2. retry' \in [Retries -> RetryRecord]
      BY <2>7, <3>1 DEF ReleaseRetryClaim
    <3> QED
      BY <2>7, <3>2 DEF ReleaseRetryClaim, OrderStatuses, history
  <2> QED
    BY <1>9, <2>1, <2>2, <2>4, <2>5, <2>6, <2>7 DEF RetryStep
<1> QED
  BY <1>1, <1>2, <1>3, <1>4, <1>5, <1>6, <1>7, <1>8, <1>9 DEF Next

\* Every column, request, callback and settling process keeps the type it is
\* declared with, however teardowns, retries, callbacks and failures interleave.
THEOREM TypeCorrect == Spec => []TypeOK
<1>1. Init => Typed
  BY InitTyped
<1>2. Typed /\ [Next]_vars => Typed'
  BY StepTyped
<1>3. Typed => TypeOK
  BY TypedIsTypeOK
<1> QED
  BY <1>1, <1>2, <1>3, PTL DEF Spec

-----------------------------------------------------------------------------
(* A destroy and an apply of the same element exclude each other           *)

\* The button and the sweep; an order that is provisioning waits for its retry.
NoProject == \A t \in Tears : ~tear[t].project

\* A retry that is not over keeps its order provisioning, and is alone.
OneRetry ==
  /\ \A r \in Retries : ~RetryOver(r) => order = "provisioning"
  /\ \A r, q \in Retries : ~RetryOver(r) /\ ~RetryOver(q) => r = q
  /\ \A r \in Retries :
       retry[r].pc \in {"idle", "siblings"} => retry[r].covers = {} /\ ~retry[r].fallback
  /\ \A r \in Retries : retry[r].todo \subseteq retry[r].covers

\* From its claim until it is closed or given up, a teardown holds its element.
HotPcs == {"read", "begin", "fire", "record", "close", "unclaim"}
Hot(t, e) == e \in tear[t].e /\ tear[t].pc \in HotPcs
Runs(u, e, k) == ci[<<u, e, k>>] = "running"

CoveredAreActive ==
  \A r \in Retries : ~RetryOver(r) => \A e \in retry[r].covers : est[e] = "active"
HeldAreClaimed == \A t \in Tears, e \in Elements : Hot(t, e) => est[e] # "active"
HeldByOne == \A t, u \in Tears, e \in Elements : Hot(t, e) /\ Hot(u, e) => t = u
RunningIsHolders ==
  \A t, u \in Tears, e \in Elements, k \in 1 .. LastTrigger :
    Hot(t, e) /\ Runs(u, e, k) => u = t /\ <<u, e, k>> \in tear[t].started
NothingToUnclaim == \A t \in Tears : At(t, "unclaim") => tear[t].started = {}
RunningIsClaimed ==
  \A u \in Tears, e \in Elements, k \in 1 .. LastTrigger :
    Runs(u, e, k) => est[e] # "active"
NothingThrown == \A t \in Tears : ~At(t, "putback")

Calm == faults.db = 0 /\ ~FellBack

Excluded ==
  /\ CoveredAreActive
  /\ HeldAreClaimed
  /\ HeldByOne
  /\ RunningIsHolders
  /\ NothingToUnclaim
  /\ RunningIsClaimed
  /\ NothingThrown

ExclusionInv ==
  /\ Typed
  /\ NoProject
  /\ OneRetry
  /\ Calm => Excluded

LEMMA Exclusion == ExclusionInv => NoDestroyDuringApply
<1> SUFFICES ASSUME ExclusionInv, faults.db = 0, ~FellBack,
                    NEW r \in Retries, ~RetryOver(r), NEW e \in retry[r].covers
             PROVE  ~Tearing(e) /\ ~DestroyRunning(e)
  BY DEF NoDestroyDuringApply
<1>1. Excluded
  BY DEF ExclusionInv, Calm
<1>2. e \in Elements
  BY DEF ExclusionInv, Typed, RetryRecord
<1>3. est[e] = "active"
  BY <1>1 DEF Excluded, CoveredAreActive
<1>4. ~Tearing(e)
  BY <1>1, <1>2, <1>3 DEF Excluded, HeldAreClaimed, Tearing, Holds, Hot, HotPcs
<1>5. ~DestroyRunning(e)
  BY <1>1, <1>2, <1>3 DEF Excluded, RunningIsClaimed, Runs, DestroyRunning
<1> QED
  BY <1>4, <1>5

\* A step that claims nothing, gives nothing back, starts no destroy and covers
\* nothing new keeps the exclusion.
LEMMA QuietStep ==
  ASSUME Excluded,
         \A e \in Elements : est'[e] = "active" <=> est[e] = "active",
         \A u \in Tears, e \in Elements, k \in 1 .. LastTrigger : Runs(u, e, k)' => Runs(u, e, k),
         \A t \in Tears, e \in Elements :
           Hot(t, e)' => Hot(t, e) /\ tear[t].started \subseteq tear'[t].started,
         \A t \in Tears : At(t, "unclaim")' => tear'[t].started = {},
         \A t \in Tears : ~At(t, "putback")',
         \A r \in Retries : /\ retry'[r].covers \subseteq Elements
                            /\ RetryOver(r)' \/ retry'[r].covers = {}
                               \/ (~RetryOver(r) /\ retry'[r].covers = retry[r].covers)
  PROVE  Excluded'
<1>1. CoveredAreActive'
  BY DEF Excluded, CoveredAreActive
<1>2. HeldAreClaimed'
  BY DEF Excluded, HeldAreClaimed
<1>3. HeldByOne'
  BY DEF Excluded, HeldByOne
<1>4. RunningIsHolders'
  <2> SUFFICES ASSUME NEW t \in Tears, NEW u \in Tears, NEW e \in Elements,
                      NEW k \in 1 .. LastTrigger, Hot(t, e)', Runs(u, e, k)'
               PROVE  u = t /\ <<u, e, k>> \in tear'[t].started
    BY DEF RunningIsHolders
  <2>1. Hot(t, e) /\ Runs(u, e, k) /\ tear[t].started \subseteq tear'[t].started
    OBVIOUS
  <2> QED
    BY <2>1 DEF Excluded, RunningIsHolders
<1>5. NothingToUnclaim' /\ NothingThrown'
  BY DEF NothingToUnclaim, NothingThrown
<1>6. RunningIsClaimed'
  BY DEF Excluded, RunningIsClaimed
<1> QED
  BY <1>1, <1>2, <1>3, <1>4, <1>5, <1>6 DEF Excluded

LEMMA InitExclusion == Init => ExclusionInv
<1> SUFFICES ASSUME Init PROVE ExclusionInv
  OBVIOUS
<1>1. Typed
  BY InitTyped
<1>2. \A t \in Tears : tear[t] = FreshTear
  BY DEF Init
<1>3. \A r \in Retries : retry[r] = FreshRetry
  BY DEF Init
<1>4. NoProject
  BY <1>2 DEF NoProject, FreshTear
<1>5. OneRetry
  BY <1>3 DEF OneRetry, FreshRetry, RetryOver
<1>6. CoveredAreActive
  BY <1>3 DEF CoveredAreActive, FreshRetry, RetryOver
<1>7. \A t \in Tears, e \in Elements : ~Hot(t, e)
  BY <1>2 DEF Hot, FreshTear
<1>8. NothingToUnclaim /\ NothingThrown
  BY <1>2 DEF NothingToUnclaim, NothingThrown, At, FreshTear
<1>9. RunningIsClaimed
  <2>1. \A u \in Tears, e, f \in Elements, k \in 1 .. LastTrigger : <<u, e, k>> # ApplyOf(0, f)
    BY Numbers DEF ApplyOf
  <2>2. \A u \in Tears, e \in Elements, k \in 1 .. LastTrigger : ci[<<u, e, k>>] = "none"
    <3>1. PICK D \in (SUBSET Elements) \ {{}} :
            ci = [p \in Pids |-> IF \E e \in D : p = ApplyOf(0, e) THEN "running" ELSE "none"]
      BY DEF Init
    <3> QED
      BY <2>1, <3>1, PidsOf
  <2> QED
    BY <2>2 DEF RunningIsClaimed, Runs
<1> QED
  BY <1>1, <1>4, <1>5, <1>6, <1>7, <1>8, <1>9
  DEF ExclusionInv, Excluded, HeldAreClaimed, HeldByOne, RunningIsHolders

\* No step turns a request into the deletion of a project.
LEMMA NoProjectStep ==
  ASSUME "project" \notin Kinds, Typed, NoProject, [Next]_vars
  PROVE  NoProject'
<1> USE DEF NoProject
<1>0. \A t \in Tears : tear[t] \in TearRecord
  BY DEF Typed, GoodTear
<1>1. ASSUME NEW t \in Tears, NEW failed \in BOOLEAN
      PROVE  Left(t, failed).project = FALSE
  BY <1>0 DEF Left, TearRecord
<1>2. \A t \in Tears : ~Thrown(t).project
  BY <1>0, <1>1 DEF Thrown, TearRecord
<1>3. CASE UNCHANGED vars
  BY <1>3 DEF vars
<1>4. CASE OrderCompletes \/ OrderFails
  BY <1>4 DEF OrderCompletes, OrderFails
<1>5. ASSUME NEW t \in Tears, Requests(t) \/ TearStep(t) \/ TearFaults(t)
      PROVE  NoProject'
  <2>1. CASE Requests(t)
    <3>1. \A kind, todo : Begins(t, kind, todo) => NoProject'
      <4> SUFFICES ASSUME NEW kind, NEW todo, Begins(t, kind, todo) PROVE NoProject'
        OBVIOUS
      <4>1. kind # "project" /\ kind \in Kinds
        BY DEF Begins
      <4>2. tear'[t].project = (kind = "project")
        BY <1>0 DEF Begins, TearRecord, Typed
      <4>3. \A u \in Tears : u # t => tear'[u] = tear[u]
        BY DEF Begins, Typed
      <4> QED
        BY <4>1, <4>2, <4>3
    <3> QED
      BY <2>1, <3>1 DEF Requests, DecommissionInfra, SweepDueDecommissions, DeleteProject
  <2> DEFINE Kept == /\ tear'[t].project = FALSE
                     /\ \A u \in Tears : u # t => tear'[u] = tear[u]
  <2>2. Kept => NoProject'
    OBVIOUS
  <2>3. ASSUME TearStep(t)
        PROVE  Kept
    <3>1. CASE Claim(t)
      BY <1>0, <3>1 DEF Claim, Typed, TearRecord
    <3>2. CASE ClaimRefused(t)
      BY <1>0, <3>2 DEF ClaimRefused, Typed, TearRecord
    <3>3. CASE BeginReads(t)
      BY <1>0, <3>3 DEF BeginReads, Typed, TearRecord
    <3>4. CASE BeginElementTriggerRun(t)
      BY <1>0, <3>4 DEF BeginElementTriggerRun, Typed, TearRecord, Goto
    <3>5. CASE DestroyStarts(t)
      BY <1>0, <3>5 DEF DestroyStarts, Typed, TearRecord
    <3>6. CASE DestroyFails(t)
      BY <1>0, <3>6 DEF DestroyFails, Typed, TearRecord
    <3>7. CASE RecordElementPipelineId(t)
      BY <1>0, <3>7 DEF RecordElementPipelineId, Typed, TearRecord
    <3>8. CASE Unclaim(t)
      BY <1>0, <3>8 DEF Unclaim, Typed, TearRecord, Goto
    <3>9. CASE RetireProject(t)
      BY <1>0, <3>9 DEF RetireProject, Typed, TearRecord, Goto
    <3>10. ASSUME NEW failed, failed \in BOOLEAN, Leave(t, failed)
           PROVE  Kept
      BY <1>1, <3>10 DEF Leave, Typed
    <3>11. CASE RestoreElementTriggerRun(t)
      BY <3>10, <3>11 DEF RestoreElementTriggerRun
    <3>12. CASE PutBack(t)
      BY <3>10, <3>12 DEF PutBack
    <3>13. CASE FinishElementTriggerRun(t)
      <4>1. Goto(t, "settling") \/ Leave(t, tear[t].missed)
        BY <3>13 DEF FinishElementTriggerRun
      <4>2. Goto(t, "settling") => Kept
        BY <1>0 DEF Goto, Typed, TearRecord
      <4> QED
        BY <1>0, <3>10, <4>1, <4>2 DEF TearRecord
    <3> QED
      BY <2>3, <3>1, <3>2, <3>3, <3>4, <3>5, <3>6, <3>7, <3>8, <3>9, <3>11, <3>12, <3>13
      DEF TearStep
  <2>4. CASE TearFaults(t)
    <3>1. CASE RecordLost(t)
      BY <1>0, <3>1 DEF RecordLost, Typed, TearRecord
    <3>2. CASE TearThrows(t) \/ PutBackFails(t)
      BY <1>0, <1>1, <1>2, <3>2 DEF TearThrows, PutBackFails, Throw, Leave, Typed
    <3>3. CASE TearDies(t)
      BY <1>0, <3>3 DEF TearDies, FreshTear, Typed
    <3> QED
      BY <2>4, <3>1, <3>2, <3>3 DEF TearFaults
  <2> QED
    BY <1>5, <2>1, <2>2, <2>3, <2>4
<1>6. ASSUME NEW h \in Handlers, HandlerStep(h)
      PROVE  NoProject'
  BY <1>6 DEF HandlerStep, CallbackArrives, MergeSuccessEvent, MergeFailureEvent
<1>7. ASSUME NEW x \in Procs, SettleSwaps(x) \/ SettleThrows(x)
      PROVE  NoProject'
  <2>1. \/ UNCHANGED tear
        \/ x \in Tears /\ (Leave(x, tear[x].missed) \/ Throw(x))
    BY <1>7 DEF SettleSwaps, SettleThrows
  <2>2. ASSUME x \in Tears, Leave(x, tear[x].missed)
        PROVE  NoProject'
    <3>1. tear[x].missed \in BOOLEAN
      BY <1>0, <2>2 DEF TearRecord
    <3> QED
      BY <1>1, <2>2, <3>1 DEF Leave, Typed
  <2>3. ASSUME x \in Tears, Throw(x)
        PROVE  NoProject'
    BY <1>2, <2>3 DEF Throw, Typed
  <2> QED
    BY <2>1, <2>2, <2>3
<1>8. ASSUME NEW r \in Retries, RetryClaim(r) \/ RetryStep(r)
      PROVE  NoProject'
  BY <1>8 DEF RetryClaim, RetryStep, RetrySiblings, ApplyStarts, ApplyFails, RewriteElement,
              ReleaseRetryClaim
<1> QED
  BY <1>3, <1>4, <1>5, <1>6, <1>7, <1>8 DEF Next

\* Only the retry's own steps, and a verdict that waits for it, change the order.
LEMMA OneRetryStep ==
  ASSUME ~EarlyFailure, Typed, OneRetry, [Next]_vars
  PROVE  OneRetry'
<1>0. \A r \in Retries : retry[r] \in RetryRecord
  BY DEF Typed
<1>1. UNCHANGED <<order, retry>> => OneRetry'
  BY DEF OneRetry, RetryOver
<1>2. CASE UNCHANGED vars
  BY <1>1, <1>2 DEF vars, rowVars
<1>3. CASE OrderCompletes \/ OrderFails
  <2>1. \A r \in Retries : RetryOver(r)
    BY <1>3 DEF OrderCompletes, OrderFails
  <2> QED
    BY <1>3, <2>1 DEF OrderCompletes, OrderFails, OneRetry, RetryOver
<1>4. ASSUME NEW t \in Tears, Requests(t) \/ TearStep(t) \/ TearFaults(t)
      PROVE  OneRetry'
  <2>1. CASE Requests(t)
    BY <1>1, <2>1 DEF Requests, DecommissionInfra, SweepDueDecommissions, DeleteProject, Begins,
                      rowVars
  <2>2. CASE TearStep(t)
    BY <1>1, <2>2
    DEF TearStep, Claim, ClaimRefused, BeginReads, BeginElementTriggerRun, DestroyStarts,
        DestroyFails, RecordElementPipelineId, Unclaim, RestoreElementTriggerRun,
        FinishElementTriggerRun, PutBack, RetireProject, rowVars
  <2>3. CASE TearFaults(t)
    BY <1>1, <2>3 DEF TearFaults, RecordLost, TearThrows, PutBackFails, TearDies, rowVars
  <2> QED
    BY <1>4, <2>1, <2>2, <2>3
<1>5. ASSUME NEW h \in Handlers, HandlerStep(h)
      PROVE  OneRetry'
  BY <1>1, <1>5 DEF HandlerStep, CallbackArrives, MergeSuccessEvent, MergeFailureEvent, rowVars
<1>6. ASSUME NEW x \in Procs, SettleSwaps(x) \/ SettleThrows(x)
      PROVE  OneRetry'
  BY <1>1, <1>6 DEF SettleSwaps, SettleThrows
<1>7. ASSUME NEW r \in Retries, RetryClaim(r)
      PROVE  OneRetry'
  <2>1. \A q \in Retries : RetryOver(q)
    BY <1>7 DEF RetryClaim, OneRetry
  <2>2. /\ order' = "provisioning"
        /\ retry'[r].pc = "siblings" /\ retry'[r].covers = retry[r].covers
        /\ retry'[r].todo = retry[r].todo /\ retry[r].pc = "idle"
        /\ retry'[r].fallback = retry[r].fallback
        /\ \A q \in Retries : q # r => retry'[q] = retry[q]
    BY <1>0, <1>7 DEF RetryClaim, Typed, RetryRecord
  <2> QED
    BY <2>1, <2>2 DEF OneRetry, RetryOver
<1>8. ASSUME NEW r \in Retries, RetryStep(r)
      PROVE  OneRetry'
  <2>1. ASSUME order' = order, ~RetryOver(r),
               retry'[r].pc \notin {"idle", "siblings"},
               retry'[r].todo \subseteq retry'[r].covers,
               \A q \in Retries : q # r => retry'[q] = retry[q]
        PROVE  OneRetry'
    BY <2>1 DEF OneRetry, RetryOver
  <2>2. CASE RetrySiblings(r)
    <3>1. /\ order' = order /\ ~RetryOver(r) /\ retry'[r].pc = "fire"
          /\ retry'[r].todo = retry'[r].covers
          /\ \A q \in Retries : q # r => retry'[q] = retry[q]
      BY <1>0, <2>2 DEF RetrySiblings, RetryOver, rowVars, Typed, RetryRecord
    <3> QED
      BY <2>1, <3>1
  <2>3. CASE ApplyStarts(r) \/ ApplyFails(r)
    <3>1. PICK e, s : RetryMoves(r, e, s)
      BY <2>3 DEF ApplyStarts, ApplyFails
    <3> DEFINE left == retry[r].todo \ {e}
               todo == IF left = {} THEN retry[r].covers ELSE left
               pc == CASE left # {} -> "fire"
                       [] left = {} /\ s = {} -> "release"
                       [] OTHER -> "rewrite"
    <3>7. retry' = [retry EXCEPT ![r] = [@ EXCEPT !.started = s, !.todo = todo, !.pc = pc]]
      BY <3>1 DEF RetryMoves
    <3>8. pc \in {"fire", "release", "rewrite"} /\ todo \subseteq retry[r].covers
      BY DEF OneRetry
    <3> HIDE DEF todo, pc
    <3>3. order' = order /\ ~RetryOver(r)
      BY <2>3 DEF ApplyStarts, ApplyFails, RetryOver, rowVars
    <3>4. \A q \in Retries : q # r => retry'[q] = retry[q]
      BY <3>1 DEF RetryMoves, Typed
    <3>5. retry'[r].covers = retry[r].covers /\ retry'[r].todo \subseteq retry[r].covers
      BY <1>0, <3>7, <3>8 DEF Typed, RetryRecord
    <3>6. retry'[r].pc \in {"fire", "release", "rewrite"}
      BY <1>0, <3>7, <3>8 DEF Typed, RetryRecord
    <3> QED
      BY <2>1, <3>3, <3>4, <3>5, <3>6
  <2>4. CASE RewriteElement(r)
    <3>1. PICK e \in retry[r].todo :
            retry' = [retry EXCEPT ![r].todo = retry[r].todo \ {e},
                        ![r].started = IF retry[r].todo \ {e} = {} THEN {} ELSE retry[r].started,
                        ![r].pc = IF retry[r].todo \ {e} = {} THEN "done" ELSE "rewrite"]
      BY <2>4 DEF RewriteElement, Typed, RetryRecord
    <3> DEFINE started == IF retry[r].todo \ {e} = {} THEN {} ELSE retry[r].started
               pc == IF retry[r].todo \ {e} = {} THEN "done" ELSE "rewrite"
    <3>7. retry' = [retry EXCEPT ![r] = [@ EXCEPT !.todo = retry[r].todo \ {e},
                                                  !.started = started, !.pc = pc]]
      BY <3>1
    <3>8. pc \in {"done", "rewrite"}
      OBVIOUS
    <3> HIDE DEF started, pc
    <3>2. retry[r].todo \subseteq retry[r].covers
      BY DEF OneRetry
    <3>3. order' = order /\ ~RetryOver(r)
      BY <2>4 DEF RewriteElement, RetryOver
    <3>4. \A q \in Retries : q # r => retry'[q] = retry[q]
      BY <3>7 DEF Typed
    <3>5. retry'[r].covers = retry[r].covers /\ retry'[r].todo \subseteq retry[r].covers
      BY <1>0, <3>2, <3>7 DEF Typed, RetryRecord
    <3>6. retry'[r].pc \in {"done", "rewrite"}
      BY <1>0, <3>7, <3>8 DEF Typed, RetryRecord
    <3> QED
      BY <2>1, <3>3, <3>4, <3>5, <3>6
  <2>5. CASE ReleaseRetryClaim(r)
    <3>1. /\ ~RetryOver(r) /\ RetryOver(r)' /\ retry'[r].pc = "done"
          /\ retry'[r].todo = retry[r].todo /\ retry'[r].covers = retry[r].covers
          /\ \A q \in Retries : q # r => retry'[q] = retry[q]
      BY <1>0, <2>5 DEF ReleaseRetryClaim, RetryOver, Typed, RetryRecord
    <3> QED
      BY <3>1 DEF OneRetry, RetryOver
  <2> QED
    BY <1>8, <2>2, <2>3, <2>4, <2>5 DEF RetryStep
<1> QED
  BY <1>2, <1>3, <1>4, <1>5, <1>6, <1>7, <1>8 DEF Next

\* Rewriting an element leaves what the retry covers, and the other retries, alone.
LEMMA RewritesKeep ==
  ASSUME Typed, NEW r \in Retries, RewriteElement(r)
  PROVE  /\ retry'[r].covers = retry[r].covers /\ retry'[r].fallback = retry[r].fallback
         /\ \A q \in Retries : q # r => retry'[q] = retry[q]
<1>1. PICK e \in retry[r].todo :
        retry' = [retry EXCEPT ![r].todo = retry[r].todo \ {e},
                    ![r].started = IF retry[r].todo \ {e} = {} THEN {} ELSE retry[r].started,
                    ![r].pc = IF retry[r].todo \ {e} = {} THEN "done" ELSE "rewrite"]
  BY DEF RewriteElement, Typed, RetryRecord
<1> DEFINE started == IF retry[r].todo \ {e} = {} THEN {} ELSE retry[r].started
           pc == IF retry[r].todo \ {e} = {} THEN "done" ELSE "rewrite"
<1>2. retry' = [retry EXCEPT ![r] = [@ EXCEPT !.todo = retry[r].todo \ {e},
                                              !.started = started, !.pc = pc]]
  BY <1>1
<1> HIDE DEF started, pc
<1> QED
  BY <1>2 DEF Typed, RetryRecord

\* Neither a failed statement nor a retry that fell back is ever forgotten.
LEMMA CalmOnlyBefore ==
  ASSUME Typed, OneRetry, [Next]_vars, Calm'
  PROVE  Calm
<1>0. faults.db \in Nat /\ \A r \in Retries : retry[r] \in RetryRecord
  BY DEF Typed
<1>1. UNCHANGED <<faults, retry>> => Calm
  BY DEF Calm, FellBack
<1>3. DbFault => FALSE
  BY <1>0 DEF Calm, DbFault, Typed
<1>4. CASE UNCHANGED vars
  BY <1>1, <1>4 DEF vars
<1>5. CASE OrderCompletes \/ OrderFails
  BY <1>1, <1>5 DEF OrderCompletes, OrderFails
<1>6. ASSUME NEW t \in Tears, Requests(t) \/ TearStep(t) \/ TearFaults(t)
      PROVE  Calm
  <2>1. CASE Requests(t)
    BY <1>1, <2>1 DEF Requests, DecommissionInfra, SweepDueDecommissions, DeleteProject, Begins
  <2>2. CASE TearStep(t)
    BY <1>1, <2>2
    DEF TearStep, Claim, ClaimRefused, BeginReads, BeginElementTriggerRun, DestroyStarts,
        DestroyFails, RecordElementPipelineId, Unclaim, RestoreElementTriggerRun,
        FinishElementTriggerRun, PutBack, RetireProject
  <2>3. CASE RecordLost(t) \/ TearThrows(t) \/ PutBackFails(t)
    BY <1>3, <2>3 DEF RecordLost, TearThrows, PutBackFails
  <2>4. CASE TearDies(t)
    BY <2>4 DEF TearDies, Death, Calm, FellBack, Typed
  <2> QED
    BY <1>6, <2>1, <2>2, <2>3, <2>4 DEF TearFaults
<1>7. ASSUME NEW h \in Handlers, HandlerStep(h)
      PROVE  Calm
  BY <1>1, <1>7 DEF HandlerStep, CallbackArrives, MergeSuccessEvent, MergeFailureEvent
<1>8. ASSUME NEW x \in Procs, SettleSwaps(x) \/ SettleThrows(x)
      PROVE  Calm
  BY <1>1, <1>3, <1>8 DEF SettleSwaps, SettleThrows
<1>9. ASSUME NEW r \in Retries, RetryClaim(r) \/ RetryStep(r)
      PROVE  Calm
  <2>1. ASSUME faults' = faults,
               retry[r].fallback => retry'[r].fallback,
               \A q \in Retries : q # r => retry'[q] = retry[q]
        PROVE  Calm
    BY <2>1 DEF Calm, FellBack
  <2>2. CASE RetryClaim(r)
    BY <1>0, <2>1, <2>2 DEF RetryClaim, Typed, RetryRecord
  <2>3. CASE RetrySiblings(r)
    <3>1. ~retry[r].fallback
      BY <2>3 DEF RetrySiblings, OneRetry
    <3>2. \A q \in Retries : q # r => retry'[q] = retry[q]
      BY <2>3 DEF RetrySiblings, Typed
    <3> QED
      BY <2>1, <2>3, <3>1, <3>2 DEF RetrySiblings
  <2>4. CASE ApplyStarts(r) \/ ApplyFails(r)
    <3>1. PICK e, s : RetryMoves(r, e, s)
      BY <2>4 DEF ApplyStarts, ApplyFails
    <3>2. /\ retry'[r].fallback = retry[r].fallback
          /\ \A q \in Retries : q # r => retry'[q] = retry[q]
      BY <1>0, <3>1 DEF RetryMoves, Typed, RetryRecord
    <3> QED
      BY <2>1, <2>4, <3>2 DEF ApplyStarts, ApplyFails
  <2>5. CASE RewriteElement(r)
    BY <2>1, <2>5, RewritesKeep DEF RewriteElement
  <2>6. CASE ReleaseRetryClaim(r)
    BY <1>0, <2>1, <2>6 DEF ReleaseRetryClaim, Typed, RetryRecord
  <2> QED
    BY <1>9, <2>2, <2>3, <2>4, <2>5, <2>6 DEF RetryStep
<1> QED
  BY <1>4, <1>5, <1>6, <1>7, <1>8, <1>9 DEF Next

\* A step of one teardown that keeps what it holds, or lets go of it.
LEMMA QuietTear ==
  ASSUME Typed, Excluded, OneRetry, NEW t \in Tears,
         UNCHANGED retry,
         \A e \in Elements : est'[e] = "active" <=> est[e] = "active",
         \A u \in Tears, e \in Elements, k \in 1 .. LastTrigger : Runs(u, e, k)' => Runs(u, e, k),
         \A u \in Tears : u # t => tear'[u] = tear[u],
         tear'[t].pc # "putback",
         tear'[t].pc = "unclaim" => tear'[t].started = {},
         tear'[t].pc \in HotPcs =>
           /\ tear[t].pc \in HotPcs
           /\ tear'[t].e = tear[t].e /\ tear'[t].started = tear[t].started
  PROVE  Excluded'
<1>1. \A u \in Tears, e \in Elements :
        Hot(u, e)' => Hot(u, e) /\ tear[u].started \subseteq tear'[u].started
  BY DEF Hot
<1>2. \A u \in Tears : At(u, "unclaim")' => tear'[u].started = {}
  BY DEF At, Excluded, NothingToUnclaim
<1>3. \A u \in Tears : ~At(u, "putback")'
  BY DEF At, Excluded, NothingThrown
<1>4. \A r \in Retries : retry[r].covers \subseteq Elements
  BY DEF Typed, RetryRecord
<1>5. \A r \in Retries : RetryOver(r)' <=> RetryOver(r)
  BY DEF RetryOver
<1> QED
  BY <1>1, <1>2, <1>3, <1>4, <1>5, QuietStep

LEMMA ExcludedStep ==
  ASSUME Typed, NoProject, OneRetry, Excluded, ~FellBack', faults'.db = 0, [Next]_vars
  PROVE  Excluded'
<1>0. /\ \A t \in Tears : tear[t] \in TearRecord /\ InRange(tear[t])
      /\ \A r \in Retries : retry[r] \in RetryRecord
      /\ \A r \in Retries : retry[r].covers \subseteq Elements
  BY DEF Typed, GoodTear, RetryRecord
<1> DEFINE SameActive == \A e \in Elements : est'[e] = "active" <=> est[e] = "active"
           NoNewRun == \A u \in Tears, e \in Elements, k \in 1 .. LastTrigger :
                         Runs(u, e, k)' => Runs(u, e, k)
           Only(t) == \A u \in Tears : u # t => tear'[u] = tear[u]
<1>1. \A t \in Tears, failed \in BOOLEAN : Left(t, failed).pc \in {"claim", "retire", "done"}
  BY <1>0 DEF Left, TearRecord
<1>2. UNCHANGED est => SameActive
  OBVIOUS
<1>3. UNCHANGED ci => NoNewRun
  BY DEF Runs
<1>4. ASSUME UNCHANGED tear
      PROVE  /\ \A t \in Tears, e \in Elements :
                  Hot(t, e)' => Hot(t, e) /\ tear[t].started \subseteq tear'[t].started
             /\ \A t \in Tears : At(t, "unclaim")' => tear'[t].started = {}
             /\ \A t \in Tears : ~At(t, "putback")'
  BY <1>4 DEF Hot, At, Excluded, NothingToUnclaim, NothingThrown
<1>5. ASSUME UNCHANGED retry
      PROVE  \A r \in Retries :
               /\ retry'[r].covers \subseteq Elements
               /\ RetryOver(r)' \/ (~RetryOver(r) /\ retry'[r].covers = retry[r].covers)
  BY <1>0, <1>5 DEF RetryOver
<1>6. CASE UNCHANGED vars
  BY <1>2, <1>3, <1>4, <1>5, <1>6, QuietStep DEF vars, rowVars
<1>7. CASE OrderCompletes
  <2>1. NoNewRun
    <3>1. \A u \in Tears, e \in Elements, k \in 1 .. LastTrigger : <<u, e, k>> \in Pids
      BY PidsOf
    <3>2. \A p \in Pids : ci'[p] = "running" => ci[p] = "running"
      BY <1>7 DEF OrderCompletes
    <3> QED
      BY <3>1, <3>2 DEF Runs
  <2> QED
    BY <1>2, <1>4, <1>5, <1>7, <2>1, QuietStep DEF OrderCompletes
<1>8. CASE OrderFails
  BY <1>2, <1>3, <1>4, <1>5, <1>8, QuietStep DEF OrderFails
<1>9. ASSUME NEW t \in Tears, Requests(t)
      PROVE  Excluded'
  <2>1. ASSUME NEW kind, NEW todo, Begins(t, kind, todo)
        PROVE  Excluded'
    <3>1. tear'[t].pc \in {"retire", "claim"} /\ Only(t)
      BY <1>0, <2>1 DEF Begins, Typed, TearRecord
    <3> QED
      BY <1>2, <1>3, <2>1, <3>1, QuietTear DEF Begins, rowVars, HotPcs
  <2> QED
    BY <1>9, <2>1 DEF Requests, DecommissionInfra, SweepDueDecommissions, DeleteProject
<1>10. ASSUME NEW t \in Tears, TearStep(t)
       PROVE  Excluded'
  <2>0. ASSUME UNCHANGED <<ci, retry>>, SameActive, Only(t),
               tear'[t].pc \in {"claim", "retire", "done", "settling", "restore"}
        PROVE  Excluded'
    BY <1>3, <2>0, QuietTear DEF HotPcs
  <2>1. CASE Claim(t)
    <3>1. PICK e \in tear[t].todo :
            /\ MayClaim(t, e)
            /\ est' = [est EXCEPT ![e] = "decommissioning"]
            /\ tear' = [tear EXCEPT ![t].e = {e}, ![t].pc = "read"]
      BY <2>1 DEF Claim
    <3>2. est[e] = "active" /\ \A r \in Retries : RetryOver(r)
      BY <3>1 DEF MayClaim, NoProject, OneRetry, Undecided
    <3>3. /\ tear'[t].pc = "read" /\ tear'[t].e = {e} /\ Only(t)
          /\ \A f \in Elements : est'[f] = "active" => est[f] = "active" /\ f # e
      BY <1>0, <3>1 DEF Typed, TearRecord
    <3>4. e \in Elements
      BY <1>0 DEF TearRecord
    <3>5. UNCHANGED <<ci, retry>>
      BY <2>1 DEF Claim
    <3>6. \A u \in Tears : ~Hot(u, e)
      BY <3>2, <3>4 DEF Excluded, HeldAreClaimed
    <3>7. \A u \in Tears, k \in 1 .. LastTrigger : ~Runs(u, e, k)
      BY <3>2, <3>4 DEF Excluded, RunningIsClaimed
    <3>8. \A u \in Tears, f \in Elements :
            Hot(u, f)' <=> IF u = t THEN f = e ELSE Hot(u, f)
      BY <3>3 DEF Hot, HotPcs
    <3>9. CoveredAreActive'
      BY <3>2, <3>5 DEF CoveredAreActive, RetryOver
    <3>10. HeldAreClaimed' /\ HeldByOne'
      BY <3>3, <3>6, <3>8 DEF Excluded, HeldAreClaimed, HeldByOne
    <3>11. RunningIsHolders'
      BY <1>3, <3>3, <3>5, <3>7, <3>8 DEF Excluded, RunningIsHolders
    <3>12. RunningIsClaimed'
      BY <1>3, <3>3, <3>5, <3>7 DEF Excluded, RunningIsClaimed
    <3>13. NothingToUnclaim' /\ NothingThrown'
      BY <3>3 DEF Excluded, NothingToUnclaim, NothingThrown, At
    <3> QED
      BY <3>9, <3>10, <3>11, <3>12, <3>13 DEF Excluded
  <2>2. CASE ClaimRefused(t)
    <3>1. tear'[t].pc \in {"claim", "retire", "done"} /\ Only(t)
      <4>1. PICK todo, pc : /\ tear' = [tear EXCEPT ![t].todo = todo, ![t].pc = pc]
                            /\ pc \in {"claim", "retire", "done"}
        BY <2>2 DEF ClaimRefused
      <4> QED
        BY <1>0, <4>1 DEF Typed, TearRecord
    <3> QED
      BY <1>2, <2>0, <2>2, <3>1 DEF ClaimRefused, rowVars
  <2>3. CASE BeginReads(t)
    <3>1. /\ tear[t].pc = "read" /\ tear'[t].pc = "begin" /\ Only(t)
          /\ tear'[t].e = tear[t].e /\ tear'[t].started = tear[t].started
      BY <1>0, <2>3 DEF BeginReads, At, Typed, TearRecord
    <3> QED
      BY <1>2, <1>3, <2>3, <3>1, QuietTear DEF BeginReads, rowVars, HotPcs
  <2>4. CASE BeginElementTriggerRun(t)
    <3>1. /\ tear[t].pc = "begin" /\ tear'[t].pc = "fire" /\ Only(t)
          /\ tear'[t].e = tear[t].e /\ tear'[t].started = tear[t].started
      BY <1>0, <2>4 DEF BeginElementTriggerRun, Goto, At, Typed, TearRecord
    <3> QED
      BY <1>2, <1>3, <2>4, <3>1, QuietTear DEF BeginElementTriggerRun, HotPcs
  <2>5. CASE DestroyStarts(t)
    <3>1. PICK e \in tear[t].e :
            /\ ci' = [ci EXCEPT ![<<t, e, tear[t].k>>] = "running"]
            /\ tear' = [tear EXCEPT ![t].started = @ \union {<<t, e, tear[t].k>>},
                                   ![t].pc = "record"]
      BY <2>5 DEF DestroyStarts
    <3>2. tear[t].pc = "fire" /\ e \in Elements
      BY <1>0, <2>5 DEF DestroyStarts, At, TearRecord
    <3>3. /\ tear'[t].pc = "record" /\ tear'[t].e = tear[t].e /\ Only(t)
          /\ tear'[t].started = tear[t].started \union {<<t, e, tear[t].k>>}
      BY <1>0, <3>1 DEF Typed, TearRecord
    <3>4. UNCHANGED <<est, retry>>
      BY <2>5 DEF DestroyStarts, rowVars
    <3>5. Hot(t, e) /\ \A u \in Tears : Hot(u, e) => u = t
      BY <3>2 DEF Hot, HotPcs, Excluded, HeldByOne
    <3>6. \A u \in Tears, f \in Elements : Hot(u, f)' <=> Hot(u, f)
      BY <3>2, <3>3 DEF Hot, HotPcs
    <3>7. \A u \in Tears, f \in Elements, k \in 1 .. LastTrigger :
            Runs(u, f, k)' => Runs(u, f, k) \/ (u = t /\ f = e /\ k = tear[t].k)
      BY <3>1, PidsOf DEF Runs, Typed
    <3>8. CoveredAreActive' /\ HeldAreClaimed' /\ HeldByOne'
      BY <3>4, <3>6 DEF Excluded, CoveredAreActive, HeldAreClaimed, HeldByOne, RetryOver
    <3>9. RunningIsHolders'
      <4> SUFFICES ASSUME NEW u \in Tears, NEW v \in Tears, NEW f \in Elements,
                          NEW k \in 1 .. LastTrigger, Hot(u, f)', Runs(v, f, k)'
                   PROVE  v = u /\ <<v, f, k>> \in tear'[u].started
        BY DEF RunningIsHolders
      <4>1. Hot(u, f)
        BY <3>6
      <4>2. CASE Runs(v, f, k)
        BY <3>3, <4>1, <4>2 DEF Excluded, RunningIsHolders
      <4>3. CASE v = t /\ f = e /\ k = tear[t].k
        BY <3>3, <3>5, <4>1, <4>3
      <4> QED
        BY <3>7, <4>2, <4>3
    <3>10. RunningIsClaimed'
      BY <3>4, <3>5, <3>7 DEF Excluded, RunningIsClaimed, HeldAreClaimed
    <3>11. NothingToUnclaim' /\ NothingThrown'
      BY <3>3 DEF Excluded, NothingToUnclaim, NothingThrown, At
    <3> QED
      BY <3>8, <3>9, <3>10, <3>11 DEF Excluded
  <2>6. \A missed : /\ AfterTrigger(t, tear[t].started, missed) \in {"fire", "unclaim", "close"}
                    /\ AfterTrigger(t, tear[t].started, missed) = "unclaim"
                         => tear[t].started = {}
    BY DEF AfterTrigger
  <2>7. CASE DestroyFails(t)
    <3>1. /\ tear[t].pc = "fire" /\ tear'[t].pc = AfterTrigger(t, tear[t].started, TRUE)
          /\ tear'[t].e = tear[t].e /\ tear'[t].started = tear[t].started /\ Only(t)
      BY <1>0, <2>7 DEF DestroyFails, At, Typed, TearRecord
    <3>2. /\ tear'[t].pc # "putback" /\ tear[t].pc \in HotPcs
          /\ tear'[t].pc = "unclaim" => tear'[t].started = {}
      BY <2>6, <3>1 DEF HotPcs
    <3> QED
      BY <1>2, <1>3, <2>7, <3>1, <3>2, QuietTear DEF DestroyFails, rowVars
  <2>8. CASE RecordElementPipelineId(t)
    <3>1. /\ tear[t].pc = "record"
          /\ tear'[t].pc = AfterTrigger(t, tear[t].started, tear[t].missed)
          /\ tear'[t].e = tear[t].e /\ tear'[t].started = tear[t].started /\ Only(t)
      BY <1>0, <2>8 DEF RecordElementPipelineId, At, Typed, TearRecord
    <3>2. /\ tear'[t].pc # "putback" /\ tear[t].pc \in HotPcs
          /\ tear'[t].pc = "unclaim" => tear'[t].started = {}
      BY <2>6, <3>1 DEF HotPcs
    <3> QED
      BY <1>2, <1>3, <2>8, <3>1, <3>2, QuietTear DEF RecordElementPipelineId
  <2>9. CASE Unclaim(t)
    <3>1. PICK e \in tear[t].e : est' = [est EXCEPT ![e] = "active"]
      BY <2>9 DEF Unclaim
    <3>2. tear[t].pc = "unclaim" /\ tear[t].started = {} /\ e \in Elements
      BY <1>0, <2>9 DEF Unclaim, At, Excluded, NothingToUnclaim, TearRecord
    <3>3. tear'[t].pc = "restore" /\ Only(t)
      BY <1>0, <2>9 DEF Unclaim, Goto, Typed, TearRecord
    <3>4. UNCHANGED <<ci, retry>>
      BY <2>9 DEF Unclaim
    <3>5. Hot(t, e) /\ \A u \in Tears : Hot(u, e) => u = t
      BY <3>2 DEF Hot, HotPcs, Excluded, HeldByOne
    <3>6. \A u \in Tears, k \in 1 .. LastTrigger : ~Runs(u, e, k)
      BY <3>2, <3>5 DEF Excluded, RunningIsHolders
    <3>7. \A u \in Tears, f \in Elements : Hot(u, f)' => Hot(u, f) /\ u # t /\ f # e
      BY <3>3, <3>5 DEF Hot, HotPcs
    <3>8. \A f \in Elements : f # e => est'[f] = est[f]
      BY <3>1 DEF Typed
    <3>9. CoveredAreActive'
      BY <1>0, <3>1, <3>4 DEF Excluded, CoveredAreActive, RetryOver, Typed
    <3>10. HeldAreClaimed' /\ HeldByOne'
      BY <3>7, <3>8 DEF Excluded, HeldAreClaimed, HeldByOne
    <3>11. RunningIsHolders'
      BY <1>3, <3>3, <3>4, <3>7 DEF Excluded, RunningIsHolders
    <3>12. RunningIsClaimed'
      BY <1>3, <3>4, <3>6, <3>8 DEF Excluded, RunningIsClaimed
    <3>13. NothingToUnclaim' /\ NothingThrown'
      BY <3>3 DEF Excluded, NothingToUnclaim, NothingThrown, At
    <3> QED
      BY <3>9, <3>10, <3>11, <3>12, <3>13 DEF Excluded
  <2>10. ASSUME NEW failed \in BOOLEAN, Leave(t, failed)
         PROVE  tear'[t].pc \in {"claim", "retire", "done"} /\ Only(t)
    BY <1>1, <2>10 DEF Leave, Typed
  <2>11. CASE RestoreElementTriggerRun(t)
    BY <1>2, <2>0, <2>10, <2>11 DEF RestoreElementTriggerRun
  <2>12. CASE FinishElementTriggerRun(t)
    <3>1. Goto(t, "settling") \/ Leave(t, tear[t].missed)
      BY <2>12 DEF FinishElementTriggerRun
    <3>2. Goto(t, "settling") => tear'[t].pc = "settling" /\ Only(t)
      BY <1>0 DEF Goto, Typed, TearRecord
    <3>3. tear[t].missed \in BOOLEAN
      BY <1>0 DEF TearRecord
    <3> QED
      BY <1>2, <2>0, <2>10, <2>12, <3>1, <3>2, <3>3 DEF FinishElementTriggerRun
  <2>13. CASE PutBack(t)
    BY <2>13 DEF PutBack, Excluded, NothingThrown
  <2>14. CASE RetireProject(t)
    <3>1. tear'[t].pc = "done" /\ Only(t)
      BY <1>0, <2>14 DEF RetireProject, Goto, Typed, TearRecord
    <3> QED
      BY <1>2, <2>0, <2>14, <3>1 DEF RetireProject
  <2> QED
    BY <1>10, <2>1, <2>2, <2>3, <2>4, <2>5, <2>7, <2>8, <2>9, <2>11, <2>12, <2>13, <2>14
    DEF TearStep
<1>11. ~DbFault
  BY DEF DbFault, Typed
<1>12. ASSUME NEW t \in Tears, TearFaults(t)
       PROVE  Excluded'
  <2>1. TearDies(t)
    BY <1>11, <1>12 DEF TearFaults, RecordLost, TearThrows, PutBackFails
  <2>2. tear'[t].pc = "done" /\ Only(t)
    BY <2>1 DEF TearDies, FreshTear, Typed
  <2> QED
    BY <1>2, <1>3, <2>1, <2>2, QuietTear DEF TearDies, rowVars, HotPcs
<1>13. ASSUME NEW h \in Handlers, HandlerStep(h)
       PROVE  Excluded'
  <2>1. UNCHANGED <<est, tear, retry>>
    BY <1>13 DEF HandlerStep, CallbackArrives, MergeSuccessEvent, MergeFailureEvent, rowVars
  <2>2. NoNewRun
    <3>1. CASE CallbackArrives(h)
      <4>1. PICK p \in Pids, v \in {"success", "failed"} : ci' = [ci EXCEPT ![p] = v]
        BY <3>1 DEF CallbackArrives
      <4> QED
        BY <4>1, PidsOf DEF Runs, Typed
    <3>2. CASE MergeSuccessEvent(h) \/ MergeFailureEvent(h)
      BY <1>3, <3>2 DEF MergeSuccessEvent, MergeFailureEvent
    <3> QED
      BY <1>13, <3>1, <3>2 DEF HandlerStep
  <2> QED
    BY <1>2, <1>4, <1>5, <2>1, <2>2, QuietStep
<1>14. ASSUME NEW x \in Procs, SettleSwaps(x) \/ SettleThrows(x)
       PROVE  Excluded'
  <2>1. SettleSwaps(x)
    BY <1>11, <1>14 DEF SettleThrows
  <2>2. SameActive
    BY <2>1 DEF SettleSwaps, Swapped, SwapMatches
  <2>3. CASE x \in Tears
    <3>1. Leave(x, tear[x].missed) /\ tear[x].missed \in BOOLEAN
      BY <1>0, <2>1, <2>3 DEF SettleSwaps, TearRecord
    <3>2. tear'[x].pc \in {"claim", "retire", "done"} /\ Only(x)
      BY <1>1, <2>3, <3>1 DEF Leave, Typed
    <3> QED
      BY <1>3, <2>1, <2>2, <2>3, <3>2, QuietTear DEF SettleSwaps, HotPcs
  <2>4. CASE x \notin Tears
    BY <1>3, <1>4, <1>5, <2>1, <2>2, <2>4, QuietStep DEF SettleSwaps
  <2> QED
    BY <2>3, <2>4
<1>15. ASSUME NEW r \in Retries, RetryClaim(r) \/ RetryStep(r)
       PROVE  Excluded'
  <2> DEFINE OnlyRetry == \A q \in Retries : q # r => retry'[q] = retry[q]
             Same == retry'[r].covers = retry[r].covers
  <2>0. ASSUME UNCHANGED tear, SameActive, NoNewRun, OnlyRetry, Same,
               RetryOver(r)' \/ retry'[r].covers = {} \/ ~RetryOver(r)
        PROVE  Excluded'
    BY <1>0, <1>4, <2>0, QuietStep DEF RetryOver
  <2>1. CASE RetryClaim(r)
    <3>1. OnlyRetry /\ Same /\ retry[r].covers = {}
      BY <1>0, <2>1 DEF RetryClaim, Typed, RetryRecord, OneRetry
    <3> QED
      BY <1>2, <1>3, <2>0, <2>1, <3>1 DEF RetryClaim
  <2>2. CASE RetrySiblings(r)
    <3> DEFINE covers == IF Active # {} THEN Active ELSE retry[r].asked
    <3>1. /\ OnlyRetry /\ retry'[r].covers = covers
          /\ retry'[r].fallback = (Active = {})
      BY <1>0, <2>2 DEF RetrySiblings, Typed, RetryRecord
    <3>2. covers = Active
      BY <3>1 DEF FellBack
    <3>3. UNCHANGED <<est, ci, tear>>
      BY <2>2 DEF RetrySiblings, rowVars
    <3>4. CoveredAreActive'
      BY <3>1, <3>2, <3>3 DEF Excluded, CoveredAreActive, RetryOver, Active
    <3>5. HeldAreClaimed' /\ HeldByOne' /\ RunningIsHolders'
      BY <3>3 DEF Excluded, HeldAreClaimed, HeldByOne, RunningIsHolders, Hot, Runs
    <3>6. NothingToUnclaim' /\ RunningIsClaimed' /\ NothingThrown'
      BY <3>3 DEF Excluded, NothingToUnclaim, RunningIsClaimed, NothingThrown, At, Runs
    <3> QED
      BY <3>4, <3>5, <3>6 DEF Excluded
  <2>3. CASE ApplyStarts(r) \/ ApplyFails(r)
    <3>1. PICK e, s : RetryMoves(r, e, s)
      BY <2>3 DEF ApplyStarts, ApplyFails
    <3>2. OnlyRetry /\ Same
      BY <1>0, <3>1 DEF RetryMoves, Typed, RetryRecord
    <3>3. ~RetryOver(r) /\ UNCHANGED <<est, tear>>
      BY <2>3 DEF ApplyStarts, ApplyFails, RetryOver, rowVars
    <3>4. NoNewRun
      <4>1. CASE ApplyStarts(r)
        <5>1. PICK f \in retry[r].todo : ci' = [ci EXCEPT ![ApplyOf(r, f)] = "running"]
          BY <4>1 DEF ApplyStarts
        <5>2. \A u \in Tears : \A g, k : <<u, g, k>> # ApplyOf(r, f)
          BY Numbers DEF ApplyOf
        <5> QED
          BY <5>1, <5>2, PidsOf DEF Runs, Typed
      <4>2. CASE ApplyFails(r)
        BY <1>3, <4>2 DEF ApplyFails
      <4> QED
        BY <2>3, <4>1, <4>2
    <3> QED
      BY <1>2, <2>0, <3>2, <3>3, <3>4
  <2>4. CASE RewriteElement(r)
    <3>1. PICK e \in retry[r].todo : est' = [est EXCEPT ![e] = "active"]
      BY <2>4 DEF RewriteElement
    <3>2. ~RetryOver(r) /\ UNCHANGED <<ci, tear>>
      BY <2>4 DEF RewriteElement, RetryOver
    <3>3. est[e] = "active"
      BY <3>2 DEF Excluded, CoveredAreActive, OneRetry
    <3>4. SameActive
      BY <3>1, <3>3 DEF Typed
    <3>5. OnlyRetry /\ Same
      BY <2>4, RewritesKeep
    <3> QED
      BY <1>3, <2>0, <3>2, <3>4, <3>5
  <2>5. CASE ReleaseRetryClaim(r)
    <3>1. OnlyRetry /\ Same /\ ~RetryOver(r)
      BY <1>0, <2>5 DEF ReleaseRetryClaim, RetryOver, Typed, RetryRecord
    <3> QED
      BY <1>2, <1>3, <2>0, <2>5, <3>1 DEF ReleaseRetryClaim
  <2> QED
    BY <1>15, <2>1, <2>2, <2>3, <2>4, <2>5 DEF RetryStep
<1> QED
  BY <1>6, <1>7, <1>8, <1>9, <1>10, <1>12, <1>13, <1>14, <1>15 DEF Next

\* With the button and the sweep, and as long as an order is not failed while its
\* retry still fires, a destroy and an apply never meet on an element: a claim
\* waits for the order's verdict, and a retry takes only what is unclaimed.
THEOREM DestroyAndApplyExclude ==
  ASSUME "project" \notin Kinds, ~EarlyFailure
  PROVE  Spec => []NoDestroyDuringApply
<1>1. Init => ExclusionInv
  BY InitExclusion
<1>2. ExclusionInv /\ [Next]_vars => ExclusionInv'
  <2> SUFFICES ASSUME ExclusionInv, [Next]_vars PROVE ExclusionInv'
    OBVIOUS
  <2>1. Typed'
    BY StepTyped DEF ExclusionInv
  <2>2. NoProject' /\ OneRetry'
    BY NoProjectStep, OneRetryStep DEF ExclusionInv
  <2>3. Calm' => Excluded'
    <3> SUFFICES ASSUME Calm' PROVE Excluded'
      OBVIOUS
    <3>1. Excluded
      BY CalmOnlyBefore DEF ExclusionInv
    <3>2. ~FellBack' /\ faults'.db = 0
      BY DEF Calm
    <3> QED
      BY <3>1, <3>2, ExcludedStep DEF ExclusionInv
  <2> QED
    BY <2>1, <2>2, <2>3 DEF ExclusionInv
<1>3. ExclusionInv => NoDestroyDuringApply
  BY Exclusion
<1> QED
  BY <1>1, <1>2, <1>3, PTL DEF Spec

-----------------------------------------------------------------------------
(* What is decommissioned was destroyed                                    *)

\* A destroy has ended; nothing more is heard of it than what is on its way.
Ended(p, c) == c[p] \in {"success", "failed"}

\* A tracking that no callback of a destroy completes: it is being fired, a trigger of
\* it was missed, it lists an apply, or all it lists has ended.
OfApply(T) == \E p \in T.ids : p[1] \notin Tears
Inert(T, c) == T.st.firing \/ T.st.missed \/ OfApply(T) \/ \A p \in T.ids : Ended(p, c)
Truthful(T, c) == \A p \in T.st.good : p[1] \in Tears /\ c[p] = "success"

Resting == {"idle", "claim", "retire", "done"}
Unopened == {"read", "begin"}
Firing == {"fire", "record", "unclaim", "restore", "close"}
Acting == {"read", "begin", "fire", "record", "unclaim", "close"}
Keeping == {"begin", "fire", "record", "unclaim", "restore", "close"}
Leaving == {"unclaim", "restore", "putback", "settling"}

\* A request by itself: it holds one element of its list, or none.
OneAtATime(T) ==
  /\ T.e \subseteq T.todo
  /\ T.pc \in Resting => T.e = {}
  /\ T.pc \notin Resting => \E e \in Elements : T.e = {e}
  /\ T.pc \in {"idle", "claim", "read", "begin"} => T.k = 1

\* The trigger has not been tried by the request.
Untried(t, e, k) ==
  \/ At(t, "idle")
  \/ /\ e \in tear[t].todo
     /\ Holds(t, e) => \/ tear[t].pc \in Unopened
                       \/ At(t, "fire") /\ k >= tear[t].k
                       \/ At(t, "record") /\ k > tear[t].k

\* What holds of the requests and callbacks whatever they do to the elements.
Orderly ==
  /\ \A t \in Tears : OneAtATime(tear[t]) /\ Truthful(tear[t].previous, ci)
  /\ \A t \in Tears : settle[t] # {} => At(t, "settling")
  /\ \A t \in Tears : \A s \in settle[t] : Holds(t, s.e)
  /\ \A t \in Tears, e \in Elements, k \in 1 .. LastTrigger :
       Untried(t, e, k) => ci[<<t, e, k>>] = "none"
  /\ \A e \in Elements : Truthful(track[e], ci)
  /\ \A h \in Handlers : \A ev \in hnd[h] :
       /\ ev.p[1] \in Tears /\ Ended(ev.p, ci)
       /\ ev.verdict = "success" => ci[ev.p] = "success"
  /\ \A r \in Retries : /\ retry[r].pc \in {"idle", "siblings"} => retry[r].covers = {}
                        /\ retry[r].todo \subseteq retry[r].covers
                        /\ \A p \in retry[r].started : p[1] = r

\* No callback that is on its way completes the element's tracking.
Silent(e) == \A h \in Handlers : \A ev \in hnd[h] : ev.p[2] # e
Stuck(e) ==
  \/ track[e].st.firing \/ track[e].st.missed \/ OfApply(track[e])
  \/ Silent(e) /\ \A p \in track[e].ids : Ended(p, ci)
Complete(e) == \A k \in 1 .. LastTrigger : <<holder[e], e, k>> \in track[e].ids
NoVerdict(e) == \A x \in Procs : \A s \in settle[x] : s.e # e

\* Every trigger up to the present one has started, unless one was missed.
Walked(t, e) ==
  \A k \in 1 .. LastTrigger :
    \/ tear[t].missed \/ <<t, e, k>> \in tear[t].started
    \/ tear[t].pc \in Unopened \union Leaving
    \/ At(t, "fire") /\ k >= tear[t].k
    \/ At(t, "record") /\ k > tear[t].k

\* The request that holds e is the one that claimed it last, and nobody deploys it.
Holding(t, e) ==
  /\ t = holder[e] /\ ~Deploying(e) /\ Inert(track[e], ci)
  /\ tear[t].pc \in Unopened => Stuck(e)
  /\ tear[t].pc \in Firing => track[e].st.firing
  /\ tear[t].pc \in Keeping => Inert(tear[t].previous, ci)
  /\ tear[t].pc \in Acting => est[e] = "decommissioning"
  /\ At(t, "restore") => est[e] = "active"
  /\ tear[t].pc \in Unopened \union Firing => NoVerdict(e)
  /\ Walked(t, e)

Row(e) ==
  /\ est[e] = "active" => Inert(track[e], ci)
  /\ est[e] = "decommissioning" => holder[e] \in Tears /\ (Stuck(e) \/ Complete(e))

Verdicts(e) == \A x \in Procs : \A s \in settle[x] : s.e = e => Destroyed(e)

Sound(e) == (\A t \in Tears : Holds(t, e) => Holding(t, e)) /\ Row(e) /\ Verdicts(e)

DestroyInv == Orderly /\ \A e \in Elements \ stale : Sound(e)

-----------------------------------------------------------------------------
(* Pipelines                                                               *)

LEMMA RecordsTyped ==
  ASSUME Typed
  PROVE  /\ \A t \in Tears : tear[t] \in TearRecord /\ InRange(tear[t])
         /\ \A r \in Retries : retry[r] \in RetryRecord
         /\ \A e \in Elements : track[e] \in TrackingOf(Pids)
BY DEF Typed, GoodTear

\* A destroy that has ended stays as it is.
EndsStay == \A p \in Pids : p[1] \in Tears /\ Ended(p, ci) => ci'[p] = ci[p]

LEMMA EndsStep ==
  ASSUME Typed, Orderly, [Next]_vars
  PROVE  EndsStay
<1>1. CASE UNCHANGED ci
  BY <1>1 DEF EndsStay
<1>2. CASE OrderCompletes
  <2>1. attempt \in Attempts
    BY DEF Typed
  <2>2. \A p \in Pids : p[1] \in Tears => ~ \E e \in Covered : p = ApplyOf(attempt, e)
    BY <2>1, Numbers DEF ApplyOf
  <2>3. ci' = [p \in Pids |-> IF \E e \in Covered : p = ApplyOf(attempt, e)
                                THEN "success" ELSE ci[p]]
    BY <1>2 DEF OrderCompletes
  <2> QED
    BY <2>2, <2>3 DEF EndsStay
<1>3. ASSUME NEW t \in Tears, DestroyStarts(t)
      PROVE  EndsStay
  <2>1. PICK e \in tear[t].e : ci' = [ci EXCEPT ![<<t, e, tear[t].k>>] = "running"]
    BY <1>3 DEF DestroyStarts
  <2>2. /\ tear[t] \in TearRecord /\ At(t, "fire") /\ tear[t].k \in 1 .. LastTrigger
    BY <1>3, RecordsTyped DEF DestroyStarts, At, InRange
  <2>3. e \in Elements /\ e \in tear[t].todo /\ tear[t].k >= tear[t].k
    BY <2>1, <2>2 DEF TearRecord, Orderly, OneAtATime
  <2>4. Untried(t, e, tear[t].k)
    BY <2>2, <2>3 DEF Untried
  <2>5. ci[<<t, e, tear[t].k>>] = "none"
    BY <2>2, <2>3, <2>4 DEF Orderly
  <2> QED
    BY <2>1, <2>5 DEF EndsStay, Ended, Typed
<1>4. ASSUME NEW h \in Handlers, CallbackArrives(h)
      PROVE  EndsStay
  BY <1>4 DEF CallbackArrives, EndsStay, Ended, Typed
<1>5. ASSUME NEW r \in Retries, ApplyStarts(r)
      PROVE  EndsStay
  <2>1. PICK e \in retry[r].todo : ci' = [ci EXCEPT ![ApplyOf(r, e)] = "running"]
    BY <1>5 DEF ApplyStarts
  <2>2. \A p \in Pids : p[1] \in Tears => p # ApplyOf(r, e)
    BY Numbers DEF ApplyOf
  <2> QED
    BY <2>1, <2>2 DEF EndsStay, Typed
<1>6. ASSUME NEW t \in Tears, Requests(t) \/ TearStep(t) \/ TearFaults(t)
      PROVE  DestroyStarts(t) \/ UNCHANGED ci
  BY <1>6 DEF Requests, DecommissionInfra, SweepDueDecommissions, DeleteProject, Begins,
     TearStep, Claim, ClaimRefused, BeginReads, BeginElementTriggerRun, DestroyFails,
     RecordElementPipelineId, Unclaim, RestoreElementTriggerRun, FinishElementTriggerRun,
     PutBack, RetireProject, TearFaults, RecordLost, TearThrows, PutBackFails, TearDies
<1>7. ASSUME NEW h \in Handlers, HandlerStep(h)
      PROVE  CallbackArrives(h) \/ UNCHANGED ci
  BY <1>7 DEF HandlerStep, MergeSuccessEvent, MergeFailureEvent
<1>8. ASSUME NEW x \in Procs, SettleSwaps(x) \/ SettleThrows(x)
      PROVE  UNCHANGED ci
  BY <1>8 DEF SettleSwaps, SettleThrows
<1>9. ASSUME NEW r \in Retries, RetryClaim(r) \/ RetryStep(r)
      PROVE  ApplyStarts(r) \/ UNCHANGED ci
  BY <1>9 DEF RetryClaim, RetryStep, RetrySiblings, ApplyFails, RewriteElement, ReleaseRetryClaim
<1>10. OrderFails \/ UNCHANGED vars => UNCHANGED ci
  BY DEF OrderFails, vars
<1> QED
  BY <1>1, <1>2, <1>3, <1>4, <1>5, <1>6, <1>7, <1>8, <1>9, <1>10 DEF Next

\* What is said of a tracking by the destroys that have ended stays true.
LEMMA SaidStays ==
  ASSUME EndsStay, NEW T \in TrackingOf(Pids)
  PROVE  /\ Inert(T, ci) => Inert(T, ci')
         /\ Truthful(T, ci) => Truthful(T, ci')
<1>1. T.ids \subseteq Pids /\ T.st.good \subseteq Pids
  BY DEF TrackingOf, StatusMap
<1> QED
  BY <1>1 DEF EndsStay, Inert, Truthful, Ended, OfApply

-----------------------------------------------------------------------------
(* The requests                                                            *)

LEMMA LeftIs ==
  ASSUME Typed, NEW t \in Tears, NEW failed
  PROVE  /\ Left(t, failed).e = {} /\ Left(t, failed).k = 1
         /\ Left(t, failed).todo = tear[t].todo \ tear[t].e
         /\ Left(t, failed).previous = Cleared
         /\ Left(t, failed).pc \in {"claim", "retire", "done"}
         /\ OneAtATime(Left(t, failed))
<1>1. tear[t] \in TearRecord
  BY RecordsTyped
<1> DEFINE w == Left(t, failed)
<1>2. /\ w.e = {} /\ w.k = 1 /\ w.todo = tear[t].todo \ tear[t].e
      /\ w.previous = Cleared /\ w.pc \in {"claim", "retire", "done"}
  BY <1>1 DEF Left, TearRecord
<1> HIDE DEF w
<1>3. OneAtATime(w)
  BY <1>2 DEF OneAtATime, Resting
<1> QED
  BY <1>2, <1>3 DEF w

LEMMA ThrownIs ==
  ASSUME Typed, NEW t \in Tears, OneAtATime(tear[t]), tear[t].pc \notin Resting
  PROVE  /\ OneAtATime(Thrown(t))
         /\ \/ Thrown(t) = Left(t, TRUE)
            \/ /\ Thrown(t).pc = "putback" /\ Thrown(t).e = tear[t].e
               /\ Thrown(t).todo = tear[t].todo /\ Thrown(t).previous = tear[t].previous
<1>1. tear[t] \in TearRecord
  BY RecordsTyped
<1>2. CASE tear[t].project
  BY <1>2, LeftIs DEF Thrown
<1>3. CASE ~tear[t].project
  <2> DEFINE w == [tear[t] EXCEPT !.pc = "putback"]
  <2>1. Thrown(t) = w
    BY <1>3 DEF Thrown
  <2>2. w.pc = "putback" /\ w.e = tear[t].e /\ w.todo = tear[t].todo /\ w.previous = tear[t].previous
    BY <1>1 DEF TearRecord
  <2> HIDE DEF w
  <2> QED
    BY <2>1, <2>2 DEF OneAtATime, Resting
<1> QED
  BY <1>2, <1>3

\* A step of a request that is at work takes it on with its element, or ends that.
Onward(t, w) ==
  \/ w = Left(t, FALSE) \/ w = Left(t, TRUE)
  \/ /\ w.e = tear[t].e /\ w.todo = tear[t].todo
     /\ w.pc \notin Resting
     /\ w.pc \in Unopened => tear[t].pc \in Unopened /\ w.k = 1
     /\ w.pc = "fire" => \/ tear[t].pc \in Unopened
                         \/ tear[t].pc \in {"fire", "record"} /\ w.k = tear[t].k + 1
     /\ w.pc = "record" => At(t, "fire") /\ w.k = tear[t].k

LEMMA OnwardIs ==
  ASSUME Typed, NEW t \in Tears, OneAtATime(tear[t]), tear[t].pc \notin Resting,
         NEW w, Onward(t, w)
  PROVE  OneAtATime(w)
<1>1. w = Left(t, FALSE) \/ w = Left(t, TRUE) => OneAtATime(w)
  BY LeftIs
<1> QED
  BY <1>1 DEF Onward, OneAtATime, Resting, Unopened

LEMMA Narrows ==
  ASSUME Typed, NEW t \in Tears, NEW w, Onward(t, w)
  PROVE  w.e \subseteq tear[t].e
<1>1. Left(t, FALSE).e = {} /\ Left(t, TRUE).e = {}
  BY LeftIs
<1> QED
  BY <1>1 DEF Onward

\* The steps of a request that has claimed an element.
Works(t) ==
  \/ BeginReads(t) \/ BeginElementTriggerRun(t)
  \/ DestroyStarts(t) \/ DestroyFails(t) \/ RecordElementPipelineId(t) \/ RecordLost(t)
  \/ Unclaim(t) \/ RestoreElementTriggerRun(t) \/ FinishElementTriggerRun(t)
  \/ PutBack(t) \/ PutBackFails(t) \/ TearThrows(t)
  \/ SettleSwaps(t) \/ SettleThrows(t)

Remembers(t, w) ==
  \/ w.previous \in {Cleared, tear[t].previous}
  \/ \E e \in tear[t].e : w.previous = track[e]

LEMMA WorkIs ==
  ASSUME Typed, Orderly, NEW t \in Tears, Works(t)
  PROVE  /\ tear[t].pc \notin Resting
         /\ \E w : tear' = [tear EXCEPT ![t] = w] /\ Onward(t, w) /\ Remembers(t, w)
<1> DEFINE Goes == \E w : tear' = [tear EXCEPT ![t] = w] /\ Onward(t, w) /\ Remembers(t, w)
<1>0. /\ tear[t] \in TearRecord /\ tear[t].missed \in BOOLEAN /\ OneAtATime(tear[t])
      /\ tear \in [Tears -> TearRecord]
  BY RecordsTyped DEF TearRecord, Orderly, Typed, GoodTear
<1>1. \A w : w = Left(t, FALSE) \/ w = Left(t, TRUE) => Onward(t, w) /\ Remembers(t, w)
  BY LeftIs DEF Onward, Remembers
<1>2. ASSUME Leave(t, TRUE) \/ Leave(t, FALSE) \/ Leave(t, tear[t].missed)
      PROVE  Goes
  <2>1. PICK f \in BOOLEAN : tear' = [tear EXCEPT ![t] = Left(t, f)]
    BY <1>0, <1>2 DEF Leave
  <2> QED
    BY <1>1, <2>1
<1>3. ASSUME Throw(t), tear[t].pc \notin Resting
      PROVE  Goes
  <2>1. tear' = [tear EXCEPT ![t] = Thrown(t)]
    BY <1>3 DEF Throw
  <2>2. Onward(t, Thrown(t)) /\ Remembers(t, Thrown(t))
    BY <1>0, <1>1, <1>3, ThrownIs DEF Onward, Remembers, Resting, Unopened
  <2> QED
    BY <2>1, <2>2
<1>4. \A started, missed : AfterTrigger(t, started, missed) \in {"fire", "unclaim", "close"}
  BY DEF AfterTrigger
<1>5. ASSUME NEW pc, Goto(t, pc), pc \notin Resting \union {"read", "begin", "record"},
             pc = "fire" => At(t, "begin")
      PROVE  Goes
  <2> DEFINE w == [tear[t] EXCEPT !.pc = pc]
  <2>1. tear' = [tear EXCEPT ![t] = w]
    BY <1>0, <1>5 DEF Goto
  <2>2. w.pc = pc /\ w.e = tear[t].e /\ w.todo = tear[t].todo /\ w.previous = tear[t].previous
    BY <1>0 DEF TearRecord
  <2> HIDE DEF w
  <2>3. Onward(t, w) /\ Remembers(t, w)
    BY <1>5, <2>2 DEF Onward, Remembers, Unopened, At
  <2> QED
    BY <2>1, <2>3
<1>6. CASE BeginReads(t)
  <2>1. PICK e \in tear[t].e : tear' = [tear EXCEPT ![t].previous = track[e], ![t].pc = "begin"]
    BY <1>6 DEF BeginReads
  <2> DEFINE w == [tear[t] EXCEPT !.previous = track[e], !.pc = "begin"]
  <2>2. tear' = [tear EXCEPT ![t] = w] /\ tear[t].pc = "read"
    BY <1>0, <1>6, <2>1 DEF BeginReads, At
  <2>3. /\ w.pc = "begin" /\ w.e = tear[t].e /\ w.todo = tear[t].todo /\ w.previous = track[e]
        /\ w.k = tear[t].k
    BY <1>0 DEF TearRecord
  <2> HIDE DEF w
  <2>4. Onward(t, w) /\ Remembers(t, w)
    BY <1>0, <2>2, <2>3 DEF Onward, Remembers, OneAtATime, Resting, Unopened
  <2> QED
    BY <2>2, <2>4 DEF Resting
<1>7. CASE BeginElementTriggerRun(t)
  BY <1>5, <1>7 DEF BeginElementTriggerRun, Resting, At
<1>8. CASE DestroyStarts(t)
  <2>1. PICK p : tear' = [tear EXCEPT ![t].started = @ \union {p}, ![t].pc = "record"]
    BY <1>8 DEF DestroyStarts
  <2> DEFINE w == [tear[t] EXCEPT !.started = @ \union {p}, !.pc = "record"]
  <2>2. tear' = [tear EXCEPT ![t] = w] /\ tear[t].pc = "fire"
    BY <1>0, <1>8, <2>1 DEF DestroyStarts, At
  <2>3. /\ w.pc = "record" /\ w.e = tear[t].e /\ w.todo = tear[t].todo
        /\ w.previous = tear[t].previous /\ w.k = tear[t].k
    BY <1>0 DEF TearRecord
  <2> HIDE DEF w
  <2>4. Onward(t, w) /\ Remembers(t, w)
    BY <2>2, <2>3 DEF Onward, Remembers, Resting, Unopened, At
  <2> QED
    BY <2>2, <2>4 DEF Resting
<1>9. CASE DestroyFails(t)
  <2> DEFINE w == [tear[t] EXCEPT !.missed = TRUE, !.k = @ + 1,
                     !.pc = AfterTrigger(t, tear[t].started, TRUE)]
  <2>1. tear' = [tear EXCEPT ![t] = w] /\ tear[t].pc = "fire"
    BY <1>0, <1>9 DEF DestroyFails, At
  <2>2. /\ w.pc \in {"fire", "unclaim", "close"} /\ w.e = tear[t].e /\ w.todo = tear[t].todo
        /\ w.previous = tear[t].previous /\ w.k = tear[t].k + 1
    BY <1>0, <1>4 DEF TearRecord
  <2> HIDE DEF w
  <2>3. Onward(t, w) /\ Remembers(t, w)
    BY <2>1, <2>2 DEF Onward, Remembers, Resting, Unopened
  <2> QED
    BY <2>1, <2>3 DEF Resting
<1>10. CASE RecordElementPipelineId(t) \/ RecordLost(t)
  <2> DEFINE w == [tear[t] EXCEPT !.k = @ + 1,
                     !.pc = AfterTrigger(t, tear[t].started, tear[t].missed)]
  <2>1. tear' = [tear EXCEPT ![t] = w] /\ tear[t].pc = "record"
    BY <1>0, <1>10 DEF RecordElementPipelineId, RecordLost, At
  <2>2. /\ w.pc \in {"fire", "unclaim", "close"} /\ w.e = tear[t].e /\ w.todo = tear[t].todo
        /\ w.previous = tear[t].previous /\ w.k = tear[t].k + 1
    BY <1>0, <1>4 DEF TearRecord
  <2> HIDE DEF w
  <2>3. Onward(t, w) /\ Remembers(t, w)
    BY <2>1, <2>2 DEF Onward, Remembers, Resting, Unopened
  <2> QED
    BY <2>1, <2>3 DEF Resting
<1>11. CASE Unclaim(t)
  BY <1>5, <1>11 DEF Unclaim, Resting, At
<1>12. CASE RestoreElementTriggerRun(t)
  BY <1>2, <1>12 DEF RestoreElementTriggerRun, Resting, At
<1>13. CASE FinishElementTriggerRun(t)
  <2>1. tear[t].pc = "close" /\ (Goto(t, "settling") \/ Leave(t, tear[t].missed))
    BY <1>13 DEF FinishElementTriggerRun, At
  <2>2. "settling" \notin Resting \union {"read", "begin", "record", "fire"}
    BY DEF Resting
  <2> QED
    BY <1>2, <1>5, <2>1, <2>2 DEF Resting
<1>14. CASE PutBack(t) \/ PutBackFails(t)
  BY <1>2, <1>14 DEF PutBack, PutBackFails, Resting, At
<1>15. CASE TearThrows(t)
  <2>1. Throw(t) /\ tear[t].pc \notin Resting
    BY <1>15 DEF TearThrows, Resting, At
  <2> QED
    BY <1>3, <2>1
<1>16. CASE SettleSwaps(t) \/ SettleThrows(t)
  <2>1. settle[t] # {} /\ (Leave(t, tear[t].missed) \/ Throw(t))
    BY <1>16 DEF SettleSwaps, SettleThrows, NoSettling
  <2>2. tear[t].pc = "settling" /\ "settling" \notin Resting
    BY <2>1 DEF Orderly, At, Resting
  <2> QED
    BY <1>2, <1>3, <2>1, <2>2
<1> QED
  BY <1>6, <1>7, <1>8, <1>9, <1>10, <1>11, <1>12, <1>13, <1>14, <1>15, <1>16 DEF Works

\* No trigger is tried, and none is any longer to be tried that was not before.
Waits(t, w) ==
  /\ w.pc # "idle"
  /\ \/ At(t, "idle")
     \/ w.todo = {}
     \/ w.todo \subseteq tear[t].todo /\ tear[t].e = {} /\ (w.e = {} \/ w.pc \in Unopened)

\* The other steps of a request hold no element, before or after, but for the claim.
LEMMA RestIs ==
  ASSUME Typed, Orderly, NEW t \in Tears,
         Requests(t) \/ Claim(t) \/ ClaimRefused(t) \/ RetireProject(t) \/ TearDies(t)
  PROVE  \E w : /\ tear' = [tear EXCEPT ![t] = w] /\ OneAtATime(w)
                /\ w.previous \in {Cleared, tear[t].previous}
                /\ w.e = {} \/ Claim(t)
                /\ Waits(t, w)
<1>0. /\ tear[t] \in TearRecord /\ OneAtATime(tear[t]) /\ tear \in [Tears -> TearRecord]
  BY RecordsTyped DEF TearRecord, Orderly, Typed, GoodTear
<1> DEFINE Goes == \E w : /\ tear' = [tear EXCEPT ![t] = w] /\ OneAtATime(w)
                          /\ w.previous \in {Cleared, tear[t].previous}
                          /\ w.e = {} \/ Claim(t)
                          /\ Waits(t, w)
<1>1. ASSUME NEW kind, NEW todo, Begins(t, kind, todo)
      PROVE  Goes
  <2> DEFINE w == [tear[t] EXCEPT !.project = (kind = "project"), !.todo = todo,
                     !.pc = IF todo = {} THEN "retire" ELSE "claim"]
  <2>1. tear' = [tear EXCEPT ![t] = w] /\ tear[t].pc = "idle"
    BY <1>0, <1>1 DEF Begins, IsNext, At
  <2>2. /\ w.pc \in {"retire", "claim"} /\ w.e = tear[t].e /\ w.k = tear[t].k
        /\ w.previous = tear[t].previous
    BY <1>0 DEF TearRecord
  <2> HIDE DEF w
  <2>3. OneAtATime(w) /\ w.e = {} /\ Waits(t, w)
    BY <1>0, <2>1, <2>2 DEF OneAtATime, Resting, Waits, At
  <2> QED
    BY <2>1, <2>2, <2>3
<1>2. CASE Claim(t)
  <2>1. PICK e \in tear[t].todo : tear' = [tear EXCEPT ![t].e = {e}, ![t].pc = "read"]
    BY <1>2 DEF Claim
  <2> DEFINE w == [tear[t] EXCEPT !.e = {e}, !.pc = "read"]
  <2>2. tear' = [tear EXCEPT ![t] = w] /\ tear[t].pc = "claim"
    BY <1>0, <1>2, <2>1 DEF Claim, At
  <2>3. /\ w.pc = "read" /\ w.e = {e} /\ w.k = tear[t].k /\ w.previous = tear[t].previous
        /\ w.todo = tear[t].todo /\ e \in Elements
    BY <1>0 DEF TearRecord
  <2> HIDE DEF w
  <2>4. OneAtATime(w) /\ Waits(t, w)
    BY <1>0, <2>2, <2>3 DEF OneAtATime, Resting, Waits, Unopened
  <2> QED
    BY <1>2, <2>2, <2>3, <2>4
<1>3. CASE ClaimRefused(t)
  <2>1. PICK e \in tear[t].todo :
          tear' = [tear EXCEPT ![t].todo = tear[t].todo \ {e},
                     ![t].pc = CASE tear[t].todo \ {e} # {} -> "claim"
                                 [] tear[t].todo \ {e} = {} /\ tear[t].project -> "retire"
                                 [] OTHER -> "done"]
    BY <1>3 DEF ClaimRefused
  <2> DEFINE pc == CASE tear[t].todo \ {e} # {} -> "claim"
                     [] tear[t].todo \ {e} = {} /\ tear[t].project -> "retire"
                     [] OTHER -> "done"
             w == [tear[t] EXCEPT !.todo = tear[t].todo \ {e}, !.pc = pc]
  <2>2. pc \in {"claim", "retire", "done"}
    OBVIOUS
  <2>3. tear' = [tear EXCEPT ![t] = w] /\ tear[t].pc = "claim"
    BY <1>0, <1>3, <2>1 DEF ClaimRefused, At
  <2> HIDE DEF pc
  <2>4. /\ w.pc \in {"claim", "retire", "done"} /\ w.e = tear[t].e /\ w.k = tear[t].k
        /\ w.previous = tear[t].previous /\ w.todo = tear[t].todo \ {e}
    BY <1>0, <2>2 DEF TearRecord
  <2> HIDE DEF w
  <2>5. OneAtATime(w) /\ w.e = {} /\ Waits(t, w)
    BY <1>0, <2>3, <2>4 DEF OneAtATime, Resting, Waits
  <2> QED
    BY <2>3, <2>4, <2>5
<1>4. CASE RetireProject(t)
  <2> DEFINE w == [tear[t] EXCEPT !.pc = "done"]
  <2>1. tear' = [tear EXCEPT ![t] = w] /\ tear[t].pc = "retire"
    BY <1>0, <1>4 DEF RetireProject, Goto, At
  <2>2. /\ w.pc = "done" /\ w.e = tear[t].e /\ w.previous = tear[t].previous
        /\ w.todo = tear[t].todo
    BY <1>0 DEF TearRecord
  <2> HIDE DEF w
  <2>3. OneAtATime(w) /\ w.e = {} /\ Waits(t, w)
    BY <1>0, <2>1, <2>2 DEF OneAtATime, Resting, Waits
  <2> QED
    BY <2>1, <2>2, <2>3
<1>5. CASE TearDies(t)
  <2> DEFINE w == [FreshTear EXCEPT !.pc = "done"]
  <2>1. tear' = [tear EXCEPT ![t] = w]
    BY <1>5 DEF TearDies
  <2>2. w.pc = "done" /\ w.e = {} /\ w.previous = Cleared /\ w.todo = {}
    BY DEF FreshTear
  <2> HIDE DEF w
  <2>3. OneAtATime(w) /\ Waits(t, w)
    BY <2>2 DEF OneAtATime, Resting, Waits
  <2> QED
    BY <2>1, <2>2, <2>3
<1> QED
  BY <1>1, <1>2, <1>3, <1>4, <1>5
  DEF Requests, DecommissionInfra, SweepDueDecommissions, DeleteProject

\* What Next is to the requests.
LEMMA Actors ==
  ASSUME Typed, [Next]_vars
  PROVE  \/ \E t \in Tears : \/ Requests(t) \/ Claim(t) \/ ClaimRefused(t)
                             \/ RetireProject(t) \/ TearDies(t) \/ Works(t)
         \/ UNCHANGED tear
<1>1. ASSUME NEW x \in Procs, SettleSwaps(x) \/ SettleThrows(x)
      PROVE  (x \in Tears /\ Works(x)) \/ UNCHANGED tear
  BY <1>1 DEF SettleSwaps, SettleThrows, Works
<1>2. ASSUME NEW t \in Tears, TearStep(t) \/ TearFaults(t)
      PROVE  \/ Claim(t) \/ ClaimRefused(t) \/ RetireProject(t) \/ TearDies(t) \/ Works(t)
  BY <1>2 DEF TearStep, TearFaults, Works
<1>3. ASSUME NEW h \in Handlers, HandlerStep(h)
      PROVE  UNCHANGED tear
  BY <1>3 DEF HandlerStep, CallbackArrives, MergeSuccessEvent, MergeFailureEvent
<1>4. ASSUME NEW r \in Retries, RetryClaim(r) \/ RetryStep(r)
      PROVE  UNCHANGED tear
  BY <1>4 DEF RetryClaim, RetryStep, RetrySiblings, ApplyStarts, ApplyFails, RewriteElement,
     ReleaseRetryClaim
<1>5. OrderCompletes \/ OrderFails \/ UNCHANGED vars => UNCHANGED tear
  BY DEF OrderCompletes, OrderFails, vars
<1> QED
  BY <1>1, <1>2, <1>3, <1>4, <1>5 DEF Next

LEMMA UntriedBefore ==
  ASSUME Typed, Orderly, [Next]_vars, NEW t \in Tears, NEW e \in Elements,
         NEW k \in 1 .. LastTrigger, Untried(t, e, k)'
  PROVE  Untried(t, e, k)
<1>1. CASE tear'[t] = tear[t]
  BY <1>1 DEF Untried, Holds, At
<1>2. ASSUME Works(t)
      PROVE  Untried(t, e, k)
  <2>1. PICK w : tear' = [tear EXCEPT ![t] = w] /\ Onward(t, w) /\ tear[t].pc \notin Resting
    BY <1>2, WorkIs
  <2>2. tear'[t] = w
    BY <2>1 DEF Typed
  <2>3. tear[t].k \in Nat /\ k \in Nat
    BY RecordsTyped, Numbers DEF TearRecord
  <2>4. CASE w = Left(t, FALSE) \/ w = Left(t, TRUE)
    BY <2>2, <2>4, LeftIs DEF Untried, Holds, At
  <2>5. CASE ~(w = Left(t, FALSE) \/ w = Left(t, TRUE))
    <3>1. /\ w.e = tear[t].e /\ w.todo = tear[t].todo /\ w.pc # "idle"
          /\ w.pc \in Unopened => tear[t].pc \in Unopened
          /\ w.pc = "fire" => \/ tear[t].pc \in Unopened
                              \/ tear[t].pc \in {"fire", "record"} /\ w.k = tear[t].k + 1
          /\ w.pc = "record" => tear[t].pc = "fire" /\ w.k = tear[t].k
      BY <2>1, <2>5 DEF Onward, Resting, At
    <3>2. /\ e \in w.todo
          /\ e \in w.e => \/ w.pc \in Unopened
                          \/ w.pc = "fire" /\ k >= w.k
                          \/ w.pc = "record" /\ k > w.k
      <4>1. \/ tear'[t].pc = "idle"
            \/ /\ e \in tear'[t].todo
               /\ e \in tear'[t].e => \/ tear'[t].pc \in Unopened
                                      \/ tear'[t].pc = "fire" /\ k >= tear'[t].k
                                      \/ tear'[t].pc = "record" /\ k > tear'[t].k
        BY DEF Untried, Holds, At
      <4> QED
        BY <2>2, <3>1, <4>1
    <3>3. CASE e \notin w.e
      BY <3>1, <3>2, <3>3 DEF Untried, Holds
    <3>4. CASE tear[t].pc \in Unopened
      BY <3>1, <3>2, <3>4 DEF Untried, Holds
    <3>5. CASE w.pc = "fire" /\ k >= tear[t].k + 1 /\ tear[t].pc \in {"fire", "record"}
      BY <2>3, <3>1, <3>2, <3>5 DEF Untried, Holds, At
    <3>6. CASE w.pc = "record" /\ k > tear[t].k /\ tear[t].pc = "fire"
      BY <2>3, <3>1, <3>2, <3>6 DEF Untried, Holds, At
    <3> QED
      BY <3>1, <3>2, <3>3, <3>4, <3>5, <3>6
  <2> QED
    BY <2>4, <2>5
<1>3. ASSUME Requests(t) \/ Claim(t) \/ ClaimRefused(t) \/ RetireProject(t) \/ TearDies(t)
      PROVE  Untried(t, e, k)
  <2>1. PICK w : tear' = [tear EXCEPT ![t] = w] /\ Waits(t, w)
    BY <1>3, RestIs
  <2>2. tear'[t] = w
    BY <2>1 DEF Typed
  <2> QED
    BY <2>1, <2>2 DEF Untried, Holds, At, Waits
<1>4. ASSUME NEW u \in Tears, u # t,
             \/ Requests(u) \/ Claim(u) \/ ClaimRefused(u)
             \/ RetireProject(u) \/ TearDies(u) \/ Works(u)
      PROVE  tear'[t] = tear[t]
  <2>1. \E w : tear' = [tear EXCEPT ![u] = w]
    BY <1>4, WorkIs, RestIs
  <2> QED
    BY <1>4, <2>1 DEF Typed
<1> QED
  BY <1>1, <1>2, <1>3, <1>4, Actors

\* A destroy that was not started is started by its request, for the present trigger.
LEMMA NoneStays ==
  ASSUME Typed, [Next]_vars, NEW t \in Tears, NEW e \in Elements, NEW k \in 1 .. LastTrigger,
         ci[<<t, e, k>>] = "none"
  PROVE  \/ ci'[<<t, e, k>>] = "none"
         \/ DestroyStarts(t) /\ Holds(t, e) /\ k = tear[t].k
<1> DEFINE p == <<t, e, k>>
<1>0. p \in Pids /\ p[1] = t /\ ci \in [Pids -> CiStates]
  BY PidsOf DEF Typed
<1>1. CASE UNCHANGED ci
  BY <1>1
<1>2. CASE OrderCompletes
  <2>1. attempt \in Attempts
    BY DEF Typed
  <2>2. ~ \E d \in Covered : p = ApplyOf(attempt, d)
    BY <2>1, Numbers DEF ApplyOf
  <2>3. ci' = [q \in Pids |-> IF \E d \in Covered : q = ApplyOf(attempt, d)
                                THEN "success" ELSE ci[q]]
    BY <1>2 DEF OrderCompletes
  <2> HIDE DEF p
  <2>4. ci'[p] = ci[p]
    BY <1>0, <2>2, <2>3
  <2> QED
    BY <2>4 DEF p
<1>3. ASSUME NEW u \in Tears, DestroyStarts(u)
      PROVE  ci'[p] = "none" \/ (DestroyStarts(t) /\ Holds(t, e) /\ k = tear[t].k)
  <2>1. PICK d \in tear[u].e : ci' = [ci EXCEPT ![<<u, d, tear[u].k>>] = "running"]
    BY <1>3 DEF DestroyStarts
  <2>2. CASE p = <<u, d, tear[u].k>>
    BY <1>3, <2>1, <2>2 DEF Holds
  <2>3. CASE p # <<u, d, tear[u].k>>
    BY <1>0, <2>1, <2>3
  <2> QED
    BY <2>2, <2>3
<1>4. ASSUME NEW h \in Handlers, CallbackArrives(h)
      PROVE  ci'[p] = "none"
  <2>1. PICK q \in Pids, v \in {"success", "failed"} :
          ci[q] = "running" /\ ci' = [ci EXCEPT ![q] = v]
    BY <1>4 DEF CallbackArrives
  <2>2. q # p
    BY <2>1
  <2> QED
    BY <1>0, <2>1, <2>2
<1>5. ASSUME NEW r \in Retries, ApplyStarts(r)
      PROVE  ci'[p] = "none"
  <2>1. PICK d \in retry[r].todo : ci' = [ci EXCEPT ![ApplyOf(r, d)] = "running"]
    BY <1>5 DEF ApplyStarts
  <2>2. p # ApplyOf(r, d)
    BY <1>0, Numbers DEF ApplyOf
  <2> QED
    BY <1>0, <2>1, <2>2
<1> HIDE DEF p
<1>6. ASSUME NEW u \in Tears, Requests(u) \/ TearStep(u) \/ TearFaults(u)
      PROVE  DestroyStarts(u) \/ UNCHANGED ci
  BY <1>6 DEF Requests, DecommissionInfra, SweepDueDecommissions, DeleteProject, Begins,
     TearStep, Claim, ClaimRefused, BeginReads, BeginElementTriggerRun, DestroyFails,
     RecordElementPipelineId, Unclaim, RestoreElementTriggerRun, FinishElementTriggerRun,
     PutBack, RetireProject, TearFaults, RecordLost, TearThrows, PutBackFails, TearDies
<1>7. ASSUME NEW h \in Handlers, HandlerStep(h)
      PROVE  CallbackArrives(h) \/ UNCHANGED ci
  BY <1>7 DEF HandlerStep, MergeSuccessEvent, MergeFailureEvent
<1>8. ASSUME NEW x \in Procs, SettleSwaps(x) \/ SettleThrows(x)
      PROVE  UNCHANGED ci
  BY <1>8 DEF SettleSwaps, SettleThrows
<1>9. ASSUME NEW r \in Retries, RetryClaim(r) \/ RetryStep(r)
      PROVE  ApplyStarts(r) \/ UNCHANGED ci
  BY <1>9 DEF RetryClaim, RetryStep, RetrySiblings, ApplyFails, RewriteElement, ReleaseRetryClaim
<1>10. OrderFails \/ UNCHANGED vars => UNCHANGED ci
  BY DEF OrderFails, vars
<1> QED
  BY <1>1, <1>2, <1>3, <1>4, <1>5, <1>6, <1>7, <1>8, <1>9, <1>10 DEF Next, p

LEMMA TearsStep ==
  ASSUME Typed, Orderly, [Next]_vars
  PROVE  \A t \in Tears : OneAtATime(tear'[t]) /\ Truthful(tear'[t].previous, ci')
<1>1. ASSUME NEW T \in TrackingOf(Pids), Truthful(T, ci)
      PROVE  Truthful(T, ci')
  BY <1>1, EndsStep, SaidStays
<1>2. /\ Cleared \in TrackingOf(Pids) /\ Truthful(Cleared, ci)
  BY Blank DEF Truthful, Cleared, NoStatus
<1>3. \A t \in Tears : /\ OneAtATime(tear[t]) /\ Truthful(tear[t].previous, ci)
                       /\ tear[t].previous \in TrackingOf(Pids)
                       /\ tear[t].e \subseteq Elements
  BY RecordsTyped DEF Orderly, TearRecord
<1>4. \A e \in Elements : track[e] \in TrackingOf(Pids) /\ Truthful(track[e], ci)
  BY RecordsTyped DEF Orderly
<1>5. CASE UNCHANGED tear
  BY <1>1, <1>3, <1>5
<1>6. ASSUME NEW t \in Tears, Works(t)
      PROVE  \A u \in Tears : OneAtATime(tear'[u]) /\ Truthful(tear'[u].previous, ci')
  <2>1. PICK w : /\ tear' = [tear EXCEPT ![t] = w] /\ Onward(t, w) /\ Remembers(t, w)
                 /\ tear[t].pc \notin Resting
    BY <1>6, WorkIs
  <2>2. OneAtATime(w)
    BY <1>3, <2>1, OnwardIs
  <2>3. w.previous \in TrackingOf(Pids) /\ Truthful(w.previous, ci)
    BY <1>2, <1>3, <1>4, <2>1 DEF Remembers
  <2>4. Truthful(w.previous, ci')
    BY <1>1, <2>3
  <2>5. tear'[t] = w /\ \A u \in Tears : u # t => tear'[u] = tear[u]
    BY <2>1 DEF Typed
  <2> QED
    BY <1>1, <1>3, <2>2, <2>4, <2>5
<1>7. ASSUME NEW t \in Tears,
             Requests(t) \/ Claim(t) \/ ClaimRefused(t) \/ RetireProject(t) \/ TearDies(t)
      PROVE  \A u \in Tears : OneAtATime(tear'[u]) /\ Truthful(tear'[u].previous, ci')
  <2>1. PICK w : /\ tear' = [tear EXCEPT ![t] = w] /\ OneAtATime(w)
                 /\ w.previous \in {Cleared, tear[t].previous}
    BY <1>7, RestIs
  <2>2. Truthful(w.previous, ci')
    BY <1>1, <1>2, <1>3, <2>1
  <2>3. tear'[t] = w /\ \A u \in Tears : u # t => tear'[u] = tear[u]
    BY <2>1 DEF Typed
  <2> QED
    BY <1>1, <1>3, <2>1, <2>2, <2>3
<1> QED
  BY <1>5, <1>6, <1>7, Actors

LEMMA FreshStep ==
  ASSUME Typed, Orderly, [Next]_vars
  PROVE  \A t \in Tears, e \in Elements, k \in 1 .. LastTrigger :
           Untried(t, e, k)' => ci'[<<t, e, k>>] = "none"
<1> SUFFICES ASSUME NEW t \in Tears, NEW e \in Elements, NEW k \in 1 .. LastTrigger,
                    Untried(t, e, k)'
             PROVE  ci'[<<t, e, k>>] = "none"
  OBVIOUS
<1>1. ci[<<t, e, k>>] = "none"
  BY UntriedBefore DEF Orderly
<1>2. ASSUME DestroyStarts(t), Holds(t, e), k = tear[t].k
      PROVE  FALSE
  <2>1. PICK p : tear' = [tear EXCEPT ![t].started = @ \union {p}, ![t].pc = "record"]
    BY <1>2 DEF DestroyStarts
  <2>2. /\ tear'[t].pc = "record" /\ tear'[t].e = tear[t].e /\ tear'[t].k = tear[t].k
    BY <2>1, RecordsTyped DEF Typed, TearRecord
  <2>3. tear[t].k \in Nat
    BY RecordsTyped DEF TearRecord
  <2>4. ~(k > tear'[t].k)
    BY <1>2, <2>2, <2>3
  <2> QED
    BY <1>2, <2>2, <2>4 DEF Untried, Holds, At, Unopened
<1> QED
  BY <1>1, <1>2, NoneStays

\* A request decides on the element it holds.
DecidesOnOwn(t) == /\ settle[t] # {} => At(t, "settling")
                   /\ \A s \in settle[t] : Holds(t, s.e)

LEMMA SettleIs ==
  ASSUME Typed, [Next]_vars
  PROVE  \/ UNCHANGED settle
         \/ \E x \in Procs : settle' = [settle EXCEPT ![x] = {}]
         \/ \E t \in Tears : FinishElementTriggerRun(t)
         \/ \E h \in Handlers : MergeSuccessEvent(h) /\ \E S : settle' = [settle EXCEPT ![h] = S]
<1>1. ASSUME NEW x \in Procs, SettleSwaps(x) \/ SettleThrows(x)
      PROVE  settle' = [settle EXCEPT ![x] = {}]
  BY <1>1 DEF SettleSwaps, SettleThrows, NoSettling
<1>2. ASSUME NEW t \in Tears, Requests(t) \/ TearStep(t) \/ TearFaults(t)
      PROVE  FinishElementTriggerRun(t) \/ TearDies(t) \/ UNCHANGED settle
  BY <1>2 DEF Requests, DecommissionInfra, SweepDueDecommissions, DeleteProject, Begins,
     TearStep, Claim, ClaimRefused, BeginReads, BeginElementTriggerRun, DestroyStarts,
     DestroyFails, RecordElementPipelineId, Unclaim, RestoreElementTriggerRun,
     PutBack, RetireProject, TearFaults, RecordLost, TearThrows, PutBackFails
<1>3. ASSUME NEW t \in Tears, TearDies(t)
      PROVE  t \in Procs /\ settle' = [settle EXCEPT ![t] = {}]
  BY <1>3 DEF TearDies, NoSettling, Procs
<1>4. ASSUME NEW h \in Handlers, HandlerStep(h)
      PROVE  \/ UNCHANGED settle
             \/ MergeSuccessEvent(h) /\ \E S : settle' = [settle EXCEPT ![h] = S]
  <2>1. CASE MergeSuccessEvent(h)
    <3>1. PICK ev \in hnd[h] :
            \/ UNCHANGED settle
            \/ settle' = [settle EXCEPT ![h] = Deciding(ev.p[2], MergeSuccess(track[ev.p[2]], ev.p))]
      BY <2>1 DEF MergeSuccessEvent
    <3> QED
      BY <2>1, <3>1
  <2>2. CASE CallbackArrives(h) \/ MergeFailureEvent(h)
    BY <2>2 DEF CallbackArrives, MergeFailureEvent
  <2> QED
    BY <1>4, <2>1, <2>2 DEF HandlerStep
<1>5. ASSUME NEW r \in Retries, RetryClaim(r) \/ RetryStep(r)
      PROVE  UNCHANGED settle
  BY <1>5 DEF RetryClaim, RetryStep, RetrySiblings, ApplyStarts, ApplyFails, RewriteElement,
     ReleaseRetryClaim
<1>6. OrderCompletes \/ OrderFails \/ UNCHANGED vars => UNCHANGED settle
  BY DEF OrderCompletes, OrderFails, vars
<1> QED
  BY <1>1, <1>2, <1>3, <1>4, <1>5, <1>6 DEF Next

LEMMA DecidesStep ==
  ASSUME Typed, Orderly, [Next]_vars, NEW t \in Tears
  PROVE  DecidesOnOwn(t)'
<1>0. /\ settle[t] # {} => tear[t].pc = "settling"
      /\ \A s \in settle[t] : s.e \in tear[t].e
      /\ tear[t] \in TearRecord
      /\ t \in Procs
      /\ settle \in [Procs -> SUBSET [e : Elements, decided : StatusMap(Pids)]]
  BY RecordsTyped DEF Orderly, At, Holds, Procs, Typed
<1>1. settle'[t] = {} => DecidesOnOwn(t)'
  BY DEF DecidesOnOwn
<1>2. settle'[t] = settle[t] /\ tear'[t] = tear[t] => DecidesOnOwn(t)'
  BY <1>0 DEF DecidesOnOwn, At, Holds
<1>3. settle[t] # {} => tear'[t] = tear[t] \/ settle'[t] = {}
  <2>1. ASSUME NEW u \in Tears, u # t,
               \/ Requests(u) \/ Claim(u) \/ ClaimRefused(u)
               \/ RetireProject(u) \/ TearDies(u) \/ Works(u)
        PROVE  tear'[t] = tear[t]
    <3>1. \E w : tear' = [tear EXCEPT ![u] = w]
      BY <2>1, WorkIs, RestIs
    <3> QED
      BY <2>1, <3>1 DEF Typed
  <2>2. ASSUME tear[t].pc = "settling",
               \/ Requests(t) \/ Claim(t) \/ ClaimRefused(t)
               \/ RetireProject(t) \/ TearDies(t) \/ Works(t)
        PROVE  TearDies(t) \/ SettleSwaps(t) \/ SettleThrows(t)
    BY <2>2 DEF Requests, DecommissionInfra, SweepDueDecommissions, DeleteProject, Begins,
       IsNext, Claim, ClaimRefused, RetireProject, Works, BeginReads,
       BeginElementTriggerRun, DestroyStarts, DestroyFails,
       RecordElementPipelineId, RecordLost, Unclaim, RestoreElementTriggerRun,
       FinishElementTriggerRun, PutBack, PutBackFails, TearThrows, At
  <2>3. TearDies(t) \/ SettleSwaps(t) \/ SettleThrows(t) => settle'[t] = {}
    BY <1>0 DEF TearDies, SettleSwaps, SettleThrows, NoSettling
  <2> QED
    BY <1>0, <2>1, <2>2, <2>3, Actors
<1>4. settle'[t] = settle[t] \/ settle'[t] = {} \/ FinishElementTriggerRun(t)
  <2>1. ASSUME NEW u \in Tears, FinishElementTriggerRun(u)
        PROVE  settle'[t] = settle[t] \/ FinishElementTriggerRun(t)
    <3>1. \E S : settle' = [settle EXCEPT ![u] = S]
      BY <2>1 DEF FinishElementTriggerRun
    <3> QED
      BY <1>0, <2>1, <3>1
  <2>2. ASSUME NEW h \in Handlers, NEW S, settle' = [settle EXCEPT ![h] = S]
        PROVE  settle'[t] = settle[t]
    BY <1>0, <2>2, HandlersAreNotTears
  <2> QED
    BY <1>0, <2>1, <2>2, SettleIs
<1>5. CASE FinishElementTriggerRun(t)
  <2>1. PICK e \in tear[t].e :
          LET new == Closed(track[e], tear[t].started, tear[t].missed) IN
            /\ settle' = [settle EXCEPT ![t] = Deciding(e, new)]
            /\ IF IsSettled(new) THEN Goto(t, "settling") ELSE Leave(t, tear[t].missed)
    BY <1>5 DEF FinishElementTriggerRun
  <2> DEFINE new == Closed(track[e], tear[t].started, tear[t].missed)
  <2>2. settle'[t] = Deciding(e, new) /\ (IsSettled(new) => Goto(t, "settling"))
    BY <1>0, <2>1
  <2> HIDE DEF new
  <2>3. CASE ~IsSettled(new)
    BY <1>1, <2>2, <2>3 DEF Deciding, NoSettling
  <2>4. CASE IsSettled(new)
    <3>1. tear'[t].pc = "settling" /\ tear'[t].e = tear[t].e
      BY <1>0, <2>2, <2>4 DEF Goto, Typed, TearRecord
    <3>2. \A s \in settle'[t] : s.e = e
      BY <2>2 DEF Deciding, NoSettling
    <3> QED
      BY <2>1, <3>1, <3>2 DEF DecidesOnOwn, At, Holds
  <2> QED
    BY <2>3, <2>4
<1> QED
  BY <1>1, <1>2, <1>3, <1>4, <1>5

-----------------------------------------------------------------------------
(* The elements                                                            *)

LEMMA TrackIs ==
  ASSUME Typed, [Next]_vars
  PROVE  \/ UNCHANGED track
         \/ \E t \in Tears : \/ BeginElementTriggerRun(t) \/ RecordElementPipelineId(t)
                             \/ RestoreElementTriggerRun(t) \/ FinishElementTriggerRun(t)
         \/ \E h \in Handlers : MergeSuccessEvent(h) \/ MergeFailureEvent(h)
         \/ \E r \in Retries : RewriteElement(r)
<1>1. ASSUME NEW x \in Procs, SettleSwaps(x) \/ SettleThrows(x)
      PROVE  UNCHANGED track
  BY <1>1 DEF SettleSwaps, SettleThrows
<1>2. ASSUME NEW t \in Tears, Requests(t) \/ TearStep(t) \/ TearFaults(t)
      PROVE  \/ BeginElementTriggerRun(t) \/ RecordElementPipelineId(t)
             \/ RestoreElementTriggerRun(t) \/ FinishElementTriggerRun(t) \/ UNCHANGED track
  BY <1>2 DEF Requests, DecommissionInfra, SweepDueDecommissions, DeleteProject, Begins,
     TearStep, Claim, ClaimRefused, BeginReads, DestroyStarts, DestroyFails, Unclaim,
     PutBack, RetireProject, TearFaults, RecordLost, TearThrows, PutBackFails, TearDies, rowVars
<1>3. ASSUME NEW h \in Handlers, HandlerStep(h)
      PROVE  MergeSuccessEvent(h) \/ MergeFailureEvent(h) \/ UNCHANGED track
  BY <1>3 DEF HandlerStep, CallbackArrives, rowVars
<1>4. ASSUME NEW r \in Retries, RetryClaim(r) \/ RetryStep(r)
      PROVE  RewriteElement(r) \/ UNCHANGED track
  BY <1>4 DEF RetryClaim, RetryStep, RetrySiblings, ApplyStarts, ApplyFails, ReleaseRetryClaim,
     rowVars
<1>5. OrderCompletes \/ OrderFails \/ UNCHANGED vars => UNCHANGED track
  BY DEF OrderCompletes, OrderFails, vars, rowVars
<1> QED
  BY <1>1, <1>2, <1>3, <1>4, <1>5 DEF Next

\* What the operations of PipelineTracking leave of the columns.
LEMMA AppendedIs ==
  ASSUME NEW P, NEW T \in TrackingOf(P), NEW p
  PROVE  AppendOne(T, p).st = T.st /\ AppendOne(T, p).ids = T.ids \union {p}
BY DEF AppendOne, TrackingOf

LEMMA ClosedIs ==
  ASSUME NEW P, NEW T \in TrackingOf(P), NEW ids, NEW missed \in BOOLEAN
  PROVE  /\ Closed(T, ids, missed).st.good = T.st.good
         /\ Closed(T, ids, missed).st.missed = (T.st.missed \/ missed)
         /\ Closed(T, ids, missed).ids = T.ids \union ids
<1>1. /\ T = [ids |-> T.ids, st |-> T.st]
      /\ T.st = [good |-> T.st.good, bad |-> T.st.bad, firing |-> T.st.firing,
                 missed |-> T.st.missed]
      /\ T.st.missed \in BOOLEAN
  BY DEF TrackingOf, StatusMap
<1> QED
  BY <1>1 DEF Closed

LEMMA MergedIs ==
  ASSUME NEW P, NEW T \in TrackingOf(P), NEW p
  PROVE  /\ MergeSuccess(T, p).st.good = T.st.good \union {p}
         /\ MergeSuccess(T, p).st.firing = T.st.firing
         /\ MergeSuccess(T, p).st.missed = T.st.missed
         /\ MergeSuccess(T, p).ids = T.ids
         /\ MergeFailure(T, p).st.good = T.st.good \ {p}
         /\ MergeFailure(T, p).st.firing = T.st.firing
         /\ MergeFailure(T, p).st.missed = T.st.missed
         /\ MergeFailure(T, p).ids = T.ids
<1>1. /\ T = [ids |-> T.ids, st |-> T.st]
      /\ T.st = [good |-> T.st.good, bad |-> T.st.bad, firing |-> T.st.firing,
                 missed |-> T.st.missed]
      /\ T.st.missed \in BOOLEAN
  BY DEF TrackingOf, StatusMap
<1>2. /\ MergeSuccess(T, p).st.good = T.st.good \union {p}
      /\ MergeSuccess(T, p).st.firing = T.st.firing
      /\ MergeSuccess(T, p).st.missed = T.st.missed
      /\ MergeSuccess(T, p).ids = T.ids
  BY <1>1 DEF MergeSuccess
<1>3. /\ MergeFailure(T, p).st.good = T.st.good \ {p}
      /\ MergeFailure(T, p).st.firing = T.st.firing
      /\ MergeFailure(T, p).st.missed = T.st.missed
      /\ MergeFailure(T, p).ids = T.ids
  BY <1>1 DEF MergeFailure
<1> QED
  BY <1>2, <1>3

LEMMA TruthStep ==
  ASSUME Typed, Orderly, [Next]_vars
  PROVE  \A e \in Elements : Truthful(track'[e], ci')
<1>0. /\ track \in [Elements -> TrackingOf(Pids)]
      /\ \A e \in Elements : track[e] \in TrackingOf(Pids) /\ Truthful(track[e], ci)
      /\ \A t \in Tears : tear[t] \in TearRecord /\ tear[t].e \subseteq Elements
  BY RecordsTyped DEF Orderly, TearRecord, Typed
<1>1. ASSUME NEW T \in TrackingOf(Pids), Truthful(T, ci)
      PROVE  Truthful(T, ci')
  BY <1>1, EndsStep, SaidStays
<1>2. \A e \in Elements : Truthful(track[e], ci')
  BY <1>0, <1>1
<1>3. ASSUME NEW e, NEW T, track' = [track EXCEPT ![e] = T], e \in Elements => Truthful(T, ci')
      PROVE  \A d \in Elements : Truthful(track'[d], ci')
  BY <1>0, <1>2, <1>3
<1>4. ASSUME NEW T, T.st.good = {}
      PROVE  Truthful(T, ci')
  BY <1>4 DEF Truthful
<1>5. ASSUME NEW t \in Tears, BeginElementTriggerRun(t)
      PROVE  \A d \in Elements : Truthful(track'[d], ci')
  <2>1. Opened.st.good = {}
    BY DEF Opened, NoStatus
  <2>2. PICK e \in tear[t].e : track' = track \/ track' = [track EXCEPT ![e] = Opened]
    BY <1>5 DEF BeginElementTriggerRun
  <2> QED
    BY <1>2, <1>3, <1>4, <2>1, <2>2
<1>6. ASSUME NEW t \in Tears, RecordElementPipelineId(t)
      PROVE  \A d \in Elements : Truthful(track'[d], ci')
  <2>1. PICK e \in tear[t].e :
          track' = [track EXCEPT ![e] = AppendOne(track[e], <<t, e, tear[t].k>>)]
    BY <1>0, <1>6 DEF RecordElementPipelineId
  <2>2. e \in Elements /\ <<t, e, tear[t].k>> \in Pids
    BY <1>0, <1>6, RecordsTyped, PidsOf DEF RecordElementPipelineId, At, InRange
  <2>3. AppendOne(track[e], <<t, e, tear[t].k>>).st = track[e].st
    BY <1>0, <2>2, AppendedIs
  <2> QED
    BY <1>2, <1>3, <2>1, <2>2, <2>3 DEF Truthful
<1>7. ASSUME NEW t \in Tears, RestoreElementTriggerRun(t)
      PROVE  \A d \in Elements : Truthful(track'[d], ci')
  <2>1. PICK e \in tear[t].e : track' = [track EXCEPT ![e] = tear[t].previous]
    BY <1>7 DEF RestoreElementTriggerRun
  <2>2. tear[t].previous \in TrackingOf(Pids) /\ Truthful(tear[t].previous, ci)
    BY <1>0 DEF Orderly, TearRecord
  <2> QED
    BY <1>1, <1>3, <2>1, <2>2
<1>8. ASSUME NEW t \in Tears, FinishElementTriggerRun(t)
      PROVE  \A d \in Elements : Truthful(track'[d], ci')
  <2>1. PICK e \in tear[t].e :
          track' = [track EXCEPT ![e] = Closed(track[e], tear[t].started, tear[t].missed)]
    BY <1>8 DEF FinishElementTriggerRun
  <2>2. e \in Elements /\ tear[t].missed \in BOOLEAN
    BY <1>0 DEF TearRecord
  <2>3. Closed(track[e], tear[t].started, tear[t].missed).st.good = track[e].st.good
    BY <1>0, <2>2, ClosedIs
  <2> QED
    BY <1>2, <1>3, <2>1, <2>2, <2>3 DEF Truthful
<1>9. ASSUME NEW h \in Handlers, MergeSuccessEvent(h)
      PROVE  \A d \in Elements : Truthful(track'[d], ci')
  <2>1. PICK ev \in hnd[h] :
          /\ ev.verdict = "success"
          /\ \/ track' = track
             \/ track' = [track EXCEPT ![ev.p[2]] = MergeSuccess(track[ev.p[2]], ev.p)]
    BY <1>0, <1>9 DEF MergeSuccessEvent
  <2>2. /\ ev.p \in Pids /\ ev.p[2] \in Elements /\ ev.p[1] \in Tears
        /\ ci[ev.p] = "success" /\ ci'[ev.p] = "success"
    BY <2>1, PidsOf, EndsStep DEF Typed, Orderly, EndsStay
  <2> DEFINE e == ev.p[2]
  <2>3. MergeSuccess(track[e], ev.p).st.good = track[e].st.good \union {ev.p}
    BY <1>0, <2>2, MergedIs
  <2>4. Truthful(MergeSuccess(track[e], ev.p), ci')
    BY <1>2, <2>2, <2>3 DEF Truthful
  <2> QED
    BY <1>2, <1>3, <2>1, <2>4
<1>10. ASSUME NEW h \in Handlers, MergeFailureEvent(h)
      PROVE  \A d \in Elements : Truthful(track'[d], ci')
  <2>1. PICK ev \in hnd[h] :
          \/ track' = track
          \/ track' = [track EXCEPT ![ev.p[2]] = MergeFailure(track[ev.p[2]], ev.p)]
    BY <1>0, <1>10 DEF MergeFailureEvent
  <2>2. ev.p \in Pids /\ ev.p[2] \in Elements
    BY <2>1, PidsOf DEF Typed
  <2> DEFINE e == ev.p[2]
  <2>3. MergeFailure(track[e], ev.p).st.good = track[e].st.good \ {ev.p}
    BY <1>0, <2>2, MergedIs
  <2>4. Truthful(MergeFailure(track[e], ev.p), ci')
    BY <1>2, <2>2, <2>3 DEF Truthful
  <2> QED
    BY <1>2, <1>3, <2>1, <2>4
<1>11. ASSUME NEW r \in Retries, RewriteElement(r)
      PROVE  \A d \in Elements : Truthful(track'[d], ci')
  <2>1. PICK e \in retry[r].todo :
          track' = [track EXCEPT ![e] = [Cleared EXCEPT !.ids = {p \in retry[r].started : p[2] = e}]]
    BY <1>11 DEF RewriteElement
  <2> DEFINE ids == {p \in retry[r].started : p[2] = e}
  <2>2. [Cleared EXCEPT !.ids = ids].st.good = {}
    BY DEF Cleared, NoStatus
  <2> QED
    BY <1>3, <1>4, <2>1, <2>2
<1> QED
  BY <1>2, <1>5, <1>6, <1>7, <1>8, <1>9, <1>10, <1>11, TrackIs

\* The events handlers hold.
GoodEvent(ev, c) ==
  /\ ev.p[1] \in Tears /\ Ended(ev.p, c)
  /\ ev.verdict = "success" => c[ev.p] = "success"

LEMMA EventsIs ==
  ASSUME Typed, [Next]_vars
  PROVE  \/ UNCHANGED hnd
         \/ \E h \in Handlers : CallbackArrives(h) \/ hnd' = [hnd EXCEPT ![h] = {}]
<1>1. ASSUME NEW x \in Procs, SettleSwaps(x) \/ SettleThrows(x)
      PROVE  UNCHANGED hnd
  BY <1>1 DEF SettleSwaps, SettleThrows
<1>2. ASSUME NEW t \in Tears, Requests(t) \/ TearStep(t) \/ TearFaults(t)
      PROVE  UNCHANGED hnd
  BY <1>2 DEF Requests, DecommissionInfra, SweepDueDecommissions, DeleteProject, Begins,
     TearStep, Claim, ClaimRefused, BeginReads, BeginElementTriggerRun, DestroyStarts,
     DestroyFails, RecordElementPipelineId, Unclaim, RestoreElementTriggerRun,
     FinishElementTriggerRun,
     PutBack, RetireProject, TearFaults, RecordLost, TearThrows, PutBackFails, TearDies
<1>3. ASSUME NEW h \in Handlers, HandlerStep(h)
      PROVE  CallbackArrives(h) \/ hnd' = [hnd EXCEPT ![h] = {}]
  BY <1>3 DEF HandlerStep, MergeSuccessEvent, MergeFailureEvent
<1>4. ASSUME NEW r \in Retries, RetryClaim(r) \/ RetryStep(r)
      PROVE  UNCHANGED hnd
  BY <1>4 DEF RetryClaim, RetryStep, RetrySiblings, ApplyStarts, ApplyFails, RewriteElement,
     ReleaseRetryClaim
<1>5. OrderCompletes \/ OrderFails \/ UNCHANGED vars => UNCHANGED hnd
  BY DEF OrderCompletes, OrderFails, vars
<1> QED
  BY <1>1, <1>2, <1>3, <1>4, <1>5 DEF Next

LEMMA EventsStep ==
  ASSUME Typed, Orderly, [Next]_vars
  PROVE  \A h \in Handlers : \A ev \in hnd'[h] : GoodEvent(ev, ci')
<1>0. /\ hnd \in [Handlers -> SUBSET [p : Pids, verdict : {"success", "failed"}]]
      /\ \A h \in Handlers : \A ev \in hnd[h] : GoodEvent(ev, ci) /\ ev.p \in Pids
      /\ ci \in [Pids -> CiStates]
  BY DEF Typed, Orderly, GoodEvent
<1>1. \A h \in Handlers : \A ev \in hnd[h] : GoodEvent(ev, ci')
  BY <1>0, EndsStep DEF EndsStay, GoodEvent, Ended
<1>2. ASSUME NEW h \in Handlers, CallbackArrives(h)
      PROVE  \A g \in Handlers : \A ev \in hnd'[g] : GoodEvent(ev, ci')
  <2>1. PICK p \in Pids, v \in {"success", "failed"} :
          /\ p[1] \in Tears /\ ci' = [ci EXCEPT ![p] = v]
          /\ hnd' = hnd \/ hnd' = [hnd EXCEPT ![h] = {[p |-> p, verdict |-> v]}]
    BY <1>2 DEF CallbackArrives
  <2>2. ci'[p] = v
    BY <1>0, <2>1
  <2>3. GoodEvent([p |-> p, verdict |-> v], ci')
    BY <2>1, <2>2 DEF GoodEvent, Ended
  <2> QED
    BY <1>0, <1>1, <2>1, <2>3
<1>3. ASSUME NEW h \in Handlers, hnd' = [hnd EXCEPT ![h] = {}]
      PROVE  \A g \in Handlers : \A ev \in hnd'[g] : GoodEvent(ev, ci')
  BY <1>0, <1>1, <1>3
<1> QED
  BY <1>1, <1>2, <1>3, EventsIs

\* A retry by itself.
GoodRetry(r, R) ==
  /\ R.pc \in {"idle", "siblings"} => R.covers = {}
  /\ R.todo \subseteq R.covers
  /\ \A p \in R.started : p[1] = r

LEMMA RetryIs ==
  ASSUME Typed, [Next]_vars
  PROVE  \/ UNCHANGED retry
         \/ \E r \in Retries : RetryClaim(r) \/ RetryStep(r)
<1>1. ASSUME NEW x \in Procs, SettleSwaps(x) \/ SettleThrows(x)
      PROVE  UNCHANGED retry
  BY <1>1 DEF SettleSwaps, SettleThrows
<1>2. ASSUME NEW t \in Tears, Requests(t) \/ TearStep(t) \/ TearFaults(t)
      PROVE  UNCHANGED retry
  BY <1>2 DEF Requests, DecommissionInfra, SweepDueDecommissions, DeleteProject, Begins,
     TearStep, Claim, ClaimRefused, BeginReads, BeginElementTriggerRun, DestroyStarts,
     DestroyFails, RecordElementPipelineId, Unclaim, RestoreElementTriggerRun,
     FinishElementTriggerRun,
     PutBack, RetireProject, TearFaults, RecordLost, TearThrows, PutBackFails, TearDies
<1>3. ASSUME NEW h \in Handlers, HandlerStep(h)
      PROVE  UNCHANGED retry
  BY <1>3 DEF HandlerStep, CallbackArrives, MergeSuccessEvent, MergeFailureEvent
<1>4. OrderCompletes \/ OrderFails \/ UNCHANGED vars => UNCHANGED retry
  BY DEF OrderCompletes, OrderFails, vars
<1> QED
  BY <1>1, <1>2, <1>3, <1>4 DEF Next

LEMMA RetriesStep ==
  ASSUME Typed, Orderly, [Next]_vars
  PROVE  \A r \in Retries : GoodRetry(r, retry'[r])
<1>0. /\ retry \in [Retries -> RetryRecord]
      /\ \A r \in Retries : GoodRetry(r, retry[r])
  BY DEF Typed, Orderly, GoodRetry
<1>1. ASSUME NEW r \in Retries, NEW w, retry' = [retry EXCEPT ![r] = w], GoodRetry(r, w)
      PROVE  \A q \in Retries : GoodRetry(q, retry'[q])
  BY <1>0, <1>1
<1>2. ASSUME NEW r \in Retries, RetryClaim(r)
      PROVE  \A q \in Retries : GoodRetry(q, retry'[q])
  <2>1. PICK e : retry' = [retry EXCEPT ![r].pc = "siblings", ![r].asked = {e}]
    BY <1>2 DEF RetryClaim
  <2> DEFINE w == [retry[r] EXCEPT !.pc = "siblings", !.asked = {e}]
  <2>2. retry' = [retry EXCEPT ![r] = w] /\ retry[r].pc = "idle"
    BY <1>0, <1>2, <2>1 DEF RetryClaim
  <2>3. w.covers = retry[r].covers /\ w.todo = retry[r].todo /\ w.started = retry[r].started
    BY <1>0 DEF RetryRecord
  <2> HIDE DEF w
  <2> QED
    BY <1>0, <1>1, <2>2, <2>3 DEF GoodRetry
<1>3. ASSUME NEW r \in Retries, RetrySiblings(r)
      PROVE  \A q \in Retries : GoodRetry(q, retry'[q])
  <2> DEFINE covers == IF Active # {} THEN Active ELSE retry[r].asked
             w == [retry[r] EXCEPT !.pc = "fire", !.asked = {}, !.covers = covers,
                     !.fallback = (Active = {}), !.todo = covers]
  <2>1. retry' = [retry EXCEPT ![r] = w]
    BY <1>0, <1>3 DEF RetrySiblings
  <2> HIDE DEF covers
  <2>2. /\ w.pc = "fire" /\ w.covers = covers /\ w.todo = covers
        /\ w.started = retry[r].started
    BY <1>0 DEF RetryRecord
  <2> HIDE DEF w
  <2> QED
    BY <1>0, <1>1, <2>1, <2>2 DEF GoodRetry
<1>4. ASSUME NEW r \in Retries, NEW e, NEW started, RetryMoves(r, e, started),
             retry[r].pc = "fire", \A p \in started : p[1] = r
      PROVE  \A q \in Retries : GoodRetry(q, retry'[q])
  <2> DEFINE left == retry[r].todo \ {e}
             pc == CASE left # {} -> "fire"
                     [] left = {} /\ started = {} -> "release"
                     [] OTHER -> "rewrite"
             todo == IF left = {} THEN retry[r].covers ELSE left
             w == [retry[r] EXCEPT !.started = started, !.todo = todo, !.pc = pc]
  <2>1. retry' = [retry EXCEPT ![r] = w]
    BY <1>0, <1>4 DEF RetryMoves
  <2>2. todo \subseteq retry[r].covers /\ pc \notin {"idle", "siblings"}
    BY <1>0 DEF GoodRetry
  <2> HIDE DEF pc, todo
  <2>3. w.pc = pc /\ w.covers = retry[r].covers /\ w.todo = todo /\ w.started = started
    BY <1>0 DEF RetryRecord
  <2> HIDE DEF w
  <2> QED
    BY <1>1, <1>4, <2>1, <2>2, <2>3 DEF GoodRetry
<1>5. ASSUME NEW r \in Retries, ApplyStarts(r)
      PROVE  \A q \in Retries : GoodRetry(q, retry'[q])
  <2>1. PICK e : RetryMoves(r, e, retry[r].started \union {ApplyOf(r, e)})
    BY <1>5 DEF ApplyStarts
  <2>2. \A p \in retry[r].started \union {ApplyOf(r, e)} : p[1] = r
    BY <1>0 DEF GoodRetry, ApplyOf
  <2> QED
    BY <1>4, <1>5, <2>1, <2>2 DEF ApplyStarts
<1>6. ASSUME NEW r \in Retries, ApplyFails(r)
      PROVE  \A q \in Retries : GoodRetry(q, retry'[q])
  <2>1. PICK e : RetryMoves(r, e, retry[r].started)
    BY <1>6 DEF ApplyFails
  <2> QED
    BY <1>0, <1>4, <1>6, <2>1 DEF ApplyFails, GoodRetry
<1>7. ASSUME NEW r \in Retries, RewriteElement(r)
      PROVE  \A q \in Retries : GoodRetry(q, retry'[q])
  <2>1. PICK e : LET left == retry[r].todo \ {e} IN
          retry' = [retry EXCEPT ![r].todo = left,
                        ![r].started = IF left = {} THEN {} ELSE @,
                        ![r].pc = IF left = {} THEN "done" ELSE "rewrite"]
    BY <1>7 DEF RewriteElement
  <2> DEFINE left == retry[r].todo \ {e}
             started == IF left = {} THEN {} ELSE retry[r].started
             pc == IF left = {} THEN "done" ELSE "rewrite"
             w == [retry[r] EXCEPT !.todo = left, !.started = started, !.pc = pc]
  <2>2. retry' = [retry EXCEPT ![r] = w]
    BY <1>0, <2>1
  <2>3. /\ pc \notin {"idle", "siblings"} /\ left \subseteq retry[r].covers
        /\ \A p \in started : p[1] = r
    BY <1>0 DEF GoodRetry
  <2> HIDE DEF pc, left, started
  <2>4. w.pc = pc /\ w.covers = retry[r].covers /\ w.todo = left /\ w.started = started
    BY <1>0 DEF RetryRecord
  <2> HIDE DEF w
  <2> QED
    BY <1>1, <2>2, <2>3, <2>4 DEF GoodRetry
<1>8. ASSUME NEW r \in Retries, ReleaseRetryClaim(r)
      PROVE  \A q \in Retries : GoodRetry(q, retry'[q])
  <2> DEFINE w == [retry[r] EXCEPT !.pc = "done"]
  <2>1. retry' = [retry EXCEPT ![r] = w]
    BY <1>0, <1>8 DEF ReleaseRetryClaim
  <2>2. /\ w.pc = "done" /\ w.covers = retry[r].covers /\ w.todo = retry[r].todo
        /\ w.started = retry[r].started
    BY <1>0 DEF RetryRecord
  <2> HIDE DEF w
  <2> QED
    BY <1>0, <1>1, <2>1, <2>2 DEF GoodRetry
<1> QED
  BY <1>0, <1>2, <1>3, <1>5, <1>6, <1>7, <1>8, RetryIs DEF RetryStep

LEMMA OrderlyStep ==
  ASSUME Typed, Orderly, [Next]_vars
  PROVE  Orderly'
<1>1. \A t \in Tears : DecidesOnOwn(t)'
  BY DecidesStep
<1>2. \A t \in Tears : /\ settle'[t] # {} => At(t, "settling")'
                       /\ \A s \in settle'[t] : Holds(t, s.e)'
  BY <1>1 DEF DecidesOnOwn
<1>3. \A h \in Handlers : \A ev \in hnd'[h] :
        /\ ev.p[1] \in Tears /\ Ended(ev.p, ci')
        /\ ev.verdict = "success" => ci'[ev.p] = "success"
  BY EventsStep DEF GoodEvent
<1>4. \A r \in Retries : /\ retry'[r].pc \in {"idle", "siblings"} => retry'[r].covers = {}
                         /\ retry'[r].todo \subseteq retry'[r].covers
                         /\ \A p \in retry'[r].started : p[1] = r
  BY RetriesStep DEF GoodRetry
<1> QED
  BY <1>2, <1>3, <1>4, TearsStep, FreshStep, TruthStep DEF Orderly

-----------------------------------------------------------------------------
(* One element                                                             *)

LEMMA StuckStays ==
  ASSUME Typed, EndsStay, [Next]_vars, NEW e \in Elements, Stuck(e), track'[e] = track[e]
  PROVE  Stuck(e)'
<1>1. track[e].ids \subseteq Pids
  BY RecordsTyped DEF TrackingOf
<1>2. CASE track[e].st.firing \/ track[e].st.missed \/ OfApply(track[e])
  BY <1>2 DEF Stuck, OfApply
<1>3. CASE Silent(e) /\ \A p \in track[e].ids : Ended(p, ci)
  <2>1. CASE OfApply(track[e])
    BY <1>2, <2>1
  <2>2. CASE ~OfApply(track[e])
    <3>1. \A p \in track[e].ids : Ended(p, ci')
      BY <1>1, <1>3, <2>2 DEF OfApply, EndsStay, Ended
    <3>2. ASSUME NEW h \in Handlers, CallbackArrives(h)
          PROVE  Silent(e)'
      <4>1. PICK p \in Pids, v \in {"success", "failed"} :
              /\ ci[p] = "running"
              /\ hnd' = IF est[p[2]] = "decommissioning" /\ p \in track[p[2]].ids
                          THEN [hnd EXCEPT ![h] = {[p |-> p, verdict |-> v]}] ELSE hnd
        BY <3>2 DEF CallbackArrives
      <4>2. p \in track[p[2]].ids => p[2] # e
        BY <1>3, <4>1 DEF Ended
      <4> QED
        BY <1>3, <4>1, <4>2 DEF Silent, Typed
    <3>3. ASSUME NEW h \in Handlers, hnd' = [hnd EXCEPT ![h] = {}]
          PROVE  Silent(e)'
      BY <1>3, <3>3 DEF Silent, Typed
    <3>4. UNCHANGED hnd => Silent(e)'
      BY <1>3 DEF Silent
    <3> QED
      BY <3>1, <3>2, <3>3, <3>4, EventsIs DEF Stuck
  <2> QED
    BY <2>1, <2>2
<1> QED
  BY <1>2, <1>3 DEF Stuck

LEMMA DestroyedStays ==
  ASSUME Typed, EndsStay, NEW e \in Elements, Destroyed(e), holder'[e] = holder[e]
  PROVE  Destroyed(e)'
<1>1. holder[e] \in Tears /\ \A k \in 1 .. LastTrigger : ci[<<holder[e], e, k>>] = "success"
  BY DEF Destroyed
<1>2. \A k \in 1 .. LastTrigger : ci'[<<holder[e], e, k>>] = "success"
  BY <1>1, PidsOf DEF EndsStay, Ended
<1> QED
  BY <1>1, <1>2 DEF Destroyed

\* A settled tracking that is complete has seen every destroy succeed.
LEMMA SettledIs ==
  ASSUME NEW e \in Elements, NEW T, NEW c, IsSettled(T), Truthful(T, c)
  PROVE  /\ ~T.st.firing /\ ~T.st.missed /\ ~OfApply(T)
         /\ \A p \in T.ids : c[p] = "success"
BY DEF IsSettled, Truthful, OfApply

\* The verdicts a step leaves on an element it does not decide on.
NoNewVerdict(e) == \A x \in Procs : \A s \in settle'[x] : s.e = e => s \in settle[x]
SameRow(e) == est'[e] = est[e] /\ track'[e] = track[e] /\ holder'[e] = holder[e]

LEMMA VerdictsStay ==
  ASSUME Typed, EndsStay, NEW e \in Elements, Verdicts(e), NoNewVerdict(e),
         holder'[e] = holder[e]
  PROVE  Verdicts(e)' /\ (NoVerdict(e) => NoVerdict(e)')
<1>1. NoVerdict(e) => NoVerdict(e)'
  BY DEF NoVerdict, NoNewVerdict
<1>2. ASSUME NEW x \in Procs, NEW s \in settle'[x], s.e = e
      PROVE  Destroyed(e)'
  BY <1>2, DestroyedStays DEF Verdicts, NoNewVerdict
<1> QED
  BY <1>1, <1>2 DEF Verdicts

LEMMA RowStays ==
  ASSUME Typed, EndsStay, [Next]_vars, NEW e \in Elements, Row(e), SameRow(e)
  PROVE  Row(e)'
<1>1. track[e] \in TrackingOf(Pids)
  BY RecordsTyped
<1>2. Inert(track[e], ci) => Inert(track'[e], ci')
  BY <1>1, SaidStays DEF SameRow
<1>3. Stuck(e) => Stuck(e)'
  BY StuckStays DEF SameRow
<1>4. Complete(e) => Complete(e)'
  BY DEF Complete, SameRow
<1> QED
  BY <1>2, <1>3, <1>4 DEF Row, SameRow

LEMMA HoldingStays ==
  ASSUME Typed, EndsStay, [Next]_vars, NEW e \in Elements, SameRow(e),
         NEW t \in Tears, Holding(t, e), tear'[t] = tear[t], ~Deploying(e)',
         NoVerdict(e) => NoVerdict(e)'
  PROVE  Holding(t, e)'
<1>1. /\ track[e] \in TrackingOf(Pids)
      /\ tear[t].previous \in TrackingOf(Pids)
  BY RecordsTyped DEF TearRecord
<1>2. Inert(track[e], ci) => Inert(track'[e], ci')
  BY <1>1, SaidStays DEF SameRow
<1>3. Inert(tear[t].previous, ci) => Inert(tear'[t].previous, ci')
  BY <1>1, SaidStays
<1>4. Stuck(e) => Stuck(e)'
  BY StuckStays DEF SameRow
<1>5. Walked(t, e) => Walked(t, e)'
  BY DEF Walked, At
<1> QED
  BY <1>2, <1>3, <1>4, <1>5 DEF Holding, SameRow, At

\* A step that is not about the element.
LEMMA Unmoved ==
  ASSUME Typed, EndsStay, [Next]_vars, NEW e \in Elements, Sound(e), SameRow(e), NoNewVerdict(e),
         \A t \in Tears : Holds(t, e)' => tear'[t] = tear[t] /\ ~Deploying(e)'
  PROVE  Sound(e)'
<1>1. Verdicts(e)' /\ (NoVerdict(e) => NoVerdict(e)')
  BY VerdictsStay DEF Sound, SameRow
<1>2. Row(e)'
  BY RowStays DEF Sound
<1>3. ASSUME NEW t \in Tears, Holds(t, e)'
      PROVE  Holding(t, e)'
  <2>1. Holds(t, e) /\ tear'[t] = tear[t]
    BY <1>3 DEF Holds
  <2> QED
    BY <1>1, <1>3, <2>1, HoldingStays DEF Sound
<1> QED
  BY <1>1, <1>2, <1>3 DEF Sound

-----------------------------------------------------------------------------
(* The request that holds the element                                      *)

LEMMA Own ==
  ASSUME Typed, Orderly, NEW e \in Elements, NEW t \in Tears, Holds(t, e)
  PROVE  /\ tear[t].e = {e} /\ tear[t].pc \notin Resting
         /\ tear[t] \in TearRecord /\ tear \in [Tears -> TearRecord]
         /\ track[e] \in TrackingOf(Pids) /\ tear[t].previous \in TrackingOf(Pids)
         /\ e \in tear[t].todo
<1>1. tear[t] \in TearRecord /\ tear \in [Tears -> TearRecord] /\ track[e] \in TrackingOf(Pids)
  BY RecordsTyped DEF Typed, GoodTear
<1>2. tear[t].previous \in TrackingOf(Pids)
  BY <1>1 DEF TearRecord
<1> QED
  BY <1>1, <1>2 DEF Orderly, OneAtATime, Holds

\* Nobody else holds it.
LEMMA Mine ==
  ASSUME Typed, NEW e \in Elements, Sound(e), NEW t \in Tears, Holds(t, e),
         NEW w, tear' = [tear EXCEPT ![t] = w], Row(e)', Verdicts(e)',
         e \in w.e => Holding(t, e)'
  PROVE  Sound(e)'
<1>1. \A u \in Tears : Holds(u, e) => u = t
  BY DEF Sound, Holding
<1>2. tear'[t] = w /\ \A u \in Tears : u # t => tear'[u] = tear[u]
  BY DEF Typed
<1>3. \A u \in Tears : Holds(u, e)' => Holding(u, e)'
  BY <1>1, <1>2 DEF Holds
<1> QED
  BY <1>3 DEF Sound

LEMMA Retained ==
  ASSUME NEW e \in Elements, UNCHANGED retry
  PROVE  Deploying(e)' = Deploying(e)
BY DEF Deploying, RetryOver

\* Between the opening and the closing bracket.
LEMMA FiresOn ==
  ASSUME Typed, Orderly, EndsStay, NEW e \in Elements, Sound(e), NEW t \in Tears, Holds(t, e),
         tear[t].pc \in {"fire", "record"}, NEW w, tear' = [tear EXCEPT ![t] = w],
         w.pc \in {"fire", "record", "unclaim", "close"}, w.previous = tear[t].previous,
         Walked(t, e)', est'[e] = est[e], track'[e].st = track[e].st, holder'[e] = holder[e],
         UNCHANGED <<settle, retry>>
  PROVE  Sound(e)'
<1>1. Holding(t, e) /\ tear'[t] = w /\ w.pc \notin Unopened
  BY DEF Sound, Typed, Unopened
<1>2. /\ track[e].st.firing /\ NoVerdict(e) /\ est[e] = "decommissioning"
      /\ Inert(tear[t].previous, ci) /\ t = holder[e] /\ ~Deploying(e)
  BY <1>1 DEF Holding, Firing, Acting, Keeping
<1>3. NoVerdict(e)' /\ Verdicts(e)'
  BY <1>2 DEF NoVerdict, Verdicts
<1>4. Stuck(e)' /\ Inert(track'[e], ci')
  BY <1>2 DEF Stuck, Inert
<1>5. Row(e)'
  BY <1>2, <1>4 DEF Row
<1>6. Inert(w.previous, ci')
  BY <1>2, Own, SaidStays
<1>7. ~Deploying(e)'
  BY <1>2, Retained
<1>8. track'[e].st.firing
  BY <1>2
<1>9. Holding(t, e)'
  BY <1>1, <1>2, <1>3, <1>4, <1>6, <1>7, <1>8 DEF Holding, At
<1> QED
  BY <1>3, <1>5, <1>9, Mine

LEMMA FiresStep ==
  ASSUME Typed, Orderly, EndsStay, NEW e \in Elements, Sound(e), NEW t \in Tears, Holds(t, e),
         DestroyStarts(t) \/ DestroyFails(t) \/ RecordElementPipelineId(t) \/ RecordLost(t)
  PROVE  Sound(e)'
<1>0. /\ tear[t].e = {e} /\ tear[t] \in TearRecord /\ tear \in [Tears -> TearRecord]
      /\ track[e] \in TrackingOf(Pids) /\ track \in [Elements -> TrackingOf(Pids)]
      /\ Walked(t, e) /\ InRange(tear[t]) /\ tear[t].k \in Nat
  BY Own, RecordsTyped DEF Sound, Holding, Typed, TearRecord
<1>1. ASSUME NEW k \in 1 .. LastTrigger, tear[t].pc = "fire", k < tear[t].k
      PROVE  tear[t].missed \/ <<t, e, k>> \in tear[t].started
  <2>1. k \in Nat /\ ~(k >= tear[t].k)
    BY <1>0, <1>1
  <2> QED
    BY <1>0, <1>1, <2>1 DEF Walked, At, Unopened, Leaving
<1>2. ASSUME NEW k \in 1 .. LastTrigger, tear[t].pc = "record", k <= tear[t].k
      PROVE  tear[t].missed \/ <<t, e, k>> \in tear[t].started
  <2>1. k \in Nat /\ ~(k > tear[t].k)
    BY <1>0, <1>2
  <2> QED
    BY <1>0, <1>2, <2>1 DEF Walked, At, Unopened, Leaving
<1>3. CASE DestroyStarts(t)
  <2> DEFINE p == <<t, e, tear[t].k>>
             w == [tear[t] EXCEPT !.started = @ \union {p}, !.pc = "record"]
  <2>1. tear' = [tear EXCEPT ![t] = w] /\ tear[t].pc = "fire"
    BY <1>0, <1>3 DEF DestroyStarts, At
  <2>2. /\ w.pc = "record" /\ w.previous = tear[t].previous /\ w.k = tear[t].k
        /\ w.missed = tear[t].missed /\ w.started = tear[t].started \union {p}
    BY <1>0 DEF TearRecord
  <2> HIDE DEF w
  <2>3. tear'[t] = w
    BY <1>0, <2>1
  <2>4. Walked(t, e)'
    <3> SUFFICES ASSUME NEW k \in 1 .. LastTrigger
                 PROVE  w.missed \/ <<t, e, k>> \in w.started \/ (w.pc = "record" /\ k > w.k)
      BY <2>3 DEF Walked, At
    <3>1. k \in Nat
      BY Numbers
    <3>2. CASE k < tear[t].k
      BY <1>1, <2>1, <2>2, <3>2
    <3>3. CASE k = tear[t].k
      BY <2>2, <3>3
    <3>4. CASE k > tear[t].k
      BY <2>2, <3>4
    <3> QED
      BY <1>0, <3>1, <3>2, <3>3, <3>4
  <2> QED
    BY <1>3, <2>1, <2>2, <2>4, FiresOn DEF DestroyStarts, rowVars, history
<1>4. ASSUME NEW started, NEW missed, tear[t].pc \in {"fire", "record"}
      PROVE  /\ AfterTrigger(t, started, missed) \in {"fire", "unclaim", "close"}
             /\ AfterTrigger(t, started, missed) # "fire" => tear[t].k = LastTrigger
  <2>1. tear[t].k \in 1 .. LastTrigger /\ LastTrigger \in Nat
    BY <1>0, <1>4, Numbers DEF InRange
  <2>2. tear[t].k < LastTrigger \/ tear[t].k = LastTrigger
    BY <2>1
  <2> QED
    BY <2>2 DEF AfterTrigger
<1>5. ASSUME NEW missed \in BOOLEAN, tear[t].pc \in {"fire", "record"},
             tear' = [tear EXCEPT ![t] = [tear[t] EXCEPT !.missed = missed, !.k = @ + 1,
                        !.pc = AfterTrigger(t, tear[t].started, missed)]],
             missed \/ (tear[t].pc = "record" /\ missed = tear[t].missed),
             est'[e] = est[e], track'[e].st = track[e].st, holder'[e] = holder[e],
             UNCHANGED <<settle, retry>>
      PROVE  Sound(e)'
  <2> DEFINE pc == AfterTrigger(t, tear[t].started, missed)
             w == [tear[t] EXCEPT !.missed = missed, !.k = @ + 1, !.pc = pc]
  <2>1. tear' = [tear EXCEPT ![t] = w]
    BY <1>5
  <2>2. /\ pc \in {"fire", "unclaim", "close"}
        /\ pc # "fire" => tear[t].k = LastTrigger
    BY <1>4, <1>5
  <2> HIDE DEF pc
  <2>3. /\ w.pc = pc /\ w.previous = tear[t].previous /\ w.k = tear[t].k + 1
        /\ w.missed = missed /\ w.started = tear[t].started
    BY <1>0 DEF TearRecord
  <2> HIDE DEF w
  <2>4. tear'[t] = w
    BY <1>0, <2>1
  <2>5. Walked(t, e)'
    <3> SUFFICES ASSUME NEW k \in 1 .. LastTrigger
                 PROVE  \/ w.missed \/ <<t, e, k>> \in w.started
                        \/ w.pc = "fire" /\ k >= w.k
      BY <2>4 DEF Walked, At
    <3>1. k \in Nat /\ LastTrigger \in Nat /\ k <= LastTrigger
      BY Numbers
    <3>2. CASE missed
      BY <2>3, <3>2
    <3>3. CASE ~missed /\ k <= tear[t].k
      BY <1>2, <1>5, <2>3, <3>3
    <3>4. CASE k > tear[t].k
      <4>1. pc = "fire"
        BY <1>0, <2>2, <3>1, <3>4
      <4>2. k >= tear[t].k + 1
        BY <1>0, <3>1, <3>4
      <4> QED
        BY <2>3, <4>1, <4>2
    <3> QED
      BY <1>0, <3>1, <3>2, <3>3, <3>4
  <2> QED
    BY <1>5, <2>1, <2>2, <2>3, <2>5, FiresOn
<1>6. CASE DestroyFails(t)
  BY <1>0, <1>5, <1>6 DEF DestroyFails, At, rowVars, history
<1>7. ASSUME tear[t].pc = "record",
             tear' = [tear EXCEPT ![t].k = @ + 1,
                        ![t].pc = AfterTrigger(t, tear[t].started, tear[t].missed)],
             est'[e] = est[e], track'[e].st = track[e].st, holder'[e] = holder[e],
             UNCHANGED <<settle, retry>>
      PROVE  Sound(e)'
  <2> DEFINE missed == tear[t].missed
             pc == AfterTrigger(t, tear[t].started, missed)
  <2>1. tear[t].missed \in BOOLEAN
    BY <1>0 DEF TearRecord
  <2>2. [tear[t] EXCEPT !.k = @ + 1, !.pc = pc]
          = [tear[t] EXCEPT !.missed = missed, !.k = @ + 1, !.pc = pc]
    <3> HIDE DEF pc
    <3> QED
      BY <1>0 DEF TearRecord
  <2>3. tear' = [tear EXCEPT ![t] = [tear[t] EXCEPT !.k = @ + 1, !.pc = pc]]
    BY <1>0, <1>7
  <2> QED
    BY <1>5, <1>7, <2>1, <2>2, <2>3
<1>8. CASE RecordElementPipelineId(t)
  <2>1. track' = [track EXCEPT ![e] = AppendOne(track[e], <<t, e, tear[t].k>>)]
    BY <1>0, <1>8 DEF RecordElementPipelineId
  <2>2. track'[e].st = track[e].st
    BY <1>0, <2>1, AppendedIs
  <2> QED
    BY <1>7, <1>8, <2>2 DEF RecordElementPipelineId, At, history
<1>9. CASE RecordLost(t)
  BY <1>7, <1>9 DEF RecordLost, At, rowVars, history
<1> QED
  BY <1>3, <1>6, <1>8, <1>9

LEMMA OpensStep ==
  ASSUME Typed, Orderly, EndsStay, [Next]_vars, NEW e \in Elements, Sound(e),
         NEW t \in Tears, Holds(t, e), BeginReads(t) \/ BeginElementTriggerRun(t)
  PROVE  Sound(e)'
<1>0. /\ tear[t].e = {e} /\ tear[t] \in TearRecord /\ tear \in [Tears -> TearRecord]
      /\ track[e] \in TrackingOf(Pids) /\ track \in [Elements -> TrackingOf(Pids)]
      /\ Holding(t, e) /\ OneAtATime(tear[t])
  BY Own DEF Sound, Typed, Orderly
<1>1. tear[t].pc \in Unopened
  BY <1>0 DEF BeginReads, BeginElementTriggerRun, At, Unopened
<1>2. /\ Stuck(e) /\ NoVerdict(e) /\ est[e] = "decommissioning" /\ t = holder[e]
      /\ ~Deploying(e) /\ tear[t].k = 1 /\ Inert(track[e], ci)
  BY <1>0, <1>1 DEF Holding, Unopened, Acting, OneAtATime
<1>3. UNCHANGED <<settle, retry, est, holder>>
  BY DEF BeginReads, BeginElementTriggerRun, rowVars, history
<1>4. NoVerdict(e)' /\ Verdicts(e)'
  BY <1>2, <1>3 DEF NoVerdict, Verdicts
<1>5. ~Deploying(e)'
  BY <1>2, <1>3, Retained
<1>6. CASE BeginReads(t)
  <2> DEFINE w == [tear[t] EXCEPT !.previous = track[e], !.pc = "begin"]
  <2>1. tear' = [tear EXCEPT ![t] = w] /\ UNCHANGED track
    BY <1>0, <1>6 DEF BeginReads, rowVars
  <2>2. w.pc = "begin" /\ w.previous = track[e]
    BY <1>0 DEF TearRecord
  <2> HIDE DEF w
  <2>3. tear'[t] = w
    BY <1>0, <2>1
  <2>4. Stuck(e)' /\ Row(e)' /\ Inert(track[e], ci')
    <3>1. SameRow(e)
      BY <1>3, <2>1 DEF SameRow
    <3> QED
      BY <1>0, <1>2, <3>1, RowStays, StuckStays, SaidStays DEF SameRow, Sound
  <2>5. Holding(t, e)'
    BY <1>2, <1>3, <1>4, <1>5, <2>1, <2>2, <2>3, <2>4
    DEF Holding, At, Walked, Unopened, Firing, Keeping, Acting
  <2> QED
    BY <1>4, <2>1, <2>4, <2>5, Mine
<1>7. CASE BeginElementTriggerRun(t)
  <2> DEFINE w == [tear[t] EXCEPT !.pc = "fire"]
  <2>1. /\ tear' = [tear EXCEPT ![t] = w]
        /\ track' = [track EXCEPT ![e] = Opened] /\ tear[t].pc = "begin"
    BY <1>0, <1>2, <1>7 DEF BeginElementTriggerRun, Goto, At
  <2>2. w.pc = "fire" /\ w.previous = tear[t].previous /\ w.k = 1
    BY <1>0, <1>2 DEF TearRecord
  <2> HIDE DEF w
  <2>3. tear'[t] = w /\ track'[e].st.firing
    BY <1>0, <2>1 DEF Opened, NoStatus
  <2>4. Stuck(e)' /\ Inert(track'[e], ci')
    BY <2>3 DEF Stuck, Inert
  <2>5. Row(e)'
    BY <1>2, <1>3, <2>4 DEF Row
  <2>6. Inert(w.previous, ci')
    BY <1>0, <2>1, <2>2, Own, SaidStays DEF Holding, Keeping
  <2>7. Walked(t, e)'
    BY <2>2, <2>3, Numbers DEF Walked, At
  <2>8. Holding(t, e)'
    BY <1>2, <1>3, <1>4, <1>5, <2>2, <2>3, <2>4, <2>6, <2>7
    DEF Holding, At, Unopened, Firing, Keeping, Acting
  <2> QED
    BY <1>4, <2>1, <2>5, <2>8, Mine
<1> QED
  BY <1>6, <1>7

\* The request is through with the element.
LEMMA Through ==
  ASSUME Typed, Orderly, NEW e \in Elements, Sound(e), NEW t \in Tears, Holds(t, e),
         NEW failed, Leave(t, failed), Row(e)', Verdicts(e)'
  PROVE  Sound(e)'
<1> DEFINE w == Left(t, failed)
<1>1. tear' = [tear EXCEPT ![t] = w]
  BY DEF Leave
<1>2. e \notin w.e
  BY LeftIs
<1> HIDE DEF w
<1> QED
  BY <1>1, <1>2, Mine

\* It put the element back, or is about to.
LEMMA ThrowsOn ==
  ASSUME Typed, Orderly, EndsStay, NEW e \in Elements, Sound(e), NEW t \in Tears, Holds(t, e),
         Throw(t), Row(e)', Verdicts(e)', UNCHANGED <<track, retry, holder>>
  PROVE  Sound(e)'
<1> DEFINE w == Thrown(t)
<1>1. tear' = [tear EXCEPT ![t] = w] /\ tear'[t] = w
  BY DEF Throw, Typed
<1>2. w = Left(t, TRUE) \/ w.pc = "putback"
  BY Own, ThrownIs DEF Orderly
<1> HIDE DEF w
<1>3. CASE w = Left(t, TRUE)
  BY <1>1, <1>3, LeftIs, Mine
<1>4. CASE w.pc = "putback"
  <2>1. t = holder[e] /\ ~Deploying(e)' /\ Inert(track[e], ci')
    BY Own, Retained, SaidStays DEF Sound, Holding
  <2>2. Holding(t, e)'
    BY <1>1, <1>4, <2>1
    DEF Holding, At, Walked, Unopened, Firing, Keeping, Acting, Leaving
  <2> QED
    BY <1>1, <2>2, Mine
<1> QED
  BY <1>2, <1>3, <1>4

LEMMA LeavesStep ==
  ASSUME Typed, Orderly, EndsStay, [Next]_vars, NEW e \in Elements, Sound(e),
         NEW t \in Tears, Holds(t, e),
         \/ Unclaim(t) \/ RestoreElementTriggerRun(t) \/ PutBack(t) \/ PutBackFails(t)
         \/ TearThrows(t)
  PROVE  Sound(e)'
<1>0. /\ tear[t].e = {e} /\ tear[t] \in TearRecord /\ tear \in [Tears -> TearRecord]
      /\ track[e] \in TrackingOf(Pids) /\ track \in [Elements -> TrackingOf(Pids)]
      /\ Holding(t, e) /\ est \in [Elements -> ElementStatuses]
  BY Own DEF Sound, Typed
<1>1. UNCHANGED <<settle, retry, holder>>
  BY DEF Unclaim, RestoreElementTriggerRun, PutBack, PutBackFails, TearThrows, history
<1>2. NoNewVerdict(e) /\ holder'[e] = holder[e]
  BY <1>1 DEF NoNewVerdict
<1>3. Verdicts(e)' /\ (NoVerdict(e) => NoVerdict(e)')
  BY <1>2, VerdictsStay DEF Sound
<1>4. Inert(track[e], ci') /\ ~Deploying(e)' /\ t = holder[e]
  BY <1>0, <1>1, Retained, SaidStays DEF Holding
<1>5. ASSUME est'[e] = "active", track'[e] = track[e]
      PROVE  Row(e)'
  BY <1>4, <1>5 DEF Row
<1>6. ASSUME UNCHANGED <<est, track>>
      PROVE  Row(e)'
  BY <1>1, <1>6, RowStays DEF SameRow, Sound
<1>7. CASE Unclaim(t)
  <2> DEFINE w == [tear[t] EXCEPT !.pc = "restore"]
  <2>1. /\ tear' = [tear EXCEPT ![t] = w] /\ tear[t].pc = "unclaim"
        /\ est' = [est EXCEPT ![e] = "active"] /\ UNCHANGED track
    BY <1>0, <1>7 DEF Unclaim, Goto, At
  <2>2. w.pc = "restore" /\ w.previous = tear[t].previous
    BY <1>0 DEF TearRecord
  <2> HIDE DEF w
  <2>3. tear'[t] = w /\ est'[e] = "active"
    BY <1>0, <2>1
  <2>4. /\ Inert(w.previous, ci') /\ NoVerdict(e) /\ track[e].st.firing
    BY <1>0, <2>1, <2>2, Own, SaidStays DEF Holding, Keeping, Firing
  <2>5. Holding(t, e)'
    BY <1>1, <1>3, <1>4, <2>1, <2>2, <2>3, <2>4
    DEF Holding, At, Walked, Unopened, Firing, Keeping, Acting, Leaving
  <2> QED
    BY <1>3, <1>5, <2>1, <2>3, <2>5, Mine
<1>8. CASE RestoreElementTriggerRun(t)
  <2>1. /\ track' = [track EXCEPT ![e] = tear[t].previous] /\ tear[t].pc = "restore"
        /\ est'[e] = est[e] /\ Leave(t, TRUE)
    BY <1>0, <1>8 DEF RestoreElementTriggerRun, At
  <2>2. est[e] = "active" /\ Inert(tear[t].previous, ci')
    BY <1>0, <2>1, Own, SaidStays DEF Holding, Keeping, At
  <2>3. Row(e)'
    BY <1>0, <2>1, <2>2 DEF Row
  <2> QED
    BY <1>3, <2>1, <2>3, Through
<1>9. CASE PutBack(t)
  <2>1. est'[e] = "active" /\ track' = track /\ Leave(t, TRUE)
    BY <1>0, <1>9 DEF PutBack
  <2> QED
    BY <1>3, <1>5, <2>1, Through
<1>10. CASE PutBackFails(t)
  BY <1>3, <1>6, <1>10, Through DEF PutBackFails, rowVars
<1>11. CASE TearThrows(t)
  BY <1>1, <1>3, <1>6, <1>11, ThrowsOn DEF TearThrows, rowVars
<1> QED
  BY <1>7, <1>8, <1>9, <1>10, <1>11

LEMMA FinishStep ==
  ASSUME Typed, Orderly, EndsStay, [Next]_vars, NEW e \in Elements, Sound(e),
         NEW t \in Tears, Holds(t, e), FinishElementTriggerRun(t)
  PROVE  Sound(e)'
<1>0. /\ tear[t].e = {e} /\ tear[t] \in TearRecord /\ tear \in [Tears -> TearRecord]
      /\ track[e] \in TrackingOf(Pids) /\ track \in [Elements -> TrackingOf(Pids)]
      /\ Holding(t, e) /\ tear[t].pc = "close" /\ tear[t].missed \in BOOLEAN
      /\ t \in Procs /\ settle \in [Procs -> SUBSET [e : Elements, decided : StatusMap(Pids)]]
  BY Own DEF Sound, Typed, FinishElementTriggerRun, At, TearRecord, Procs
<1> DEFINE new == Closed(track[e], tear[t].started, tear[t].missed)
<1>1. /\ track' = [track EXCEPT ![e] = new]
      /\ settle' = [settle EXCEPT ![t] = Deciding(e, new)]
      /\ IF IsSettled(new) THEN Goto(t, "settling") ELSE Leave(t, tear[t].missed)
      /\ UNCHANGED <<est, holder, retry, ci>>
  BY <1>0 DEF FinishElementTriggerRun, history
<1>2. /\ t = holder[e] /\ est[e] = "decommissioning" /\ NoVerdict(e) /\ ~Deploying(e)
      /\ Walked(t, e)
  BY <1>0 DEF Holding, Acting, Firing
<1>3. /\ new.st.missed = (track[e].st.missed \/ tear[t].missed)
      /\ new.ids = track[e].ids \union tear[t].started
  BY <1>0, ClosedIs
<1>4. Truthful(new, ci')
  <2>1. Truthful(track'[e], ci')
    BY TruthStep
  <2> QED
    BY <1>0, <1>1, <2>1
<1> HIDE DEF new
<1>5. track'[e] = new /\ settle'[t] = Deciding(e, new)
  BY <1>0, <1>1
<1>6. ~new.st.missed => \A k \in 1 .. LastTrigger : <<t, e, k>> \in new.ids
  BY <1>0, <1>2, <1>3 DEF Walked, At, Unopened, Leaving
<1>7. Stuck(e)' \/ Complete(e)'
  BY <1>1, <1>2, <1>5, <1>6 DEF Stuck, Complete
<1>8. Row(e)'
  BY <1>1, <1>2, <1>7 DEF Row
<1>9. IsSettled(new) => Destroyed(e)'
  <2> SUFFICES ASSUME IsSettled(new)
               PROVE  Destroyed(e)'
    OBVIOUS
  <2>1. ~new.st.missed /\ \A p \in new.ids : ci'[p] = "success"
    BY <1>4, SettledIs
  <2> QED
    BY <1>1, <1>2, <1>6, <2>1 DEF Destroyed
<1>10. Verdicts(e)'
  <2>1. \A x \in Procs : x # t => settle'[x] = settle[x]
    BY <1>0, <1>1
  <2>2. settle'[t] # {} => IsSettled(new)
    BY <1>5 DEF Deciding, NoSettling
  <2> QED
    BY <1>2, <1>9, <2>1, <2>2 DEF Verdicts, NoVerdict
<1>11. CASE ~IsSettled(new)
  BY <1>1, <1>8, <1>10, <1>11, Through
<1>12. CASE IsSettled(new)
  <2> DEFINE w == [tear[t] EXCEPT !.pc = "settling"]
  <2>1. tear' = [tear EXCEPT ![t] = w]
    BY <1>0, <1>1, <1>12 DEF Goto
  <2>2. w.pc = "settling"
    BY <1>0 DEF TearRecord
  <2> HIDE DEF w
  <2>3. tear'[t] = w
    BY <1>0, <2>1
  <2>4. Inert(new, ci')
    BY <1>4, <1>12, SettledIs DEF Inert, Ended
  <2>5. ~Deploying(e)'
    BY <1>1, <1>2, Retained
  <2>6. Holding(t, e)'
    BY <1>1, <1>2, <1>5, <2>2, <2>3, <2>4, <2>5
    DEF Holding, At, Walked, Unopened, Firing, Keeping, Acting, Leaving
  <2> QED
    BY <1>8, <1>10, <2>1, <2>6, Mine
<1> QED
  BY <1>11, <1>12

-----------------------------------------------------------------------------
(* The compare-and-swap                                                    *)

\* Whoever settles an element decided so when it was destroyed.
LEMMA SwapsStep ==
  ASSUME Typed, Orderly, EndsStay, [Next]_vars, NEW e \in Elements, Sound(e),
         NEW x \in Procs, SettleSwaps(x) \/ SettleThrows(x)
  PROVE  Sound(e)'
<1>0. /\ track[e] \in TrackingOf(Pids) /\ est \in [Elements -> ElementStatuses]
      /\ settle \in [Procs -> SUBSET [e : Elements, decided : StatusMap(Pids)]]
  BY RecordsTyped DEF Typed
<1>1. /\ UNCHANGED <<track, holder, retry>>
      /\ settle' = [settle EXCEPT ![x] = {}]
  BY DEF SettleSwaps, SettleThrows, NoSettling, history
<1>2. /\ est'[e] # est[e] => est'[e] = "decommissioned" /\ \E s \in settle[x] : s.e = e
  BY DEF SettleSwaps, SettleThrows, Swapped
<1>3. NoNewVerdict(e) /\ holder'[e] = holder[e]
  BY <1>0, <1>1 DEF NoNewVerdict
<1>4. Verdicts(e)' /\ (NoVerdict(e) => NoVerdict(e)')
  BY <1>3, VerdictsStay DEF Sound
<1>5. CASE est'[e] = est[e]
  <2>1. SameRow(e)
    BY <1>1, <1>5 DEF SameRow
  <2>2. Row(e)'
    BY <2>1, RowStays DEF Sound
  <2>3. ASSUME UNCHANGED tear
        PROVE  Sound(e)'
    <3>1. \A t \in Tears : Holds(t, e) => ~Deploying(e)'
      BY <1>1, Retained DEF Sound, Holding
    <3>2. \A t \in Tears : Holds(t, e)' => tear'[t] = tear[t] /\ ~Deploying(e)'
      BY <2>3, <3>1 DEF Holds
    <3> QED
      BY <1>3, <2>1, <3>2, Unmoved
  <2>4. ASSUME x \in Tears, Leave(x, tear[x].missed) \/ Throw(x)
        PROVE  Sound(e)'
    <3>1. CASE Holds(x, e)
      BY <1>1, <1>4, <2>2, <2>4, <3>1, Through, ThrowsOn
    <3>2. CASE ~Holds(x, e)
      <4>0. Works(x)
        BY DEF Works
      <4>1. PICK w : tear' = [tear EXCEPT ![x] = w] /\ Onward(x, w)
        BY <2>4, <4>0, WorkIs
      <4>2. w.e \subseteq tear[x].e
        BY <2>4, <4>1, Narrows
      <4>3. tear'[x] = w /\ \A t \in Tears : t # x => tear'[t] = tear[t]
        BY <2>4, <4>1 DEF Typed
      <4>4. \A t \in Tears : Holds(t, e)' => t # x /\ tear'[t] = tear[t] /\ Holds(t, e)
        BY <3>2, <4>2, <4>3 DEF Holds
      <4>5. \A t \in Tears : Holds(t, e) => ~Deploying(e)'
        BY <1>1, Retained DEF Sound, Holding
      <4>6. \A t \in Tears : Holds(t, e)' => tear'[t] = tear[t] /\ ~Deploying(e)'
        BY <4>4, <4>5
      <4> QED
        BY <1>3, <2>1, <4>6, Unmoved
    <3> QED
      BY <3>1, <3>2
  <2> QED
    BY <2>3, <2>4 DEF SettleSwaps, SettleThrows
<1>6. CASE est'[e] = "decommissioned" /\ \E s \in settle[x] : s.e = e
  <2>1. Row(e)'
    BY <1>6 DEF Row
  <2>2. ASSUME NEW t \in Tears, Holds(t, e), tear'[t] = tear[t]
        PROVE  Holding(t, e)'
    <3>1. Holding(t, e) /\ ~NoVerdict(e)
      BY <1>6, <2>2 DEF Sound, NoVerdict
    <3>2. tear[t].pc \notin Unopened \union Firing
      BY <3>1 DEF Holding
    <3>3. tear[t].pc \notin Keeping \union Acting \union {"restore"}
      BY <3>2 DEF Unopened, Firing, Keeping, Acting
    <3>4. Inert(track[e], ci') /\ ~Deploying(e)'
      BY <1>0, <1>1, <3>1, Retained, SaidStays DEF Holding
    <3>5. Walked(t, e)'
      BY <2>2, <3>1 DEF Holding, Walked, At
    <3> QED
      BY <1>1, <2>2, <3>1, <3>2, <3>3, <3>4, <3>5 DEF Holding, At
  <2>3. ASSUME UNCHANGED tear
        PROVE  Sound(e)'
    BY <1>4, <2>1, <2>2, <2>3 DEF Sound, Holds
  <2>4. ASSUME x \in Tears, Leave(x, tear[x].missed) \/ Throw(x)
        PROVE  Sound(e)'
    <3>1. Holds(x, e)
      BY <1>6, <2>4 DEF Orderly
    <3> QED
      BY <1>1, <1>4, <2>1, <2>4, <3>1, Through, ThrowsOn
  <2> QED
    BY <2>3, <2>4 DEF SettleSwaps, SettleThrows
<1> QED
  BY <1>2, <1>5, <1>6

-----------------------------------------------------------------------------
(* Everybody                                                               *)

LEMMA WorkStep ==
  ASSUME Typed, Orderly, EndsStay, [Next]_vars, NEW e \in Elements, Sound(e),
         NEW t \in Tears, Works(t)
  PROVE  Sound(e)'
<1>0. /\ est \in [Elements -> ElementStatuses] /\ track \in [Elements -> TrackingOf(Pids)]
      /\ settle \in [Procs -> SUBSET [e : Elements, decided : StatusMap(Pids)]]
      /\ t \in Procs /\ tear[t].e \subseteq Elements
  BY RecordsTyped DEF Typed, Procs, TearRecord
<1>1. CASE SettleSwaps(t) \/ SettleThrows(t)
  BY <1>0, <1>1, SwapsStep
<1>2. CASE Holds(t, e) /\ ~SettleSwaps(t) /\ ~SettleThrows(t)
  BY <1>2, FiresStep, OpensStep, LeavesStep, FinishStep DEF Works
<1>3. CASE ~Holds(t, e) /\ ~SettleSwaps(t) /\ ~SettleThrows(t)
  <2>1. SameRow(e) /\ NoNewVerdict(e) /\ UNCHANGED retry
    <3>1. CASE \/ BeginReads(t) \/ DestroyStarts(t) \/ DestroyFails(t) \/ RecordLost(t)
               \/ PutBackFails(t) \/ TearThrows(t)
      BY <3>1 DEF BeginReads, DestroyStarts, DestroyFails, RecordLost, PutBackFails, TearThrows,
         rowVars, history, SameRow, NoNewVerdict
    <3>2. CASE BeginElementTriggerRun(t)
      <4>1. PICK d \in tear[t].e : track' = track \/ track' = [track EXCEPT ![d] = Opened]
        BY <3>2 DEF BeginElementTriggerRun
      <4>2. d # e
        BY <1>3 DEF Holds
      <4> QED
        BY <1>0, <3>2, <4>1, <4>2 DEF BeginElementTriggerRun, history, SameRow, NoNewVerdict
    <3>3. CASE RecordElementPipelineId(t)
      <4>1. PICK d \in tear[t].e : \E T : track' = [track EXCEPT ![d] = T]
        BY <3>3 DEF RecordElementPipelineId
      <4>2. d # e
        BY <1>3 DEF Holds
      <4> QED
        BY <1>0, <3>3, <4>1, <4>2 DEF RecordElementPipelineId, history, SameRow, NoNewVerdict
    <3>4. CASE Unclaim(t) \/ PutBack(t)
      <4>1. PICK d \in tear[t].e : est' = [est EXCEPT ![d] = "active"]
        BY <3>4 DEF Unclaim, PutBack
      <4>2. d # e
        BY <1>3 DEF Holds
      <4> QED
        BY <1>0, <3>4, <4>1, <4>2 DEF Unclaim, PutBack, history, SameRow, NoNewVerdict
    <3>5. CASE RestoreElementTriggerRun(t)
      <4>1. PICK d \in tear[t].e : \E T : track' = [track EXCEPT ![d] = T]
        BY <3>5 DEF RestoreElementTriggerRun
      <4>2. d # e
        BY <1>3 DEF Holds
      <4> QED
        BY <1>0, <3>5, <4>1, <4>2 DEF RestoreElementTriggerRun, history, SameRow, NoNewVerdict
    <3>6. CASE FinishElementTriggerRun(t)
      <4>1. PICK d \in tear[t].e :
              \E T : track' = [track EXCEPT ![d] = T] /\ settle' = [settle EXCEPT ![t] = Deciding(d, T)]
        BY <3>6 DEF FinishElementTriggerRun
      <4>2. d # e
        BY <1>3 DEF Holds
      <4>3. NoNewVerdict(e)
        <5>1. PICK T : settle' = [settle EXCEPT ![t] = Deciding(d, T)]
          BY <4>1
        <5>2. \A s \in Deciding(d, T) : s.e = d
          BY DEF Deciding, NoSettling
        <5> QED
          BY <1>0, <4>2, <5>1, <5>2 DEF NoNewVerdict
      <4> QED
        BY <1>0, <3>6, <4>1, <4>2, <4>3 DEF FinishElementTriggerRun, history, SameRow
    <3> QED
      BY <1>3, <3>1, <3>2, <3>3, <3>4, <3>5, <3>6 DEF Works
  <2>2. PICK w : tear' = [tear EXCEPT ![t] = w] /\ Onward(t, w)
    BY WorkIs
  <2>3. w.e \subseteq tear[t].e
    BY <2>2, Narrows
  <2>4. tear'[t] = w /\ \A u \in Tears : u # t => tear'[u] = tear[u]
    BY <2>2 DEF Typed
  <2>5. \A u \in Tears : Holds(u, e)' => tear'[u] = tear[u] /\ Holds(u, e)
    BY <1>3, <2>3, <2>4 DEF Holds
  <2>6. \A u \in Tears : Holds(u, e) => ~Deploying(e)'
    BY <2>1, Retained DEF Sound, Holding
  <2>7. \A u \in Tears : Holds(u, e)' => tear'[u] = tear[u] /\ ~Deploying(e)'
    BY <2>5, <2>6
  <2> QED
    BY <2>1, <2>7, Unmoved
<1> QED
  BY <1>1, <1>2, <1>3

LEMMA RestStep ==
  ASSUME Typed, Orderly, EndsStay, [Next]_vars, NEW e \in Elements, Sound(e),
         NEW t \in Tears, Requests(t) \/ ClaimRefused(t) \/ RetireProject(t) \/ TearDies(t)
  PROVE  Sound(e)'
<1>1. PICK w : tear' = [tear EXCEPT ![t] = w] /\ (w.e = {} \/ Claim(t))
  BY RestIs
<1>2. UNCHANGED <<est, track, holder, retry>>
  BY DEF Requests, DecommissionInfra, SweepDueDecommissions, DeleteProject, Begins,
     ClaimRefused, RetireProject, TearDies, rowVars, history
<1>3. UNCHANGED settle \/ settle' = [settle EXCEPT ![t] = {}]
  BY DEF Requests, DecommissionInfra, SweepDueDecommissions, DeleteProject, Begins,
     ClaimRefused, RetireProject, TearDies, NoSettling
<1>4. SameRow(e) /\ NoNewVerdict(e)
  BY <1>2, <1>3 DEF SameRow, NoNewVerdict, Typed
<1>5. ASSUME Claim(t) PROVE w.e = {}
  <2>1. est' # est
    BY <1>5, RecordsTyped DEF Claim, MayClaim, Typed, TearRecord
  <2> QED
    BY <1>2, <2>1
<1>6. tear'[t] = w /\ \A u \in Tears : u # t => tear'[u] = tear[u]
  BY <1>1 DEF Typed
<1>7. \A u \in Tears : Holds(u, e)' => tear'[u] = tear[u] /\ Holds(u, e)
  BY <1>1, <1>5, <1>6 DEF Holds
<1>8. \A u \in Tears : Holds(u, e) => ~Deploying(e)'
  BY <1>2, Retained DEF Sound, Holding
<1>9. \A u \in Tears : Holds(u, e)' => tear'[u] = tear[u] /\ ~Deploying(e)'
  BY <1>7, <1>8
<1> QED
  BY <1>4, <1>9, Unmoved

LEMMA ClaimStep ==
  ASSUME Typed, Orderly, EndsStay, [Next]_vars, NEW e \in Elements, Sound(e),
         NEW t \in Tears, Claim(t), e \notin stale'
  PROVE  Sound(e)'
<1>0. /\ tear[t] \in TearRecord /\ tear \in [Tears -> TearRecord] /\ tear[t].pc = "claim"
      /\ tear[t].todo \subseteq Elements /\ est \in [Elements -> ElementStatuses]
      /\ holder \in [Elements -> Tears \union {0}]
  BY RecordsTyped DEF Claim, At, Typed, TearRecord, GoodTear
<1>1. PICK d \in tear[t].todo :
        /\ est[d] = "active"
        /\ est' = [est EXCEPT ![d] = "decommissioning"]
        /\ tear' = [tear EXCEPT ![t].e = {d}, ![t].pc = "read"]
        /\ holder' = [holder EXCEPT ![d] = t]
        /\ stale' = IF Unfinished(d) \/ Deploying(d) THEN stale \union {d} ELSE stale
  BY DEF Claim, MayClaim
<1> DEFINE w == [tear[t] EXCEPT !.e = {d}, !.pc = "read"]
<1>2. tear' = [tear EXCEPT ![t] = w]
  BY <1>0, <1>1
<1>3. w.pc = "read" /\ w.e = {d}
  BY <1>0 DEF TearRecord
<1> HIDE DEF w
<1>4. UNCHANGED <<track, settle, retry, hnd>>
  BY DEF Claim
<1>5. tear'[t] = w /\ \A u \in Tears : u # t => tear'[u] = tear[u]
  BY <1>0, <1>2
<1>6. NoNewVerdict(e)
  BY <1>4 DEF NoNewVerdict
<1>7. CASE d # e
  <2>1. SameRow(e)
    BY <1>0, <1>1, <1>4, <1>7 DEF SameRow
  <2>2. \A u \in Tears : Holds(u, e)' => tear'[u] = tear[u] /\ Holds(u, e)
    BY <1>3, <1>5, <1>7 DEF Holds
  <2>3. \A u \in Tears : Holds(u, e) => ~Deploying(e)'
    BY <1>4, Retained DEF Sound, Holding
  <2>4. \A u \in Tears : Holds(u, e)' => tear'[u] = tear[u] /\ ~Deploying(e)'
    BY <2>2, <2>3
  <2> QED
    BY <1>6, <2>1, <2>4, Unmoved
<1>8. CASE d = e
  <2>1. ~Unfinished(e) /\ ~Deploying(e)
    BY <1>1, <1>8
  <2>2. \A u \in Tears : ~Holds(u, e)
    BY <2>1, Own DEF Unfinished, TearOver, Resting
  <2>3. Silent(e) /\ \A h \in Handlers : \A s \in settle[h] : s.e # e
    BY <2>1 DEF Silent, Unfinished
  <2>4. NoVerdict(e)
    BY <2>2, <2>3 DEF NoVerdict, Procs, Orderly
  <2>5. Inert(track[e], ci)
    BY <1>1, <1>8 DEF Sound, Row
  <2>6. Stuck(e)
    BY <2>3, <2>5 DEF Stuck, Inert
  <2>7. Stuck(e)' /\ Inert(track'[e], ci')
    BY <1>4, <2>5, <2>6, RecordsTyped, StuckStays, SaidStays
  <2>8. holder'[e] = t /\ est'[e] = "decommissioning"
    BY <1>0, <1>1, <1>8
  <2>9. Row(e)' /\ NoVerdict(e)' /\ Verdicts(e)' /\ ~Deploying(e)'
    BY <1>4, <2>1, <2>4, <2>7, <2>8, Retained DEF Row, NoVerdict, Verdicts
  <2>10. Holding(t, e)'
    BY <1>3, <1>5, <2>7, <2>8, <2>9
    DEF Holding, At, Walked, Unopened, Firing, Keeping, Acting, Leaving
  <2>11. \A u \in Tears : Holds(u, e)' => u = t
    BY <1>5, <2>2 DEF Holds
  <2> QED
    BY <2>9, <2>10, <2>11 DEF Sound
<1> QED
  BY <1>7, <1>8

LEMMA CallbackStep ==
  ASSUME Typed, Orderly, EndsStay, [Next]_vars, NEW e \in Elements, Sound(e),
         NEW h \in Handlers, HandlerStep(h)
  PROVE  Sound(e)'
<1>0. /\ track \in [Elements -> TrackingOf(Pids)] /\ track[e] \in TrackingOf(Pids)
      /\ hnd \in [Handlers -> SUBSET [p : Pids, verdict : {"success", "failed"}]]
      /\ settle \in [Procs -> SUBSET [e : Elements, decided : StatusMap(Pids)]]
      /\ h \in Procs
  BY DEF Typed, Procs
<1>1. UNCHANGED <<est, holder, retry, tear>>
  BY DEF HandlerStep, CallbackArrives, MergeSuccessEvent, MergeFailureEvent, rowVars, history
<1>2. \A u \in Tears : Holds(u, e) => ~Deploying(e)'
  BY <1>1, Retained DEF Sound, Holding
<1>3. \A u \in Tears : Holds(u, e)' => tear'[u] = tear[u] /\ ~Deploying(e)'
  BY <1>1, <1>2 DEF Holds
<1>4. ASSUME track'[e] = track[e], NoNewVerdict(e)
      PROVE  Sound(e)'
  BY <1>1, <1>3, <1>4, Unmoved DEF SameRow
<1>5. CASE CallbackArrives(h)
  BY <1>4, <1>5 DEF CallbackArrives, rowVars, NoNewVerdict
<1>6. ASSUME NEW ev \in hnd[h], ev.p[2] # e,
             \/ UNCHANGED track
             \/ \E T : track' = [track EXCEPT ![ev.p[2]] = T],
             \/ UNCHANGED settle
             \/ \E T : settle' = [settle EXCEPT ![h] = Deciding(ev.p[2], T)]
      PROVE  Sound(e)'
  <2>1. track'[e] = track[e]
    BY <1>0, <1>6
  <2>2. \A T : \A s \in Deciding(ev.p[2], T) : s.e # e
    BY <1>6 DEF Deciding, NoSettling
  <2>3. NoNewVerdict(e)
    BY <1>0, <1>6, <2>2 DEF NoNewVerdict
  <2> QED
    BY <1>4, <2>1, <2>3
\* An event that was matched to the element is written to it.
<1>7. ASSUME NEW ev \in hnd[h], ev.p[2] = e, est[e] = "decommissioning",
             NEW T, track' = [track EXCEPT ![e] = T],
             T.ids = track[e].ids, T.st.firing = track[e].st.firing,
             T.st.missed = track[e].st.missed,
             UNCHANGED settle \/ settle' = [settle EXCEPT ![h] = Deciding(e, T)]
      PROVE  Sound(e)'
  <2>1. track'[e] = T
    BY <1>0, <1>7
  <2>2. ~Silent(e)
    BY <1>7 DEF Silent
  <2>3. Stuck(e) => T.st.firing \/ T.st.missed \/ OfApply(T)
    BY <1>7, <2>2 DEF Stuck, OfApply
  <2>4. Stuck(e) => Stuck(e)'
    BY <2>1, <2>3 DEF Stuck
  <2>5. holder[e] \in Tears /\ (Stuck(e) \/ Complete(e))
    BY <1>7 DEF Sound, Row
  <2>6. Row(e)'
    BY <1>1, <1>7, <2>1, <2>4, <2>5 DEF Row, Complete
  <2>7. Truthful(T, ci')
    BY <2>1, TruthStep
  <2>8. ASSUME IsSettled(T)
        PROVE  ~Stuck(e) /\ Destroyed(e)'
    <3>1. ~T.st.firing /\ ~T.st.missed /\ ~OfApply(T) /\ \A p \in T.ids : ci'[p] = "success"
      BY <2>7, <2>8, SettledIs
    <3>2. ~Stuck(e) /\ Complete(e)
      BY <2>3, <2>5, <3>1
    <3> QED
      BY <1>1, <1>7, <2>5, <3>1, <3>2 DEF Complete, Destroyed
  <2>9. \A x \in Procs : \A s \in settle'[x] : s.e = e =>
          s \in settle[x] \/ (IsSettled(T) /\ Destroyed(e)')
    <3>1. CASE UNCHANGED settle
      BY <3>1
    <3>2. CASE settle' = [settle EXCEPT ![h] = Deciding(e, T)]
      BY <1>0, <2>8, <3>2 DEF Deciding, NoSettling
    <3> QED
      BY <1>7, <3>1, <3>2
  <2>10. Destroyed(e) => Destroyed(e)'
    BY <1>1, DestroyedStays
  <2>11. Verdicts(e)'
    BY <2>9, <2>10 DEF Sound, Verdicts
  <2>12. ASSUME NEW t \in Tears, Holds(t, e)
         PROVE  Holding(t, e)'
    <3>1. Holding(t, e)
      BY <2>12 DEF Sound
    <3>2. Inert(T, ci')
      <4>1. Inert(track[e], ci')
        BY <1>0, <3>1, SaidStays DEF Holding
      <4> QED
        BY <1>7, <4>1 DEF Inert, OfApply
    <3>3. tear[t].pc \in Unopened \union Firing => ~IsSettled(T) /\ NoVerdict(e)
      BY <1>7, <2>8, <3>1 DEF Holding, IsSettled
    <3>4. tear[t].pc \in Unopened \union Firing => NoVerdict(e)'
      BY <2>9, <3>3 DEF NoVerdict
    <3>5. Inert(tear[t].previous, ci) => Inert(tear[t].previous, ci')
      BY Own, SaidStays, <2>12
    <3>6. ~Deploying(e)'
      BY <1>1, <3>1, Retained DEF Holding
    <3> QED
      BY <1>1, <1>7, <2>1, <2>4, <3>1, <3>2, <3>4, <3>5, <3>6 DEF Holding, At, Walked
  <2> QED
    BY <1>1, <2>6, <2>11, <2>12 DEF Sound, Holds
<1>8. CASE MergeSuccessEvent(h)
  <2>1. PICK ev \in hnd[h] :
          IF est[ev.p[2]] = "decommissioning"
            THEN /\ track' = [track EXCEPT ![ev.p[2]] = MergeSuccess(track[ev.p[2]], ev.p)]
                 /\ settle' = [settle EXCEPT ![h] = Deciding(ev.p[2], MergeSuccess(track[ev.p[2]], ev.p))]
            ELSE UNCHANGED <<track, settle>>
    BY <1>0, <1>8 DEF MergeSuccessEvent
  <2>2. CASE est[ev.p[2]] # "decommissioning"
    BY <1>4, <2>1, <2>2 DEF NoNewVerdict
  <2>3. CASE est[ev.p[2]] = "decommissioning" /\ ev.p[2] # e
    BY <1>6, <2>1, <2>3
  <2>4. CASE est[ev.p[2]] = "decommissioning" /\ ev.p[2] = e
    <3>1. /\ MergeSuccess(track[e], ev.p).st.firing = track[e].st.firing
          /\ MergeSuccess(track[e], ev.p).st.missed = track[e].st.missed
          /\ MergeSuccess(track[e], ev.p).ids = track[e].ids
      BY <1>0, MergedIs
    <3> QED
      BY <1>7, <2>1, <2>4, <3>1
  <2> QED
    BY <2>2, <2>3, <2>4
<1>9. CASE MergeFailureEvent(h)
  <2>1. PICK ev \in hnd[h] :
          track' = IF est[ev.p[2]] = "decommissioning"
                     THEN [track EXCEPT ![ev.p[2]] = MergeFailure(track[ev.p[2]], ev.p)] ELSE track
    BY <1>0, <1>9 DEF MergeFailureEvent
  <2>2. UNCHANGED settle
    BY <1>9 DEF MergeFailureEvent
  <2>3. CASE est[ev.p[2]] # "decommissioning"
    BY <1>4, <2>1, <2>2, <2>3 DEF NoNewVerdict
  <2>4. CASE est[ev.p[2]] = "decommissioning" /\ ev.p[2] # e
    BY <1>6, <2>1, <2>2, <2>4
  <2>5. CASE est[ev.p[2]] = "decommissioning" /\ ev.p[2] = e
    <3>1. /\ MergeFailure(track[e], ev.p).st.firing = track[e].st.firing
          /\ MergeFailure(track[e], ev.p).st.missed = track[e].st.missed
          /\ MergeFailure(track[e], ev.p).ids = track[e].ids
      BY <1>0, MergedIs
    <3> QED
      BY <1>7, <2>1, <2>2, <2>5, <3>1
  <2> QED
    BY <2>3, <2>4, <2>5
<1> QED
  BY <1>5, <1>8, <1>9 DEF HandlerStep

LEMMA RetryKeepsSound ==
  ASSUME Typed, Orderly, EndsStay, [Next]_vars, NEW e \in Elements, Sound(e), e \notin stale',
         NEW r \in Retries, RetryClaim(r) \/ RetryStep(r)
  PROVE  Sound(e)'
<1>0. /\ track \in [Elements -> TrackingOf(Pids)] /\ est \in [Elements -> ElementStatuses]
      /\ retry[r] \in RetryRecord /\ retry \in [Retries -> RetryRecord]
  BY RecordsTyped DEF Typed
<1>1. UNCHANGED <<holder, tear, settle>>
  BY DEF RetryClaim, RetryStep, RetrySiblings, ApplyStarts, ApplyFails, RewriteElement,
     ReleaseRetryClaim, history
<1>2. NoNewVerdict(e)
  BY <1>1 DEF NoNewVerdict
<1>3. ASSUME SameRow(e), Deploying(e)' => Deploying(e) \/ \A t \in Tears : ~Holds(t, e)
      PROVE  Sound(e)'
  <2>1. \A t \in Tears : Holds(t, e) => ~Deploying(e)'
    BY <1>3 DEF Sound, Holding
  <2>2. \A t \in Tears : Holds(t, e)' => tear'[t] = tear[t] /\ ~Deploying(e)'
    BY <1>1, <2>1 DEF Holds
  <2> QED
    BY <1>2, <1>3, <2>2, Unmoved
<1>4. ASSUME NEW w, retry' = [retry EXCEPT ![r] = w], w.covers = retry[r].covers,
             w.pc # "done" => ~RetryOver(r) \/ w.covers = {}
      PROVE  Deploying(e)' => Deploying(e)
  <2>1. \A q \in Retries : retry'[q] = IF q = r THEN w ELSE retry[q]
    BY <1>0, <1>4
  <2> QED
    BY <1>4, <2>1 DEF Deploying, RetryOver
<1>5. CASE RetryClaim(r)
  <2>1. PICK d : retry' = [retry EXCEPT ![r].pc = "siblings", ![r].asked = {d}]
    BY <1>5 DEF RetryClaim
  <2> DEFINE w == [retry[r] EXCEPT !.pc = "siblings", !.asked = {d}]
  <2>2. retry' = [retry EXCEPT ![r] = w] /\ retry[r].covers = {}
    BY <1>0, <1>5, <2>1 DEF RetryClaim, Orderly
  <2>3. w.covers = retry[r].covers
    BY <1>0 DEF RetryRecord
  <2> HIDE DEF w
  <2>4. Deploying(e)' => Deploying(e)
    BY <1>4, <2>2, <2>3
  <2> QED
    BY <1>1, <1>3, <1>5, <2>4 DEF RetryClaim, SameRow
<1>6. CASE RetrySiblings(r)
  <2> DEFINE covers == IF Active # {} THEN Active ELSE retry[r].asked
             w == [retry[r] EXCEPT !.pc = "fire", !.asked = {}, !.covers = covers,
                     !.fallback = (Active = {}), !.todo = covers]
  <2>1. /\ retry' = [retry EXCEPT ![r] = w]
        /\ stale' = stale \union {d \in covers : Unfinished(d)}
    BY <1>0, <1>6 DEF RetrySiblings
  <2> HIDE DEF covers
  <2>2. w.covers = covers
    BY <1>0 DEF RetryRecord
  <2> HIDE DEF w
  <2>3. e \in covers => \A t \in Tears : ~Holds(t, e)
    BY <2>1, Own DEF Unfinished, TearOver, Resting
  <2>4. \A q \in Retries : retry'[q] = IF q = r THEN w ELSE retry[q]
    BY <1>0, <2>1
  <2>5. Deploying(e)' => Deploying(e) \/ \A t \in Tears : ~Holds(t, e)
    BY <2>2, <2>3, <2>4 DEF Deploying, RetryOver
  <2> QED
    BY <1>1, <1>3, <1>6, <2>5 DEF RetrySiblings, rowVars, SameRow
<1>7. ASSUME NEW d, NEW started, RetryMoves(r, d, started), retry[r].pc = "fire"
      PROVE  Deploying(e)' => Deploying(e)
  <2> DEFINE left == retry[r].todo \ {d}
             pc == CASE left # {} -> "fire"
                     [] left = {} /\ started = {} -> "release"
                     [] OTHER -> "rewrite"
             todo == IF left = {} THEN retry[r].covers ELSE left
             w == [retry[r] EXCEPT !.started = started, !.todo = todo, !.pc = pc]
  <2>1. retry' = [retry EXCEPT ![r] = w]
    BY <1>0, <1>7 DEF RetryMoves
  <2> HIDE DEF pc, todo
  <2>2. w.covers = retry[r].covers
    BY <1>0 DEF RetryRecord
  <2> HIDE DEF w
  <2> QED
    BY <1>4, <1>7, <2>1, <2>2 DEF RetryOver
<1>8. CASE ApplyStarts(r) \/ ApplyFails(r)
  BY <1>1, <1>3, <1>7, <1>8 DEF ApplyStarts, ApplyFails, rowVars, SameRow
<1>9. CASE ReleaseRetryClaim(r)
  <2> DEFINE w == [retry[r] EXCEPT !.pc = "done"]
  <2>1. retry' = [retry EXCEPT ![r] = w]
    BY <1>0, <1>9 DEF ReleaseRetryClaim
  <2>2. w.covers = retry[r].covers /\ w.pc = "done"
    BY <1>0 DEF RetryRecord
  <2> HIDE DEF w
  <2>3. Deploying(e)' => Deploying(e)
    BY <1>4, <2>1, <2>2
  <2> QED
    BY <1>1, <1>3, <1>9, <2>3 DEF ReleaseRetryClaim, SameRow
<1>10. CASE RewriteElement(r)
  <2>1. PICK d \in retry[r].todo :
          /\ est' = [est EXCEPT ![d] = "active"]
          /\ track' = [track EXCEPT ![d] = [Cleared EXCEPT !.ids =
                                              {p \in retry[r].started : p[2] = d}]]
          /\ retry' = [retry EXCEPT ![r].todo = retry[r].todo \ {d},
                        ![r].started = IF retry[r].todo \ {d} = {} THEN {} ELSE @,
                        ![r].pc = IF retry[r].todo \ {d} = {} THEN "done" ELSE "rewrite"]
    BY <1>10 DEF RewriteElement
  <2> DEFINE left == retry[r].todo \ {d}
             started == IF left = {} THEN {} ELSE retry[r].started
             pc == IF left = {} THEN "done" ELSE "rewrite"
             w == [retry[r] EXCEPT !.todo = left, !.started = started, !.pc = pc]
             ids == {p \in retry[r].started : p[2] = d}
  <2>2. retry' = [retry EXCEPT ![r] = w] /\ retry[r].pc = "rewrite"
    BY <1>0, <1>10, <2>1 DEF RewriteElement
  <2> HIDE DEF pc, left, started
  <2>3. w.covers = retry[r].covers
    BY <1>0 DEF RetryRecord
  <2> HIDE DEF w
  <2>4. Deploying(e)' => Deploying(e)
    BY <1>4, <2>2, <2>3 DEF RetryOver
  <2>5. CASE d # e
    BY <1>0, <1>1, <1>3, <2>1, <2>4, <2>5 DEF SameRow
  <2>6. CASE d = e
    <3>1. Deploying(e)
      BY <2>1, <2>2, <2>6 DEF Deploying, RetryOver, Orderly
    <3>2. \A t \in Tears : ~Holds(t, e)
      BY <3>1 DEF Sound, Holding
    <3>3. est'[e] = "active" /\ track'[e].ids = ids
      BY <1>0, <2>1, <2>6 DEF Cleared
    <3>4. \A p \in ids : p[1] \notin Tears
      <4>1. \A p \in retry[r].started : p[1] = r
        BY DEF Orderly
      <4> QED
        BY <4>1, Numbers
    <3>5. Inert(track'[e], ci')
      BY <3>3, <3>4 DEF Inert, OfApply
    <3>6. Row(e)'
      BY <3>3, <3>5 DEF Row
    <3>7. Verdicts(e)'
      BY <1>1, <1>2, VerdictsStay DEF Sound
    <3> QED
      BY <1>1, <3>2, <3>6, <3>7 DEF Sound, Holds
  <2> QED
    BY <2>5, <2>6
<1> QED
  BY <1>5, <1>6, <1>8, <1>9, <1>10 DEF RetryStep

LEMMA StaleGrows ==
  ASSUME [Next]_vars
  PROVE  stale \subseteq stale'
BY DEF Next, vars, history, rowVars, OrderCompletes, OrderFails, Requests, DecommissionInfra,
   SweepDueDecommissions, DeleteProject, Begins, TearStep, Claim, ClaimRefused, BeginReads,
   BeginElementTriggerRun, DestroyStarts, DestroyFails, RecordElementPipelineId, Unclaim,
   RestoreElementTriggerRun, FinishElementTriggerRun, PutBack, RetireProject, TearFaults,
   RecordLost, TearThrows, PutBackFails, TearDies, HandlerStep, CallbackArrives,
   MergeSuccessEvent, MergeFailureEvent, SettleSwaps, SettleThrows, RetryClaim, RetryStep,
   RetrySiblings, ApplyStarts, ApplyFails, RewriteElement, ReleaseRetryClaim

LEMMA SoundStep ==
  ASSUME Typed, DestroyInv, [Next]_vars
  PROVE  DestroyInv'
<1>1. Orderly /\ EndsStay
  BY EndsStep DEF DestroyInv
<1>2. Orderly'
  BY <1>1, OrderlyStep
<1>3. stale \subseteq stale'
  BY StaleGrows
<1>4. ASSUME NEW e \in Elements \ stale'
      PROVE  Sound(e)'
  <2>1. Sound(e)
    BY <1>3, <1>4 DEF DestroyInv
  <2>2. CASE OrderCompletes \/ OrderFails \/ UNCHANGED vars
    <3>1. UNCHANGED <<est, track, holder, tear, settle, retry>>
      BY <2>2 DEF OrderCompletes, OrderFails, vars, rowVars, history
    <3>2. \A t \in Tears : Holds(t, e) => ~Deploying(e)'
      BY <2>1, <3>1, Retained DEF Sound, Holding
    <3>3. \A t \in Tears : Holds(t, e)' => tear'[t] = tear[t] /\ ~Deploying(e)'
      BY <3>1, <3>2 DEF Holds
    <3>4. SameRow(e) /\ NoNewVerdict(e)
      BY <3>1 DEF SameRow, NoNewVerdict
    <3> QED
      BY <1>1, <2>1, <3>3, <3>4, Unmoved
  <2>3. ASSUME NEW t \in Tears, Requests(t) \/ TearStep(t) \/ TearFaults(t)
        PROVE  Sound(e)'
    <3>1. \/ Works(t) \/ Claim(t)
          \/ Requests(t) \/ ClaimRefused(t) \/ RetireProject(t) \/ TearDies(t)
      BY <2>3 DEF TearStep, TearFaults, Works
    <3> QED
      BY <1>1, <1>4, <2>1, <3>1, WorkStep, ClaimStep, RestStep
  <2>4. ASSUME NEW h \in Handlers, HandlerStep(h)
        PROVE  Sound(e)'
    BY <1>1, <2>1, <2>4, CallbackStep
  <2>5. ASSUME NEW x \in Procs, SettleSwaps(x) \/ SettleThrows(x)
        PROVE  Sound(e)'
    BY <1>1, <2>1, <2>5, SwapsStep
  <2>6. ASSUME NEW r \in Retries, RetryClaim(r) \/ RetryStep(r)
        PROVE  Sound(e)'
    BY <1>1, <1>4, <2>1, <2>6, RetryKeepsSound
  <2> QED
    BY <2>2, <2>3, <2>4, <2>5, <2>6 DEF Next
<1> QED
  BY <1>2, <1>4 DEF DestroyInv

LEMMA SoundInit == Init => DestroyInv
<1> SUFFICES ASSUME Init PROVE DestroyInv
  OBVIOUS
<1>1. /\ est = [e \in Elements |-> "active"] /\ tear = [t \in Tears |-> FreshTear]
      /\ retry = [r \in Retries |-> FreshRetry] /\ hnd = [h \in Handlers |-> {}]
      /\ settle = [x \in Procs |-> {}]
  BY DEF Init, NoSettling
<1>2. PICK D \in (SUBSET Elements) \ {{}} :
        /\ track = [e \in Elements |->
                      [Cleared EXCEPT !.ids = IF e \in D THEN {ApplyOf(0, e)} ELSE {}]]
        /\ ci = [p \in Pids |-> IF \E e \in D : p = ApplyOf(0, e) THEN "running" ELSE "none"]
  BY DEF Init
<1>3. \A t \in Tears : tear[t].pc = "idle" /\ tear[t].e = {} /\ tear[t].k = 1
                       /\ tear[t].previous = Cleared
  BY <1>1 DEF FreshTear
<1>4. \A e \in Elements : /\ track[e].st.good = {}
                          /\ \A p \in track[e].ids : p[1] \notin Tears
  <2>1. ASSUME NEW e \in Elements
        PROVE  track[e].st.good = {} /\ \A p \in track[e].ids : p[1] \notin Tears
    <3> DEFINE ids == IF e \in D THEN {ApplyOf(0, e)} ELSE {}
    <3>1. \A p \in ids : p[1] \notin Tears
      BY Numbers DEF ApplyOf
    <3>2. track[e] = [Cleared EXCEPT !.ids = ids]
      BY <1>2
    <3> HIDE DEF ids
    <3>3. track[e].ids = ids /\ track[e].st.good = {}
      BY <3>2 DEF Cleared, NoStatus
    <3> QED
      BY <3>1, <3>3
  <2> QED
    BY <2>1
<1>5. \A t \in Tears, e \in Elements, k \in 1 .. LastTrigger : ci[<<t, e, k>>] = "none"
  <2>1. ASSUME NEW t \in Tears, NEW e \in Elements, NEW k \in 1 .. LastTrigger
        PROVE  ci[<<t, e, k>>] = "none"
    <3>1. <<t, e, k>> \in Pids /\ \A d : <<t, e, k>> # ApplyOf(0, d)
      BY PidsOf, Numbers DEF ApplyOf
    <3> QED
      BY <1>2, <3>1
  <2> QED
    BY <2>1
<1>6. Cleared.st.good = {}
  BY DEF Cleared, NoStatus
<1>7. \A t \in Tears : OneAtATime(tear[t]) /\ Truthful(tear[t].previous, ci)
  BY <1>3, <1>6 DEF OneAtATime, Truthful, Resting
<1>8. \A e \in Elements : Truthful(track[e], ci)
  BY <1>4 DEF Truthful
<1>9. \A r \in Retries : retry[r].covers = {} /\ retry[r].todo = {} /\ retry[r].started = {}
  BY <1>1 DEF FreshRetry
<1>10. /\ \A t \in Tears : settle[t] = {}
       /\ \A h \in Handlers : hnd[h] = {}
  BY <1>1 DEF Procs
<1>11. Orderly
  BY <1>5, <1>7, <1>8, <1>9, <1>10 DEF Orderly
<1>12. ASSUME NEW e \in Elements
       PROVE  Sound(e)
  <2>1. Inert(track[e], ci)
    BY <1>4 DEF Inert, OfApply
  <2> QED
    BY <1>1, <1>3, <2>1 DEF Sound, Holds, Row, Verdicts
<1> QED
  BY <1>11, <1>12 DEF DestroyInv

\* An element that nobody claimed or deployed under somebody who still had to write it
\* becomes 'decommissioned' only when its teardown fired every destroy trigger and each
\* has reported success: whatever the callbacks, the closing bracket and the failures
\* do in between (settle.ts, settleElementIfComplete; infrastructure.ts, claimAndDestroy
\* and fireDestroyTriggers).
THEOREM DecommissionedAreDestroyed == Spec => DecommissionedIsDestroyed
<1>1. Init => Typed /\ DestroyInv
  BY InitTyped, SoundInit
<1>2. Typed /\ DestroyInv /\ [Next]_vars => Typed' /\ DestroyInv'
  BY StepTyped, SoundStep
<1>3. Typed /\ DestroyInv /\ [Next]_vars
        => [\A e \in Elements : Decommissions(e) /\ e \notin stale => Destroyed(e)]_vars
  <2> SUFFICES ASSUME Typed, DestroyInv, Next, NEW e \in Elements, Decommissions(e), e \notin stale
               PROVE  Destroyed(e)
    BY DEF vars
  <2>1. est' # est
    BY DEF Decommissions
  <2>2. PICK x \in Procs : \E s \in settle[x] : s.e = e
    <3>1. ASSUME NEW x \in Procs, SettleSwaps(x) \/ SettleThrows(x)
          PROVE  \E s \in settle[x] : s.e = e
      BY <3>1 DEF SettleSwaps, SettleThrows, Swapped, Decommissions
    <3>2. ASSUME NEW t \in Tears, Requests(t) \/ TearStep(t) \/ TearFaults(t)
          PROVE  FALSE
      <4>1. Claim(t) \/ Unclaim(t) \/ PutBack(t)
        BY <2>1, <3>2 DEF Requests, DecommissionInfra, SweepDueDecommissions, DeleteProject,
           Begins, TearStep, ClaimRefused, BeginReads, BeginElementTriggerRun,
           DestroyStarts, DestroyFails, RecordElementPipelineId,
           RestoreElementTriggerRun, FinishElementTriggerRun, RetireProject,
           TearFaults, RecordLost, TearThrows, PutBackFails, TearDies, rowVars
      <4>2. \E d : \/ est' = [est EXCEPT ![d] = "active"]
                   \/ est' = [est EXCEPT ![d] = "decommissioning"]
        BY <4>1 DEF Claim, Unclaim, PutBack
      <4> QED
        BY <4>2 DEF Decommissions, Typed
    <3>3. ASSUME NEW h \in Handlers, HandlerStep(h)
          PROVE  FALSE
      BY <2>1, <3>3 DEF HandlerStep, CallbackArrives, MergeSuccessEvent, MergeFailureEvent, rowVars
    <3>4. ASSUME NEW r \in Retries, RetryClaim(r) \/ RetryStep(r)
          PROVE  FALSE
      <4>1. PICK d : est' = [est EXCEPT ![d] = "active"]
        BY <2>1, <3>4 DEF RetryClaim, RetryStep, RetrySiblings, ApplyStarts, ApplyFails,
           RewriteElement, ReleaseRetryClaim, rowVars
      <4> QED
        BY <4>1 DEF Decommissions, Typed
    <3>5. ~(OrderCompletes \/ OrderFails)
      BY <2>1 DEF OrderCompletes, OrderFails
    <3> QED
      BY <3>1, <3>2, <3>3, <3>4, <3>5 DEF Next
  <2> QED
    BY <2>2 DEF DestroyInv, Sound, Verdicts
<1> QED
  BY <1>1, <1>2, <1>3, PTL DEF Spec, DecommissionedIsDestroyed

-----------------------------------------------------------------------------
(* What a teardown promises about an element                               *)

\* What a request has started at its element it remembers, and it gives the element
\* back only when it remembers nothing.
Accounted(t, T, c) ==
  /\ T.pc \in {"fire", "record", "unclaim"} =>
       \A e \in T.e, k \in 1 .. LastTrigger : c[<<t, e, k>>] # "none" => <<t, e, k>> \in T.started
  /\ T.pc = "unclaim" => T.started = {}
AllAccounted == \A t \in Tears : Accounted(t, tear[t], ci)

\* An error is needed to put an element back,
ThrownOnError == faults.db = 0 => NothingThrown

\* and a retry that did not fall back covers active elements, as long as nobody takes
\* them up meanwhile.
FallsBackOnce ==
  \A r \in Retries : retry[r].pc \in {"idle", "siblings"} => ~retry[r].fallback
CoveredStayActive ==
  \A r \in Retries :
    ~RetryOver(r) /\ ~retry[r].fallback => \A e \in retry[r].covers \ stale : est[e] = "active"

LifeInv == AllAccounted /\ ThrownOnError /\ FallsBackOnce /\ CoveredStayActive

LEMMA StartedStays ==
  ASSUME Typed, [Next]_vars, NEW p \in Pids, ci[p] # "none"
  PROVE  ci'[p] # "none"
<1>0. ci \in [Pids -> CiStates]
  BY DEF Typed
<1>1. CASE UNCHANGED ci
  BY <1>1
<1>2. CASE OrderCompletes
  <2>1. ci' = [q \in Pids |-> IF \E d \in Covered : q = ApplyOf(attempt, d)
                                THEN "success" ELSE ci[q]]
    BY <1>2 DEF OrderCompletes
  <2> QED
    BY <2>1
<1>3. ASSUME NEW q, NEW v \in {"running", "success", "failed"}, ci' = [ci EXCEPT ![q] = v]
      PROVE  ci'[p] # "none"
  BY <1>0, <1>3
<1>4. ASSUME NEW u \in Tears, DestroyStarts(u)
      PROVE  ci'[p] # "none"
  <2>1. PICK d \in tear[u].e : ci' = [ci EXCEPT ![<<u, d, tear[u].k>>] = "running"]
    BY <1>4 DEF DestroyStarts
  <2> QED
    BY <1>3, <2>1
<1>5. ASSUME NEW h \in Handlers, CallbackArrives(h)
      PROVE  ci'[p] # "none"
  BY <1>3, <1>5 DEF CallbackArrives
<1>6. ASSUME NEW r \in Retries, ApplyStarts(r)
      PROVE  ci'[p] # "none"
  <2>1. PICK d \in retry[r].todo : ci' = [ci EXCEPT ![ApplyOf(r, d)] = "running"]
    BY <1>6 DEF ApplyStarts
  <2> QED
    BY <1>3, <2>1
<1>7. ASSUME NEW u \in Tears, Requests(u) \/ TearStep(u) \/ TearFaults(u)
      PROVE  DestroyStarts(u) \/ UNCHANGED ci
  BY <1>7 DEF Requests, DecommissionInfra, SweepDueDecommissions, DeleteProject, Begins,
     TearStep, Claim, ClaimRefused, BeginReads, BeginElementTriggerRun, DestroyFails,
     RecordElementPipelineId, Unclaim, RestoreElementTriggerRun, FinishElementTriggerRun,
     PutBack, RetireProject, TearFaults, RecordLost, TearThrows, PutBackFails, TearDies
<1>8. ASSUME NEW h \in Handlers, HandlerStep(h)
      PROVE  CallbackArrives(h) \/ UNCHANGED ci
  BY <1>8 DEF HandlerStep, MergeSuccessEvent, MergeFailureEvent
<1>9. ASSUME NEW x \in Procs, SettleSwaps(x) \/ SettleThrows(x)
      PROVE  UNCHANGED ci
  BY <1>9 DEF SettleSwaps, SettleThrows
<1>10. ASSUME NEW r \in Retries, RetryClaim(r) \/ RetryStep(r)
      PROVE  ApplyStarts(r) \/ UNCHANGED ci
  BY <1>10 DEF RetryClaim, RetryStep, RetrySiblings, ApplyFails, RewriteElement, ReleaseRetryClaim
<1>11. OrderFails \/ UNCHANGED vars => UNCHANGED ci
  BY DEF OrderFails, vars
<1> QED
  BY <1>1, <1>2, <1>4, <1>5, <1>6, <1>7, <1>8, <1>9, <1>10, <1>11 DEF Next

\* What the request is at after a trigger was tried.
LEMMA AfterIs ==
  ASSUME NEW t \in Tears, NEW started, NEW missed \in BOOLEAN
  PROVE  /\ AfterTrigger(t, started, missed) \in {"fire", "unclaim", "close"}
         /\ AfterTrigger(t, started, missed) = "unclaim" => started = {}
BY DEF AfterTrigger

\* The steps that leave a request firing, or about to give its element back.
LEMMA FiringIs ==
  ASSUME Typed, Orderly, NEW t \in Tears, Works(t),
         tear'[t].pc \in {"fire", "record", "unclaim"}
  PROVE  /\ tear'[t].e = tear[t].e
         /\ \A u \in Tears : u # t => tear'[u] = tear[u]
         /\ \/ BeginElementTriggerRun(t) /\ tear'[t].pc = "fire"
            \/ /\ DestroyStarts(t) /\ tear'[t].pc = "record"
               /\ tear[t].started \subseteq tear'[t].started
               /\ \A e \in tear[t].e : <<t, e, tear[t].k>> \in tear'[t].started
            \/ /\ UNCHANGED ci /\ tear[t].pc \in {"fire", "record"}
               /\ tear'[t].started = tear[t].started
               /\ tear'[t].pc = "unclaim" => tear'[t].started = {}
<1>0. /\ tear[t] \in TearRecord /\ tear \in [Tears -> TearRecord] /\ tear[t].missed \in BOOLEAN
  BY RecordsTyped DEF TearRecord, Typed, GoodTear
<1>1. CASE BeginElementTriggerRun(t)
  BY <1>0, <1>1 DEF BeginElementTriggerRun, Goto, TearRecord
<1>2. CASE DestroyStarts(t)
  <2>1. PICK e \in tear[t].e :
          tear' = [tear EXCEPT ![t].started = @ \union {<<t, e, tear[t].k>>}, ![t].pc = "record"]
    BY <1>2 DEF DestroyStarts
  <2>2. /\ tear'[t].e = tear[t].e /\ tear'[t].pc = "record"
        /\ tear'[t].started = tear[t].started \union {<<t, e, tear[t].k>>}
        /\ \A u \in Tears : u # t => tear'[u] = tear[u]
    BY <1>0, <2>1 DEF TearRecord
  <2>3. tear[t].e = {e}
    <3>1. Holds(t, e) /\ e \in Elements
      BY <1>0, <2>1 DEF Holds, TearRecord
    <3> QED
      BY <3>1, Own
  <2> QED
    BY <1>2, <2>2, <2>3
<1>3. ASSUME NEW missed \in BOOLEAN,
             tear' = [tear EXCEPT ![t].k = @ + 1, ![t].missed = missed,
                        ![t].pc = AfterTrigger(t, tear[t].started, missed)]
      PROVE  /\ tear'[t].e = tear[t].e /\ tear'[t].started = tear[t].started
             /\ tear'[t].pc = "unclaim" => tear'[t].started = {}
             /\ \A u \in Tears : u # t => tear'[u] = tear[u]
  <2> DEFINE pc == AfterTrigger(t, tear[t].started, missed)
  <2>1. pc = "unclaim" => tear[t].started = {}
    BY AfterIs
  <2>2. tear' = [tear EXCEPT ![t].k = @ + 1, ![t].missed = missed, ![t].pc = pc]
    BY <1>3
  <2> HIDE DEF pc
  <2> QED
    BY <1>0, <2>1, <2>2 DEF TearRecord
<1>4. CASE DestroyFails(t)
  <2>1. tear' = [tear EXCEPT ![t].missed = TRUE, ![t].k = @ + 1,
                   ![t].pc = AfterTrigger(t, tear[t].started, TRUE)]
    BY <1>4 DEF DestroyFails
  <2>2. tear' = [tear EXCEPT ![t].k = @ + 1, ![t].missed = TRUE,
                   ![t].pc = AfterTrigger(t, tear[t].started, TRUE)]
    BY <1>0, <2>1 DEF TearRecord
  <2> QED
    BY <1>3, <1>4, <2>2 DEF DestroyFails, At
<1>5. CASE RecordElementPipelineId(t) \/ RecordLost(t)
  <2> DEFINE pc == AfterTrigger(t, tear[t].started, tear[t].missed)
  <2>1. tear' = [tear EXCEPT ![t].k = @ + 1, ![t].pc = pc]
    BY <1>5 DEF RecordElementPipelineId, RecordLost
  <2>2. UNCHANGED ci /\ tear[t].pc = "record"
    BY <1>5 DEF RecordElementPipelineId, RecordLost, At
  <2>3. pc = "unclaim" => tear[t].started = {}
    BY <1>0, AfterIs
  <2> HIDE DEF pc
  <2> QED
    BY <1>0, <2>1, <2>2, <2>3 DEF TearRecord
<1>6. CASE BeginReads(t)
  <2>1. PICK e : tear' = [tear EXCEPT ![t].previous = track[e], ![t].pc = "begin"]
    BY <1>6 DEF BeginReads
  <2> QED
    BY <1>0, <2>1
<1>7. CASE Unclaim(t)
  BY <1>0, <1>7 DEF Unclaim, Goto
<1>8. /\ Left(t, TRUE).pc \notin {"fire", "record", "unclaim"}
      /\ Left(t, FALSE).pc \notin {"fire", "record", "unclaim"}
  BY LeftIs DEF Resting
<1>9. ~(Leave(t, TRUE) \/ Leave(t, tear[t].missed) \/ Throw(t))
  <2>1. ASSUME NEW w, tear' = [tear EXCEPT ![t] = w], w.pc \notin {"fire", "record", "unclaim"}
        PROVE  FALSE
    BY <1>0, <2>1
  <2>2. OneAtATime(tear[t]) /\ tear[t].pc \notin Resting
    BY WorkIs DEF Orderly
  <2>3. Thrown(t).pc \notin {"fire", "record", "unclaim"}
    BY <1>8, <2>2, ThrownIs
  <2> QED
    BY <1>0, <1>8, <2>1, <2>3 DEF Leave, Throw
<1>10. ~RestoreElementTriggerRun(t) /\ ~PutBack(t) /\ ~PutBackFails(t) /\ ~TearThrows(t)
  BY <1>9 DEF RestoreElementTriggerRun, PutBack, PutBackFails, TearThrows
<1>11. ~FinishElementTriggerRun(t)
  <2>1. FinishElementTriggerRun(t) => Goto(t, "settling") \/ Leave(t, tear[t].missed)
    BY DEF FinishElementTriggerRun
  <2>2. Goto(t, "settling") => tear'[t].pc = "settling"
    BY <1>0 DEF Goto
  <2> QED
    BY <1>9, <2>1, <2>2
<1>12. ~SettleSwaps(t) /\ ~SettleThrows(t)
  BY <1>9 DEF SettleSwaps, SettleThrows
<1> QED
  BY <1>1, <1>2, <1>4, <1>5, <1>6, <1>7, <1>10, <1>11, <1>12 DEF Works

LEMMA AccountedStep ==
  ASSUME Typed, Orderly, AllAccounted, [Next]_vars
  PROVE  AllAccounted'
<1> SUFFICES ASSUME NEW t \in Tears
             PROVE  Accounted(t, tear'[t], ci')
  BY DEF AllAccounted
<1>0. /\ tear[t] \in TearRecord /\ tear[t].e \subseteq Elements /\ Accounted(t, tear[t], ci)
      /\ tear \in [Tears -> TearRecord]
  BY RecordsTyped DEF AllAccounted, TearRecord, Typed, GoodTear
<1>1. CASE tear'[t] = tear[t]
  <2>1. ASSUME DestroyStarts(t)
        PROVE  FALSE
    <3>1. PICK e \in tear[t].e :
            tear' = [tear EXCEPT ![t].started = @ \union {<<t, e, tear[t].k>>}, ![t].pc = "record"]
      BY <2>1 DEF DestroyStarts
    <3>2. tear'[t].pc = "record" /\ tear[t].pc = "fire"
      BY <1>0, <2>1, <3>1 DEF DestroyStarts, At, TearRecord
    <3> QED
      BY <1>1, <3>2
  <2>2. \A e \in tear[t].e, k \in 1 .. LastTrigger : ci[<<t, e, k>>] = "none" => ci'[<<t, e, k>>] = "none"
    BY <1>0, <2>1, NoneStays
  <2> QED
    BY <1>0, <1>1, <2>2 DEF Accounted
<1>2. CASE tear'[t].pc \notin {"fire", "record", "unclaim"}
  BY <1>2 DEF Accounted
<1>3. ASSUME Works(t), tear'[t].pc \in {"fire", "record", "unclaim"}
      PROVE  Accounted(t, tear'[t], ci')
  <2>1. tear'[t].e = tear[t].e
    BY <1>3, FiringIs
  <2>2. CASE BeginElementTriggerRun(t) /\ tear'[t].pc = "fire"
    <3>1. tear[t].pc = "begin" /\ UNCHANGED ci /\ tear[t].e \subseteq tear[t].todo
      BY <2>2 DEF BeginElementTriggerRun, At, Orderly, OneAtATime
    <3>2. \A e \in tear[t].e, k \in 1 .. LastTrigger : Untried(t, e, k)
      BY <3>1 DEF Untried, Unopened, Holds
    <3>3. \A e \in tear[t].e, k \in 1 .. LastTrigger : ci[<<t, e, k>>] = "none"
      BY <1>0, <3>2 DEF Orderly
    <3> QED
      BY <2>1, <2>2, <3>1, <3>3 DEF Accounted
  <2>3. CASE /\ DestroyStarts(t) /\ tear'[t].pc = "record"
             /\ tear[t].started \subseteq tear'[t].started
             /\ \A e \in tear[t].e : <<t, e, tear[t].k>> \in tear'[t].started
    <3>1. tear[t].pc = "fire"
      BY <2>3 DEF DestroyStarts, At
    <3>2. \A e \in tear[t].e, k \in 1 .. LastTrigger :
            ci[<<t, e, k>>] = "none" /\ ci'[<<t, e, k>>] # "none" => k = tear[t].k
      BY <1>0, NoneStays
    <3> QED
      BY <1>0, <2>1, <2>3, <3>1, <3>2 DEF Accounted
  <2>4. CASE /\ UNCHANGED ci /\ tear[t].pc \in {"fire", "record"}
             /\ tear'[t].started = tear[t].started
             /\ tear'[t].pc = "unclaim" => tear'[t].started = {}
    BY <1>0, <2>1, <2>4 DEF Accounted
  <2> QED
    BY <1>3, <2>2, <2>3, <2>4, FiringIs
<1>4. ASSUME NEW u \in Tears, u # t, Works(u)
      PROVE  tear'[t] = tear[t]
  <2>1. \E w : tear' = [tear EXCEPT ![u] = w]
    BY <1>4, WorkIs
  <2> QED
    BY <1>0, <1>4, <2>1
<1>5. ASSUME NEW u \in Tears,
             Requests(u) \/ Claim(u) \/ ClaimRefused(u) \/ RetireProject(u) \/ TearDies(u)
      PROVE  tear'[t] = tear[t] \/ tear'[t].pc \notin {"fire", "record", "unclaim"}
  <2>1. PICK w : /\ tear' = [tear EXCEPT ![u] = w] /\ OneAtATime(w)
                 /\ w.e = {} \/ Claim(u)
    BY <1>5, RestIs
  <2>2. CASE Claim(u)
    <3>1. PICK e \in tear[u].todo : tear' = [tear EXCEPT ![u].e = {e}, ![u].pc = "read"]
      BY <2>2 DEF Claim
    <3> QED
      BY <1>0, <3>1 DEF TearRecord
  <2>3. CASE w.e = {}
    <3>1. w.pc \in Resting
      BY <2>1, <2>3 DEF OneAtATime
    <3> QED
      BY <1>0, <2>1, <3>1 DEF Resting
  <2> QED
    BY <2>1, <2>2, <2>3
<1>6. UNCHANGED tear => tear'[t] = tear[t]
  OBVIOUS
<1> QED
  BY <1>1, <1>2, <1>3, <1>4, <1>5, <1>6, Actors

LEMMA ThrownStep ==
  ASSUME Typed, Orderly, ThrownOnError, [Next]_vars
  PROVE  ThrownOnError'
<1> SUFFICES ASSUME faults'.db = 0, NEW t \in Tears, tear'[t].pc = "putback"
             PROVE  FALSE
  BY DEF ThrownOnError, NothingThrown, At
<1>0. /\ tear[t] \in TearRecord /\ tear \in [Tears -> TearRecord] /\ faults \in [db : Nat, death : Nat]
  BY RecordsTyped DEF TearRecord, Typed, GoodTear
<1>1. ~DbFault
  BY <1>0 DEF DbFault
<1>2. UNCHANGED faults \/ Death
  <2>1. ASSUME NEW u \in Tears, Requests(u) \/ TearStep(u) \/ TearFaults(u)
        PROVE  UNCHANGED faults \/ Death
    BY <1>1, <2>1 DEF Requests, DecommissionInfra, SweepDueDecommissions, DeleteProject, Begins,
       TearStep, Claim, ClaimRefused, BeginReads, BeginElementTriggerRun, DestroyStarts, DestroyFails,
       RecordElementPipelineId, Unclaim, RestoreElementTriggerRun, FinishElementTriggerRun,
       PutBack, RetireProject, TearFaults, RecordLost, TearThrows, PutBackFails, TearDies
  <2>2. ASSUME NEW h \in Handlers, HandlerStep(h)
        PROVE  UNCHANGED faults
    BY <2>2 DEF HandlerStep, CallbackArrives, MergeSuccessEvent, MergeFailureEvent
  <2>3. ASSUME NEW x \in Procs, SettleSwaps(x) \/ SettleThrows(x)
        PROVE  UNCHANGED faults
    BY <1>1, <2>3 DEF SettleSwaps, SettleThrows
  <2>4. ASSUME NEW r \in Retries, RetryClaim(r) \/ RetryStep(r)
        PROVE  UNCHANGED faults
    BY <2>4 DEF RetryClaim, RetryStep, RetrySiblings, ApplyStarts, ApplyFails, RewriteElement,
       ReleaseRetryClaim
  <2>5. OrderCompletes \/ OrderFails \/ UNCHANGED vars => UNCHANGED faults
    BY DEF OrderCompletes, OrderFails, vars
  <2> QED
    BY <2>1, <2>2, <2>3, <2>4, <2>5 DEF Next
<1>3. faults.db = 0 /\ tear[t].pc # "putback"
  <2>1. faults.db = 0
    BY <1>0, <1>2 DEF Death
  <2> QED
    BY <2>1 DEF ThrownOnError, NothingThrown, At
<1>4. ASSUME NEW u \in Tears, Works(u)
      PROVE  FALSE
  <2>1. ~RecordLost(u) /\ ~PutBackFails(u) /\ ~TearThrows(u) /\ ~SettleThrows(u)
    BY <1>1 DEF RecordLost, PutBackFails, TearThrows, SettleThrows
  <2>2. u = t
    <3>1. \E w : tear' = [tear EXCEPT ![u] = w]
      BY <1>4, WorkIs
    <3> QED
      BY <1>0, <1>3, <3>1
  <2>3. ~Leave(t, TRUE) /\ ~Leave(t, tear[t].missed)
    <3>1. Left(t, TRUE).pc # "putback" /\ Left(t, tear[t].missed).pc # "putback"
      BY LeftIs
    <3> QED
      BY <1>0, <3>1 DEF Leave
  <2>4. ~RestoreElementTriggerRun(t) /\ ~PutBack(t) /\ ~SettleSwaps(t)
    BY <2>3 DEF RestoreElementTriggerRun, PutBack, SettleSwaps
  <2>5. ~BeginReads(t)
    <3>1. ASSUME NEW e, tear' = [tear EXCEPT ![t].previous = track[e], ![t].pc = "begin"]
          PROVE  FALSE
      BY <1>0, <3>1
    <3> QED
      BY <3>1 DEF BeginReads
  <2>6. ~BeginElementTriggerRun(t) /\ ~Unclaim(t)
    <3>1. \A pc : Goto(t, pc) => tear'[t].pc = pc
      BY <1>0 DEF Goto, TearRecord
    <3>2. ~Goto(t, "fire") /\ ~Goto(t, "restore")
      BY <3>1
    <3> QED
      BY <3>2 DEF BeginElementTriggerRun, Unclaim
  <2>7. ~DestroyStarts(t)
    <3>1. ASSUME NEW p, tear' = [tear EXCEPT ![t].started = @ \union {p}, ![t].pc = "record"]
          PROVE  FALSE
      BY <1>0, <3>1
    <3> QED
      BY <3>1 DEF DestroyStarts
  <2>8. ~DestroyFails(t) /\ ~RecordElementPipelineId(t)
    <3>1. ASSUME NEW pc, pc \in {"fire", "unclaim", "close"}, tear'[t].pc = pc
          PROVE  FALSE
      BY <3>1
    <3>2. \A pc : tear' = [tear EXCEPT ![t].missed = TRUE, ![t].k = @ + 1, ![t].pc = pc]
                   => tear'[t].pc = pc
      BY <1>0 DEF TearRecord
    <3>3. \A pc : tear' = [tear EXCEPT ![t].k = @ + 1, ![t].pc = pc] => tear'[t].pc = pc
      BY <1>0 DEF TearRecord
    <3>4. tear[t].missed \in BOOLEAN
      BY <1>0 DEF TearRecord
    <3>5. ~DestroyFails(t)
      BY <3>1, <3>2, AfterIs DEF DestroyFails
    <3> QED
      BY <3>1, <3>3, <3>4, <3>5, AfterIs DEF RecordElementPipelineId
  <2>9. ~FinishElementTriggerRun(t)
    <3>1. FinishElementTriggerRun(t) => Goto(t, "settling") \/ Leave(t, tear[t].missed)
      BY DEF FinishElementTriggerRun
    <3>2. Goto(t, "settling") => tear'[t].pc = "settling"
      BY <1>0 DEF Goto
    <3> QED
      BY <2>3, <3>1, <3>2
  <2> QED
    BY <1>4, <2>1, <2>2, <2>4, <2>5, <2>6, <2>7, <2>8, <2>9 DEF Works
<1>5. ASSUME NEW u \in Tears,
             Requests(u) \/ Claim(u) \/ ClaimRefused(u) \/ RetireProject(u) \/ TearDies(u)
      PROVE  FALSE
  <2>1. PICK w : /\ tear' = [tear EXCEPT ![u] = w] /\ OneAtATime(w)
                 /\ w.e = {} \/ Claim(u)
    BY <1>5, RestIs
  <2>2. CASE Claim(u)
    <3>1. PICK e \in tear[u].todo : tear' = [tear EXCEPT ![u].e = {e}, ![u].pc = "read"]
      BY <2>2 DEF Claim
    <3> QED
      BY <1>0, <1>3, <3>1
  <2>3. CASE w.e = {}
    <3>1. w.pc \in Resting
      BY <2>1, <2>3 DEF OneAtATime
    <3> QED
      BY <1>0, <1>3, <2>1, <3>1 DEF Resting
  <2> QED
    BY <2>1, <2>2, <2>3
<1> QED
  BY <1>3, <1>4, <1>5, Actors

\* A retry keeps what it covers, once it has read it.
LEMMA CoversStay ==
  ASSUME Typed, FallsBackOnce, [Next]_vars, NEW r \in Retries
  PROVE  \/ /\ retry'[r].covers = retry[r].covers /\ retry'[r].fallback = retry[r].fallback
            /\ RetryOver(r) => RetryOver(r)' \/ RetryClaim(r)
            /\ retry'[r].pc \in {"idle", "siblings"} => retry[r].pc \in {"idle", "siblings"}
         \/ /\ RetrySiblings(r) /\ retry'[r].pc = "fire" /\ ~retry[r].fallback
            /\ retry'[r].fallback = (Active = {})
            /\ ~retry'[r].fallback => retry'[r].covers = Active
<1>0. retry \in [Retries -> RetryRecord] /\ retry[r] \in RetryRecord
  BY DEF Typed
<1>1. CASE retry'[r] = retry[r]
  BY <1>1 DEF RetryOver
<1>2. CASE RetryClaim(r)
  <2>1. PICK e : retry' = [retry EXCEPT ![r].pc = "siblings", ![r].asked = {e}]
    BY <1>2 DEF RetryClaim
  <2> QED
    BY <1>0, <1>2, <2>1 DEF RetryRecord, RetryClaim
<1>3. CASE RetrySiblings(r)
  <2> DEFINE covers == IF Active # {} THEN Active ELSE retry[r].asked
             fallback == Active = {}
  <2>1. /\ retry' = [retry EXCEPT ![r].pc = "fire", ![r].asked = {}, ![r].covers = covers,
                       ![r].fallback = fallback, ![r].todo = covers]
        /\ retry[r].pc = "siblings"
    BY <1>3 DEF RetrySiblings
  <2>2. ~fallback => covers = Active
    OBVIOUS
  <2>3. ~retry[r].fallback
    BY <2>1 DEF FallsBackOnce
  <2> HIDE DEF covers, fallback
  <2>4. retry'[r].pc = "fire" /\ retry'[r].covers = covers /\ retry'[r].fallback = fallback
    BY <1>0, <2>1 DEF RetryRecord
  <2> QED
    BY <1>3, <2>2, <2>3, <2>4 DEF fallback
<1>4. CASE ApplyStarts(r) \/ ApplyFails(r)
  <2>1. PICK e, s : RetryMoves(r, e, s)
    BY <1>4 DEF ApplyStarts, ApplyFails
  <2> DEFINE left == retry[r].todo \ {e}
             pc == CASE left # {} -> "fire"
                     [] left = {} /\ s = {} -> "release"
                     [] OTHER -> "rewrite"
             todo == IF left = {} THEN retry[r].covers ELSE left
  <2>2. retry' = [retry EXCEPT ![r].started = s, ![r].todo = todo, ![r].pc = pc]
    BY <2>1 DEF RetryMoves
  <2>3. pc \in {"fire", "release", "rewrite"} /\ retry[r].pc = "fire"
    BY <1>4 DEF ApplyStarts, ApplyFails
  <2> HIDE DEF pc, todo
  <2> QED
    BY <1>0, <2>2, <2>3 DEF RetryRecord, RetryOver
<1>5. CASE RewriteElement(r)
  <2>1. retry[r].pc = "rewrite"
    BY <1>5 DEF RewriteElement
  <2>2. retry'[r].pc \in {"rewrite", "done"}
    <3>1. PICK e \in retry[r].todo :
            retry' = [retry EXCEPT ![r].todo = retry[r].todo \ {e},
                        ![r].started = IF retry[r].todo \ {e} = {} THEN {} ELSE retry[r].started,
                        ![r].pc = IF retry[r].todo \ {e} = {} THEN "done" ELSE "rewrite"]
      BY <1>0, <1>5 DEF RewriteElement, RetryRecord
    <3> DEFINE pc == IF retry[r].todo \ {e} = {} THEN "done" ELSE "rewrite"
               started == IF retry[r].todo \ {e} = {} THEN {} ELSE retry[r].started
    <3>2. pc \in {"rewrite", "done"}
      OBVIOUS
    <3>3. retry' = [retry EXCEPT ![r].todo = retry[r].todo \ {e}, ![r].started = started,
                      ![r].pc = pc]
      BY <3>1
    <3> HIDE DEF pc, started
    <3> QED
      BY <1>0, <3>2, <3>3 DEF RetryRecord
  <2> QED
    BY <1>5, <2>1, <2>2, RewritesKeep DEF RetryOver
<1>6. CASE ReleaseRetryClaim(r)
  BY <1>0, <1>6 DEF ReleaseRetryClaim, RetryRecord, RetryOver
<1>7. ASSUME NEW q \in Retries, q # r, RetryClaim(q) \/ RetryStep(q)
      PROVE  retry'[r] = retry[r]
  <2>1. ASSUME NEW s, NEW e, RetryMoves(q, e, s)
        PROVE  retry'[r] = retry[r]
    BY <1>0, <1>7, <2>1 DEF RetryMoves
  <2>2. RetryClaim(q) \/ RetrySiblings(q) \/ ReleaseRetryClaim(q) => retry'[r] = retry[r]
    BY <1>0, <1>7 DEF RetryClaim, RetrySiblings, ReleaseRetryClaim
  <2>3. RewriteElement(q) => retry'[r] = retry[r]
    BY <1>7, RewritesKeep
  <2>4. ApplyStarts(q) \/ ApplyFails(q) => retry'[r] = retry[r]
    BY <2>1 DEF ApplyStarts, ApplyFails
  <2> QED
    BY <1>7, <2>2, <2>3, <2>4 DEF RetryStep
<1> QED
  BY <1>1, <1>2, <1>3, <1>4, <1>5, <1>6, <1>7, RetryIs DEF RetryStep

\* What a step does to the status of the elements and to who claimed them.
LEMMA StatusIs ==
  ASSUME Typed, [Next]_vars
  PROVE  \/ UNCHANGED <<est, holder>>
         \/ \E t \in Tears : Claim(t) \/ Unclaim(t) \/ PutBack(t)
         \/ \E x \in Procs : UNCHANGED <<ci, holder, stale, retry>> /\ Swapped(x)
         \/ \E r \in Retries : RewriteElement(r)
<1>1. ASSUME NEW t \in Tears, Requests(t) \/ TearStep(t) \/ TearFaults(t)
      PROVE  UNCHANGED <<est, holder>> \/ Claim(t) \/ Unclaim(t) \/ PutBack(t)
  BY <1>1 DEF Requests, DecommissionInfra, SweepDueDecommissions, DeleteProject, Begins,
     TearStep, ClaimRefused, BeginReads, BeginElementTriggerRun, DestroyStarts, DestroyFails,
     RecordElementPipelineId, RestoreElementTriggerRun, FinishElementTriggerRun, RetireProject,
     TearFaults, RecordLost, TearThrows, PutBackFails, TearDies, rowVars, history
<1>2. ASSUME NEW h \in Handlers, HandlerStep(h)
      PROVE  UNCHANGED <<est, holder>>
  BY <1>2 DEF HandlerStep, CallbackArrives, MergeSuccessEvent, MergeFailureEvent, rowVars, history
<1>3. ASSUME NEW x \in Procs, SettleSwaps(x) \/ SettleThrows(x)
      PROVE  \/ UNCHANGED <<est, holder>>
             \/ UNCHANGED <<ci, holder, stale, retry>> /\ Swapped(x)
  BY <1>3 DEF SettleSwaps, SettleThrows, history
<1>4. ASSUME NEW r \in Retries, RetryClaim(r) \/ RetryStep(r)
      PROVE  UNCHANGED <<est, holder>> \/ RewriteElement(r)
  BY <1>4 DEF RetryClaim, RetryStep, RetrySiblings, ApplyStarts, ApplyFails, ReleaseRetryClaim,
     rowVars, history
<1>5. OrderCompletes \/ OrderFails \/ UNCHANGED vars => UNCHANGED <<est, holder>>
  BY DEF OrderCompletes, OrderFails, vars, rowVars, history
<1> QED
  BY <1>1, <1>2, <1>3, <1>4, <1>5 DEF Next

\* Active it stays, unless somebody claims it, or it is overtaken.
LEMMA ActiveStays ==
  ASSUME Typed, [Next]_vars, NEW e \in Elements, est[e] = "active", Deploying(e), e \notin stale'
  PROVE  est'[e] = "active"
<1>0. est \in [Elements -> ElementStatuses]
  BY DEF Typed
<1>1. ASSUME NEW t \in Tears, Claim(t)
      PROVE  est'[e] = "active"
  <2>1. PICK d : /\ est' = [est EXCEPT ![d] = "decommissioning"]
                 /\ stale' = IF Unfinished(d) \/ Deploying(d) THEN stale \union {d} ELSE stale
    BY <1>1 DEF Claim
  <2> QED
    BY <1>0, <2>1
<1>2. ASSUME NEW d, est' = [est EXCEPT ![d] = "active"]
      PROVE  est'[e] = "active"
  BY <1>0, <1>2
<1>3. ASSUME NEW t \in Tears, Unclaim(t) \/ PutBack(t)
      PROVE  est'[e] = "active"
  BY <1>2, <1>3 DEF Unclaim, PutBack
<1>4. ASSUME NEW x \in Procs, Swapped(x)
      PROVE  est'[e] = "active"
  BY <1>4 DEF Swapped, SwapMatches
<1>5. ASSUME NEW r \in Retries, RewriteElement(r)
      PROVE  est'[e] = "active"
  <2>1. \E d : est' = [est EXCEPT ![d] = "active"]
    BY <1>5 DEF RewriteElement
  <2> QED
    BY <1>2, <2>1
<1> QED
  BY <1>1, <1>3, <1>4, <1>5, StatusIs

LEMMA CoveredStep ==
  ASSUME Typed, Orderly, FallsBackOnce, CoveredStayActive, [Next]_vars
  PROVE  FallsBackOnce' /\ CoveredStayActive'
<1>1. ASSUME NEW r \in Retries, retry'[r].pc \in {"idle", "siblings"}
      PROVE  ~retry'[r].fallback
  BY <1>1, CoversStay DEF FallsBackOnce
<1>2. ASSUME NEW r \in Retries, ~RetryOver(r)', ~retry'[r].fallback,
             NEW e \in retry'[r].covers \ stale'
      PROVE  est'[e] = "active"
  <2>1. CASE RetrySiblings(r) /\ retry'[r].covers = Active
    BY <1>2, <2>1 DEF RetrySiblings, Active, rowVars
  <2>2. CASE /\ retry'[r].covers = retry[r].covers /\ retry'[r].fallback = retry[r].fallback
             /\ RetryOver(r) => RetryOver(r)' \/ RetryClaim(r)
    <3>1. ~RetryClaim(r)
      BY <1>2, <2>2 DEF RetryClaim, Orderly
    <3>2. e \in Elements /\ Deploying(e)
      BY <1>2, <2>2, <3>1 DEF Deploying, Typed, RetryRecord
    <3>3. est[e] = "active"
      BY <1>2, <2>2, <3>1, StaleGrows DEF CoveredStayActive
    <3> QED
      BY <1>2, <3>2, <3>3, ActiveStays
  <2> QED
    BY <1>2, <2>1, <2>2, CoversStay
<1> QED
  BY <1>1, <1>2 DEF FallsBackOnce, CoveredStayActive

LEMMA LifeInit == Init => LifeInv
<1> SUFFICES ASSUME Init PROVE LifeInv
  OBVIOUS
<1>1. \A t \in Tears : tear[t].pc = "idle"
  BY DEF Init, FreshTear
<1>2. \A r \in Retries : retry[r].pc = "idle" /\ ~retry[r].fallback
  BY DEF Init, FreshRetry
<1> QED
  BY <1>1, <1>2 DEF LifeInv, AllAccounted, Accounted, ThrownOnError, NothingThrown, At,
     FallsBackOnce, CoveredStayActive, RetryOver

LEMMA LifeStep ==
  ASSUME Typed, DestroyInv, LifeInv, [Next]_vars
  PROVE  LifeInv'
<1>1. Orderly
  BY DEF DestroyInv
<1> QED
  BY <1>1, AccountedStep, ThrownStep, CoveredStep DEF LifeInv

\* An element is fired at only while it is 'decommissioning'.
LEMMA FiredIs ==
  ASSUME Typed, DestroyInv, [Next]_vars, NEW e \in Elements \ stale, holder'[e] = holder[e]
  PROVE  \/ FiredAt(e)' <=> FiredAt(e)
         \/ FiredAt(e)' /\ est[e] = "decommissioning" /\ est'[e] = est[e]
<1>0. holder[e] \in Tears \union {0}
  BY DEF Typed
<1>1. CASE holder[e] \notin Tears
  BY <1>1 DEF FiredAt
<1>2. CASE holder[e] \in Tears
  <2>1. \A k \in 1 .. LastTrigger : <<holder[e], e, k>> \in Pids
    BY <1>2, PidsOf
  <2>2. FiredAt(e) => FiredAt(e)'
    BY <1>2, <2>1, StartedStays DEF FiredAt
  <2>3. CASE DestroyStarts(holder[e]) /\ Holds(holder[e], e)
    <3>1. Holding(holder[e], e) /\ tear[holder[e]].pc = "fire"
      BY <1>2, <2>3 DEF DestroyInv, Sound, DestroyStarts, At
    <3>2. est[e] = "decommissioning" /\ UNCHANGED est
      BY <2>3, <3>1 DEF Holding, Acting, DestroyStarts, rowVars
    <3>3. FiredAt(e)' \/ ~FiredAt(e)'
      OBVIOUS
    <3> QED
      BY <2>2, <3>2, <3>3
  <2>4. CASE ~(DestroyStarts(holder[e]) /\ Holds(holder[e], e))
    <3>1. \A k \in 1 .. LastTrigger :
            ci[<<holder[e], e, k>>] = "none" => ci'[<<holder[e], e, k>>] = "none"
      BY <1>2, <2>4, NoneStays
    <3> QED
      BY <1>2, <2>2, <3>1 DEF FiredAt
  <2> QED
    BY <2>3, <2>4
<1> QED
  BY <1>1, <1>2

\* What each element goes through is a step of the abstract element, or none.
LEMMA ElementSteps ==
  ASSUME Typed, DestroyInv, LifeInv, [Next]_vars, NEW e \in Elements \ stale
  PROVE  Lifecycle!Step(e)
<1> DEFINE Same == FiredAt(e)' <=> FiredAt(e)
<1>0. /\ est \in [Elements -> ElementStatuses] /\ holder \in [Elements -> Tears \union {0}]
      /\ faults.db \in Nat /\ Sound(e)
  BY DEF Typed, DestroyInv
<1>1. Lifecycle!Step(e) <=>
        \/ est[e] = "active" /\ est'[e] = "decommissioning" /\ ~FiredAt(e)'
        \/ est[e] = "decommissioning" /\ est'[e] = "decommissioning" /\ FiredAt(e)'
        \/ est[e] = "decommissioning" /\ est'[e] = "active" /\ Same /\ ~FiredAt(e)
        \/ est[e] = "decommissioning" /\ est'[e] = "decommissioned" /\ Same /\ FiredAt(e)
        \/ (faults.db > 0 \/ FellBack) /\ est'[e] = "active" /\ Same
        \/ est'[e] = est[e] /\ Same
  BY DEF Lifecycle!Step, Lifecycle!Claim, Lifecycle!Fire, Lifecycle!Return, Lifecycle!Destroy,
     Lifecycle!Revive, Lifecycle!Rest, Lifecycle!Becomes, Lifecycle!FiredStays
<1>2. UNCHANGED <<ci, holder>> => Same
  BY DEF FiredAt
<1>3. CASE UNCHANGED <<est, holder>>
  BY <1>1, <1>3, FiredIs
<1>4. ASSUME NEW t \in Tears, Claim(t)
      PROVE  Lifecycle!Step(e)
  <2>1. PICK d \in tear[t].todo :
          /\ est[d] = "active" /\ est' = [est EXCEPT ![d] = "decommissioning"]
          /\ holder' = [holder EXCEPT ![d] = t]
    BY <1>4 DEF Claim, MayClaim
  <2>2. UNCHANGED ci /\ tear[t].pc = "claim"
    BY <1>4 DEF Claim, At
  <2>3. CASE d = e
    <3>1. \A k \in 1 .. LastTrigger : Untried(t, e, k)
      BY <2>1, <2>2, <2>3 DEF Untried, Holds, DestroyInv, Orderly, OneAtATime, Resting
    <3>2. \A k \in 1 .. LastTrigger : ci[<<t, e, k>>] = "none"
      BY <3>1 DEF DestroyInv, Orderly
    <3>3. holder'[e] = t /\ est'[e] = "decommissioning" /\ est[e] = "active"
      BY <1>0, <2>1, <2>3
    <3>4. ~FiredAt(e)'
      BY <2>2, <3>2, <3>3 DEF FiredAt
    <3> QED
      BY <1>1, <3>3, <3>4
  <2>4. CASE d # e
    <3>1. est'[e] = est[e] /\ holder'[e] = holder[e]
      BY <1>0, <2>1, <2>4
    <3>2. Same
      BY <2>2, <3>1 DEF FiredAt
    <3> QED
      BY <1>1, <3>1, <3>2
  <2> QED
    BY <2>3, <2>4
<1>5. ASSUME NEW t \in Tears, Unclaim(t)
      PROVE  Lifecycle!Step(e)
  <2>1. PICK d \in tear[t].e : est' = [est EXCEPT ![d] = "active"]
    BY <1>5 DEF Unclaim
  <2>2. UNCHANGED <<ci, holder>> /\ tear[t].pc = "unclaim"
    BY <1>5 DEF Unclaim, At, history
  <2>3. CASE d = e
    <3>1. Holding(t, e)
      BY <1>0, <2>1, <2>3 DEF Sound, Holds
    <3>2. t = holder[e] /\ est[e] = "decommissioning"
      BY <2>2, <3>1 DEF Holding, Acting
    <3>3. ~FiredAt(e)
      BY <2>1, <2>2, <2>3, <3>2 DEF FiredAt, LifeInv, AllAccounted, Accounted
    <3>4. est'[e] = "active"
      BY <1>0, <2>1, <2>3
    <3> QED
      BY <1>1, <1>2, <2>2, <3>2, <3>3, <3>4
  <2>4. CASE d # e
    BY <1>0, <1>1, <1>2, <2>1, <2>2, <2>4
  <2> QED
    BY <2>3, <2>4
<1>6. ASSUME NEW t \in Tears, PutBack(t)
      PROVE  Lifecycle!Step(e)
  <2>1. PICK d \in tear[t].e : est' = [est EXCEPT ![d] = "active"]
    BY <1>6 DEF PutBack
  <2>2. UNCHANGED <<ci, holder>>
    BY <1>6 DEF PutBack, history
  <2>3. faults.db > 0
    BY <1>0, <1>6 DEF PutBack, LifeInv, ThrownOnError, NothingThrown
  <2>4. est'[e] = "active" \/ est'[e] = est[e]
    BY <1>0, <2>1
  <2> QED
    BY <1>1, <1>2, <2>2, <2>3, <2>4
<1>7. ASSUME NEW x \in Procs, UNCHANGED <<ci, holder, stale, retry>>, Swapped(x)
      PROVE  Lifecycle!Step(e)
  <2>1. CASE \E s \in settle[x] : s.e = e /\ SwapMatches(s)
    <3>1. est[e] = "decommissioning" /\ Destroyed(e)
      BY <1>0, <2>1 DEF SwapMatches, Sound, Verdicts
    <3>2. 1 \in 1 .. LastTrigger
      BY Numbers
    <3>3. FiredAt(e)
      BY <3>1, <3>2 DEF Destroyed, FiredAt
    <3>4. est'[e] = "decommissioned"
      BY <1>7, <2>1 DEF Swapped
    <3> QED
      BY <1>1, <1>2, <1>7, <3>1, <3>3, <3>4
  <2>2. CASE ~ \E s \in settle[x] : s.e = e /\ SwapMatches(s)
    <3>1. est'[e] = est[e]
      BY <1>7, <2>2 DEF Swapped
    <3> QED
      BY <1>1, <1>2, <1>7, <3>1
  <2> QED
    BY <2>1, <2>2
<1>8. ASSUME NEW r \in Retries, RewriteElement(r)
      PROVE  Lifecycle!Step(e)
  <2>1. PICK d \in retry[r].todo : est' = [est EXCEPT ![d] = "active"]
    BY <1>8 DEF RewriteElement
  <2>2. UNCHANGED <<ci, holder>> /\ ~RetryOver(r)
    BY <1>8 DEF RewriteElement, history, RetryOver
  <2>3. CASE d = e /\ ~retry[r].fallback
    <3>1. e \in retry[r].covers
      BY <2>1, <2>3 DEF DestroyInv, Orderly
    <3>2. est[e] = "active" /\ est'[e] = "active"
      BY <1>0, <2>1, <2>2, <2>3, <3>1 DEF LifeInv, CoveredStayActive
    <3> QED
      BY <1>1, <1>2, <2>2, <3>2
  <2>4. CASE retry[r].fallback
    <3>1. FellBack /\ (est'[e] = "active" \/ est'[e] = est[e])
      BY <1>0, <2>1, <2>4 DEF FellBack
    <3> QED
      BY <1>1, <1>2, <2>2, <3>1
  <2>5. CASE d # e
    BY <1>0, <1>1, <1>2, <2>1, <2>2, <2>5
  <2> QED
    BY <2>3, <2>4, <2>5
<1> QED
  BY <1>3, <1>4, <1>5, <1>6, <1>7, <1>8, StatusIs

\* Errors, and that a retry fell back, are not forgotten.
LEMMA ErrorsStay ==
  ASSUME Typed, [Next]_vars
  PROVE  faults.db > 0 => faults'.db > 0
<1>0. faults \in [db : Nat, death : Nat]
  BY DEF Typed
<1>1. UNCHANGED faults \/ DbFault \/ Death => (faults.db > 0 => faults'.db > 0)
  BY <1>0 DEF DbFault, Death
<1>2. ASSUME NEW t \in Tears, Requests(t) \/ TearStep(t) \/ TearFaults(t)
      PROVE  UNCHANGED faults \/ DbFault \/ Death
  BY <1>2 DEF Requests, DecommissionInfra, SweepDueDecommissions, DeleteProject, Begins,
     TearStep, Claim, ClaimRefused, BeginReads, BeginElementTriggerRun, DestroyStarts, DestroyFails,
     RecordElementPipelineId, Unclaim, RestoreElementTriggerRun, FinishElementTriggerRun,
     PutBack, RetireProject, TearFaults, RecordLost, TearThrows, PutBackFails, TearDies
<1>3. ASSUME NEW h \in Handlers, HandlerStep(h)
      PROVE  UNCHANGED faults
  BY <1>3 DEF HandlerStep, CallbackArrives, MergeSuccessEvent, MergeFailureEvent
<1>4. ASSUME NEW x \in Procs, SettleSwaps(x) \/ SettleThrows(x)
      PROVE  UNCHANGED faults \/ DbFault
  BY <1>4 DEF SettleSwaps, SettleThrows
<1>5. ASSUME NEW r \in Retries, RetryClaim(r) \/ RetryStep(r)
      PROVE  UNCHANGED faults
  BY <1>5 DEF RetryClaim, RetryStep, RetrySiblings, ApplyStarts, ApplyFails, RewriteElement,
     ReleaseRetryClaim
<1>6. OrderCompletes \/ OrderFails \/ UNCHANGED vars => UNCHANGED faults
  BY DEF OrderCompletes, OrderFails, vars
<1> QED
  BY <1>1, <1>2, <1>3, <1>4, <1>5, <1>6 DEF Next

\* Teardown implements ElementLifecycle, whatever the callbacks, failures, deaths and
\* retries: an element is claimed while active, decommissioned only after a destroy of
\* this claim was started, and given back only if none was (infrastructure.ts,
\* claimAndDestroy; teardown.ts, fireDestroyTriggers; settle.ts,
\* settleElementIfComplete).  What takes this away is part of the abstract element: an
\* error, a retry that fell back, and being taken up under an earlier writer.
THEOREM ElementsKeepTheirPromise == Spec => ElementLifecycleSpec
<1>1. Init => Typed /\ DestroyInv /\ LifeInv
  BY InitTyped, SoundInit, LifeInit
<1>2. Typed /\ DestroyInv /\ LifeInv /\ [Next]_vars => Typed' /\ DestroyInv' /\ LifeInv'
  BY StepTyped, SoundStep, LifeStep
<1>3. Init => Lifecycle!Init
  <2> SUFFICES ASSUME Init PROVE Lifecycle!Init
    OBVIOUS
  <2>1. \A e \in Elements : ~FiredAt(e)
    BY Numbers DEF Init, FiredAt
  <2>2. (faults.db > 0) = FALSE
    BY DEF Init
  <2>3. ~FellBack
    BY DEF Init, FellBack, FreshRetry
  <2>4. est = [e \in Elements |-> "active"] /\ stale = {}
    BY DEF Init
  <2> QED
    BY <2>1, <2>2, <2>3, <2>4 DEF Lifecycle!Init
<1>4. Typed /\ Typed' /\ DestroyInv /\ LifeInv /\ [Next]_vars => [Lifecycle!Next]_(Lifecycle!vars)
  <2> SUFFICES ASSUME Typed, Typed', DestroyInv, LifeInv, [Next]_vars
               PROVE  Lifecycle!Next
    OBVIOUS
  <2>1. est' \in [Elements -> Lifecycle!Stages]
    BY DEF Typed, Lifecycle!Stages, ElementStatuses
  <2>2. FellBack => FellBack'
    BY CoversStay DEF FellBack, LifeInv
  <2> QED
    BY <2>1, <2>2, StaleGrows, ErrorsStay, ElementSteps DEF Lifecycle!Next
<1> QED
  BY <1>1, <1>2, <1>3, <1>4, PTL DEF Spec, ElementLifecycleSpec, Lifecycle!Spec
=============================================================================
