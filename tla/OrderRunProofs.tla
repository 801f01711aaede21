--------------------------- MODULE OrderRunProofs ---------------------------
(***************************************************************************)
(* What OrderRun guarantees for every number of requests, elements,        *)
(* triggers, callbacks and failures, proved with TLAPS: its types and the  *)
(* invariant Typed first; then, from Typed, that an order is completed on  *)
(* a clean map and with every element deployed, that the run that opened   *)
(* the tracking keeps its 'triggering' entry, that an element's outputs    *)
(* come from its own pipelines, that an order that waits has no element    *)
(* and no pipeline, and that an order goes through the statuses it         *)
(* promises (OrderLifecycle).                                              *)
(***************************************************************************)
EXTENDS OrderRun, WellFoundedInduction, TLAPS

-----------------------------------------------------------------------------
(* The pipeline tracking                                                   *)

LEMMA TrackingTyped ==
  ASSUME NEW P
  PROVE  /\ Cleared \in TrackingOf(P) /\ Opened \in TrackingOf(P) /\ NoStatus \in StatusMap(P)
         /\ \A t \in TrackingOf(P), p \in P :
              /\ AppendOne(t, p) \in TrackingOf(P)
              /\ MergeSuccess(t, p) \in TrackingOf(P)
              /\ MergeFailure(t, p) \in TrackingOf(P)
         /\ \A t \in TrackingOf(P), started \in SUBSET P, missed \in BOOLEAN :
              Closed(t, started, missed) \in TrackingOf(P)
<1>1. NoStatus \in StatusMap(P)
  BY DEF NoStatus, StatusMap
<1>2. Cleared \in TrackingOf(P) /\ Opened \in TrackingOf(P)
  BY DEF Cleared, Opened, NoStatus, StatusMap, TrackingOf
<1>3. ASSUME NEW t \in TrackingOf(P), NEW p \in P
      PROVE  /\ AppendOne(t, p) \in TrackingOf(P)
             /\ MergeSuccess(t, p) \in TrackingOf(P)
             /\ MergeFailure(t, p) \in TrackingOf(P)
  <2> DEFINE succeeded == [t.st EXCEPT !.good = t.st.good \union {p}, !.bad = t.st.bad \ {p}]
             failed == [t.st EXCEPT !.bad = t.st.bad \union {p}, !.good = t.st.good \ {p}]
  <2>1. AppendOne(t, p) \in TrackingOf(P)
    BY DEF AppendOne, TrackingOf
  <2>2. succeeded \in StatusMap(P) /\ failed \in StatusMap(P)
    BY DEF TrackingOf, StatusMap
  <2>3. MergeSuccess(t, p) = [t EXCEPT !.st = succeeded]
    BY DEF MergeSuccess
  <2>4. MergeFailure(t, p) = [t EXCEPT !.st = failed]
    BY DEF MergeFailure
  <2> HIDE DEF succeeded, failed
  <2> QED
    BY <2>1, <2>2, <2>3, <2>4 DEF TrackingOf
<1>4. ASSUME NEW t \in TrackingOf(P), NEW started \in SUBSET P, NEW missed \in BOOLEAN
      PROVE  Closed(t, started, missed) \in TrackingOf(P)
  BY DEF Closed, StatusMap, TrackingOf
<1> QED
  BY <1>1, <1>2, <1>3, <1>4

-----------------------------------------------------------------------------
(* Walking the elements in order                                           *)

\* A non-empty set of numbers has a least one.
LEMMA LeastOf ==
  ASSUME NEW T, T \subseteq Nat, T # {}
  PROVE  \E x \in T : \A y \in T : x <= y
<1>1. PICK x \in T : \A y \in T : ~ (<<y, x>> \in OpToRel(<, Nat))
  BY NatLessThanWellFounded, WFMin
<1>2. ASSUME NEW y \in T
      PROVE  x <= y
  <2>1. x \in Nat /\ y \in Nat
    OBVIOUS
  <2>2. <<y, x>> \notin {ss \in Nat \X Nat : ss[1] < ss[2]}
    BY <1>1 DEF OpToRel
  <2> QED
    BY <2>1, <2>2
<1> QED
  BY <1>2

\* FirstOf chooses an element of every non-empty set of rows: the order of
\* sequence and row id has a least one.
LEMMA FirstOfMember ==
  ASSUME NEW W, W \subseteq Rows, W # {}
  PROVE  FirstOf(W) \in W
<1> DEFINE Seqs == {w[2] : w \in W}
<1>1. PICK s \in Seqs : \A t \in Seqs : s <= t
  <2>1. Seqs \subseteq Nat /\ Seqs # {}
    BY RunAssumption DEF Rows, Runs
  <2> HIDE DEF Seqs
  <2> QED
    BY <2>1, LeastOf
<1> DEFINE Firsts == {w[1] : w \in {v \in W : v[2] = s}}
<1>2. PICK q \in Firsts : \A t \in Firsts : q <= t
  <2>1. Firsts \subseteq Nat /\ Firsts # {}
    BY <1>1, RunAssumption DEF Rows, Runs
  <2> HIDE DEF Firsts
  <2> QED
    BY <2>1, LeastOf
<1>3. PICK w \in W : w[1] = q /\ w[2] = s
  BY <1>2
<1>4. ASSUME NEW v \in W
      PROVE  Precedes(w, v)
  <2>1. v[1] \in Nat /\ v[2] \in Nat /\ w[1] \in Nat /\ w[2] \in Nat
    BY RunAssumption DEF Rows, Runs
  <2>2. s <= v[2]
    BY <1>1
  <2>3. v[2] = s => q <= v[1]
    BY <1>2
  <2> QED
    BY <2>1, <2>2, <2>3, <1>3 DEF Precedes
<1> QED
  BY <1>4 DEF FirstOf

-----------------------------------------------------------------------------
(* The inductive invariant behind TypeOK and CompletionIsClean             *)

\* A run that is walking its elements has one left to walk, and covers one; a
\* trigger is recorded only if there is one.
HasWork(R) ==
  /\ R.pc \in {"decide", "begin", "insert", "fire", "record", "rewrite"} => R.todo # {}
  /\ R.pc \in {"decide", "begin", "insert", "siblings", "fire", "record"} => R.elems # {}
  /\ R.k # 0
  /\ R.pc = "record" => R.k <= LastTrigger

GoodRun == {R \in RunRecord : HasWork(R)}

\* The map of an order that may be completed.
Clean(st) == st.good # {} /\ st.bad = {} /\ ~st.firing /\ ~st.missed

\* Who is settling decided on a clean map.
GoodSettle ==
  {S \in SettleRecord : /\ S.pc = "write" => S.left # {}
                        /\ S.pc # "idle" => Clean(S.decided)}

Typed ==
  /\ status \in OrderStatuses
  /\ track \in TrackingOf(Pids)
  /\ rows \in [Rows -> RowRecord]
  /\ ci \in [Pids -> CiStates]
  /\ run \in [Runs -> GoodRun]
  /\ hnd \in [Handlers -> SUBSET Events]
  /\ settle \in [Procs -> GoodSettle]
  /\ writeOff \in BOOLEAN
  /\ faults \in [db : Nat, death : Nat]
  /\ owner \in Runs \union {0}
  /\ stale \subseteq {"run", "callback"}

LEMMA TypedIsTypeOK == Typed => TypeOK
  BY DEF Typed, TypeOK, GoodRun, GoodSettle

\* The pcs that ask nothing of the rest of a run's record.
FreePcs == {"idle", "purge", "clear", "close", "settling", "release", "undo", "requeue", "done"}

LEMMA FreeGoto ==
  ASSUME NEW R \in GoodRun, NEW pc \in FreePcs
  PROVE  [R EXCEPT !.pc = pc] \in GoodRun
  BY DEF GoodRun, RunRecord, HasWork, FreePcs, RunPcs

LEMMA NotSettlingTyped == NotSettling \in GoodSettle
  BY TrackingTyped DEF NotSettling, SettleRecord, SettlePcs, GoodSettle

\* Whoever finds the row it wrote settled has decided on a clean map.
LEMMA SettlingTyped ==
  ASSUME NEW t \in TrackingOf(Pids)
  PROVE  Settling(t) \in GoodSettle
<1>1. CASE IsSettled(t)
  <2>1. t.st \in StatusMap(Pids) /\ Clean(t.st)
    BY <1>1 DEF TrackingOf, IsSettled, Clean
  <2> QED
    BY <1>1, <2>1, NotSettlingTyped DEF Settling, SettleRecord, SettlePcs, GoodSettle
<1>2. CASE ~IsSettled(t)
  BY <1>2, NotSettlingTyped DEF Settling
<1> QED
  BY <1>1, <1>2

LEMMA LeavingTyped ==
  ASSUME Typed, NEW x \in Procs, NEW next \in FreePcs, LeaveSettling(x, next)
  PROVE  run' \in [Runs -> GoodRun] /\ settle' \in [Procs -> GoodSettle]
<1>1. settle' \in [Procs -> GoodSettle]
  BY NotSettlingTyped DEF Typed, LeaveSettling
<1>2. run' \in [Runs -> GoodRun]
  BY FreeGoto DEF Typed, LeaveSettling
<1> QED
  BY <1>1, <1>2

LEMMA CurrentRowTyped ==
  ASSUME Typed, NEW r \in Runs, run[r].todo # {}
  PROVE  CurrentRow(r) \in Rows /\ CurrentRow(r) \in run[r].todo
  BY FirstOfMember DEF Typed, GoodRun, RunRecord, CurrentRow

LEMMA CurrentPidTyped ==
  ASSUME Typed, NEW r \in Runs, run[r].todo # {}, run[r].k <= LastTrigger
  PROVE  CurrentPid(r) \in Pids
<1>1. run[r].k \in 1 .. LastTrigger
  BY RunAssumption DEF Typed, GoodRun, RunRecord, HasWork, LastTrigger
<1> QED
  BY <1>1, CurrentRowTyped DEF CurrentPid, Pids

LEMMA OwnRowsTyped ==
  ASSUME NEW r \in Runs
  PROVE  OwnRows(r) \in SUBSET Rows /\ OwnRows(r) # {}
<1>1. <<r, 1>> \in OwnRows(r)
  BY RunAssumption DEF OwnRows
<1> QED
  BY <1>1 DEF OwnRows, Rows

LEMMA StartingTyped ==
  ASSUME Typed, NEW r \in Runs, NEW kind, NEW pc \in {"decide", "begin", "siblings"},
         NEW elems \in SUBSET Rows, elems # {}, Starting(r, kind, pc, elems)
  PROVE  run' \in [Runs -> GoodRun] /\ stale' \subseteq {"run", "callback"}
<1>1. [FreshRun EXCEPT !.pc = pc, !.kind = kind, !.elems = elems, !.todo = elems] \in GoodRun
  <2> DEFINE R == [FreshRun EXCEPT !.pc = pc, !.kind = kind, !.elems = elems, !.todo = elems]
  <2>1. kind \in AllKinds
    BY RunAssumption DEF Starting
  <2>2. R \in RunRecord
    BY <2>1 DEF FreshRun, RunRecord, RunPcs
  <2>3. HasWork(R)
    BY DEF FreshRun, HasWork
  <2> QED
    BY <2>2, <2>3 DEF GoodRun
<1>2. stale' \subseteq {"run", "callback"}
  BY DEF Typed, Starting
<1> QED
  BY <1>1, <1>2 DEF Typed, Starting

-----------------------------------------------------------------------------
(* Every step keeps it                                                     *)

\* The claims of an order keep every column and request typed.
LEMMA ClaimsKeepTypes ==
  ASSUME Typed
  PROVE  \A r \in Runs : Claims(r) => Typed'
<1>1. ASSUME NEW r \in Runs, PlaceDirect(r)
      PROVE  Typed'
  <2>1. run' \in [Runs -> GoodRun] /\ stale' \subseteq {"run", "callback"}
    BY <1>1, StartingTyped, OwnRowsTyped, Typed DEF PlaceDirect
  <2> QED
    BY <1>1, <2>1 DEF Typed, PlaceDirect, procVars, OrderStatuses
<1>2. ASSUME NEW r \in Runs, ApproveClaim(r)
      PROVE  Typed'
  <2>1. run' \in [Runs -> GoodRun] /\ stale' \subseteq {"run", "callback"}
    BY <1>2, StartingTyped, OwnRowsTyped, Typed DEF ApproveClaim
  <2> QED
    BY <1>2, <2>1 DEF Typed, ApproveClaim, procVars, OrderStatuses
<1>3. ASSUME NEW r \in Runs, WindowClaim(r)
      PROVE  Typed'
  <2>1. run' \in [Runs -> GoodRun] /\ stale' \subseteq {"run", "callback"}
    BY <1>3, StartingTyped, OwnRowsTyped, Typed DEF WindowClaim
  <2> QED
    BY <1>3, <2>1 DEF Typed, WindowClaim, procVars, OrderStatuses
<1>4. ASSUME NEW r \in Runs, RetryClaim(r)
      PROVE  Typed'
  <2>1. run' \in [Runs -> GoodRun] /\ stale' \subseteq {"run", "callback"}
    BY <1>4, StartingTyped, Typed DEF RetryClaim, Existing
  <2>2. track' \in TrackingOf(Pids)
    BY <1>4, TrackingTyped DEF RetryClaim
  <2> QED
    BY <1>4, <2>1, <2>2 DEF Typed, RetryClaim, procVars, OrderStatuses
<1> QED
  BY <1>1, <1>2, <1>3, <1>4 DEF Claims

\* So do the steps of a run.
LEMMA RunStepsKeepTypes ==
  ASSUME Typed
  PROVE  \A r \in Runs : RunStep(r) => Typed'
<1>1. ASSUME NEW r \in Runs, ApproveDeploysNow(r)
      PROVE  Typed'
  <2>1. run' \in [Runs -> GoodRun]
    <3> DEFINE R == [run[r] EXCEPT !.pc = "begin"]
    <3>1. run[r] \in RunRecord /\ HasWork(run[r])
      BY DEF Typed, GoodRun
    <3>2. R \in RunRecord
      BY <3>1 DEF RunRecord, RunPcs
    <3>3. HasWork(R)
      BY <1>1, <3>1 DEF HasWork, RunRecord, ApproveDeploysNow, At
    <3>4. R \in GoodRun
      BY <3>2, <3>3 DEF GoodRun
    <3> QED
      BY <1>1, <3>4 DEF Typed, ApproveDeploysNow, Goto
  <2> QED
    BY <1>1, <2>1 DEF Typed, ApproveDeploysNow, orderVars, procVars, history
<1>2. ASSUME NEW r \in Runs, ApproveWaits(r)
      PROVE  Typed'
  <2>1. run' \in [Runs -> GoodRun]
    BY <1>2, FreeGoto DEF Typed, ApproveWaits, Goto, FreePcs
  <2> QED
    BY <1>2, <2>1 DEF Typed, ApproveWaits, procVars, history, OrderStatuses
<1>3. ASSUME NEW r \in Runs, BeginOrderTriggerRun(r)
      PROVE  Typed'
  <2>1. run' \in [Runs -> GoodRun]
    <3> DEFINE R == [run[r] EXCEPT !.pc = "insert"]
    <3>1. run[r] \in RunRecord /\ HasWork(run[r])
      BY DEF Typed, GoodRun
    <3>2. R \in RunRecord
      BY <3>1 DEF RunRecord, RunPcs
    <3>3. HasWork(R)
      BY <1>3, <3>1 DEF HasWork, RunRecord, BeginOrderTriggerRun, At
    <3>4. R \in GoodRun
      BY <3>2, <3>3 DEF GoodRun
    <3> QED
      BY <1>3, <3>4 DEF Typed, BeginOrderTriggerRun, Goto
  <2>2. track' \in TrackingOf(Pids)
    BY <1>3, TrackingTyped DEF Typed, BeginOrderTriggerRun
  <2> QED
    BY <1>3, <2>1, <2>2 DEF Typed, BeginOrderTriggerRun, procVars
<1>4. ASSUME NEW r \in Runs, InsertElement(r)
      PROVE  Typed'
  <2>1. run' \in [Runs -> GoodRun]
    <3> DEFINE R == [run[r] EXCEPT !.pc = "fire", !.k = 1, !.elem = {}]
    <3>1. run[r] \in RunRecord /\ HasWork(run[r])
      BY DEF Typed, GoodRun
    <3>2. R \in RunRecord
      BY <3>1 DEF RunRecord, RunPcs
    <3>3. HasWork(R)
      BY <1>4, <3>1 DEF HasWork, RunRecord, InsertElement, At
    <3>4. R \in GoodRun
      BY <3>2, <3>3 DEF GoodRun
    <3> QED
      BY <1>4, <3>4 DEF Typed, InsertElement
  <2>2. rows' \in [Rows -> RowRecord]
    <3>1. CurrentRow(r) \in Rows
      BY <1>4, CurrentRowTyped DEF InsertElement, At, Typed, GoodRun, HasWork
    <3> QED
      BY <1>4, <3>1 DEF Typed, InsertElement, RowRecord
  <2> QED
    BY <1>4, <2>1, <2>2 DEF Typed, InsertElement, orderVars, procVars, history
<1>5. ASSUME NEW r \in Runs, RetrySiblings(r)
      PROVE  Typed'
  <2>1. run' \in [Runs -> GoodRun]
    <3> DEFINE covered == IF Existing # {} THEN Existing ELSE run[r].elems
    <3>1. covered \in SUBSET Rows /\ covered # {}
      BY <1>5 DEF RetrySiblings, At, Typed, GoodRun, HasWork, RunRecord, Existing
    <3> HIDE DEF covered
    <3>2. [run[r] EXCEPT !.pc = "fire", !.elems = covered, !.todo = covered] \in GoodRun
      <4>1. run[r] \in RunRecord /\ HasWork(run[r])
        BY DEF Typed, GoodRun
      <4>2. [run[r] EXCEPT !.pc = "fire", !.elems = covered, !.todo = covered] \in RunRecord
        BY <3>1, <4>1 DEF RunRecord, RunPcs
      <4> QED
        BY <3>1, <4>1, <4>2 DEF GoodRun, HasWork, RunRecord
    <3> QED
      BY <1>5, <3>2 DEF Typed, RetrySiblings, covered
  <2> QED
    BY <1>5, <2>1 DEF Typed, RetrySiblings, orderVars, procVars, history
<1>6. ASSUME NEW r \in Runs, TriggerStarts(r)
      PROVE  Typed'
  <2>1. CurrentPid(r) \in Pids
    BY <1>6, CurrentPidTyped DEF TriggerStarts, At, Typed, GoodRun, HasWork
  <2>2. run' \in [Runs -> GoodRun]
    <3> DEFINE R == [run[r] EXCEPT !.pc = "record", !.elem = run[r].elem \union {CurrentPid(r)}]
    <3>1. run[r] \in RunRecord /\ HasWork(run[r])
      BY DEF Typed, GoodRun
    <3>2. R \in RunRecord
      BY <3>1, <2>1 DEF RunRecord, RunPcs
    <3>3. HasWork(R)
      BY <1>6, <3>1, <2>1 DEF HasWork, RunRecord, TriggerStarts, At
    <3>4. R \in GoodRun
      BY <3>2, <3>3 DEF GoodRun
    <3> QED
      BY <1>6, <3>4 DEF Typed, TriggerStarts
  <2> QED
    BY <1>6, <2>1, <2>2 DEF Typed, TriggerStarts, CiStates, orderVars, procVars, history
<1>7. ASSUME NEW r \in Runs, TriggerFails(r)
      PROVE  Typed'
  <2>1. run' \in [Runs -> GoodRun]
    <3> DEFINE next == run[r].k + 1
               R == [run[r] EXCEPT !.k = next, !.missed = TRUE]
    <3>1. run[r] \in RunRecord /\ HasWork(run[r])
      BY DEF Typed, GoodRun
    <3>2. next \in Nat /\ next # 0
      BY <3>1 DEF RunRecord
    <3> HIDE DEF next
    <3>3. R \in RunRecord
      BY <3>1, <3>2 DEF RunRecord, RunPcs
    <3>4. R \in GoodRun
      BY <1>7, <3>1, <3>2, <3>3 DEF GoodRun, HasWork, RunRecord, TriggerFails, At
    <3> USE DEF next
    <3> QED
      BY <1>7, <3>4 DEF Typed, TriggerFails
  <2> QED
    BY <1>7, <2>1 DEF Typed, TriggerFails, orderVars, procVars, history
<1>8. ASSUME NEW r \in Runs, RecordOrderPipelineId(r)
      PROVE  Typed'
  <2>1. run' \in [Runs -> GoodRun]
    <3> DEFINE next == run[r].k + 1
               R == [run[r] EXCEPT !.pc = "fire", !.k = next]
    <3>1. run[r] \in RunRecord /\ HasWork(run[r])
      BY DEF Typed, GoodRun
    <3>2. next \in Nat /\ next # 0
      BY <3>1 DEF RunRecord
    <3> HIDE DEF next
    <3>3. R \in RunRecord
      BY <3>1, <3>2 DEF RunRecord, RunPcs
    <3>4. R \in GoodRun
      BY <1>8, <3>1, <3>2, <3>3 DEF GoodRun, HasWork, RunRecord, RecordOrderPipelineId, At
    <3> USE DEF next
    <3> QED
      BY <1>8, <3>4 DEF Typed, RecordOrderPipelineId
  <2>2. track' \in TrackingOf(Pids)
    <3>1. CurrentPid(r) \in Pids
      BY <1>8, CurrentPidTyped DEF RecordOrderPipelineId, At, Typed, GoodRun, HasWork
    <3> QED
      BY <1>8, <3>1, TrackingTyped DEF Typed, RecordOrderPipelineId
  <2> QED
    BY <1>8, <2>1, <2>2 DEF Typed, RecordOrderPipelineId, procVars, history
<1>9. ASSUME NEW r \in Runs, ElementFired(r)
      PROVE  Typed'
  <2>1. CurrentRow(r) \in Rows
    BY <1>9, CurrentRowTyped DEF ElementFired, At, Typed, GoodRun, HasWork
  <2>2. run' \in [Runs -> GoodRun]
    <3> DEFINE started == run[r].started \union run[r].elem
               next == AfterElement(r, started)
               todo == IF next = "rewrite" THEN run[r].elems ELSE run[r].todo \ {CurrentRow(r)}
    <3>1. next \in RunPcs \ {"record"} /\ todo \in SUBSET Rows /\ started \in SUBSET Pids
      BY DEF Typed, GoodRun, RunRecord, AfterElement, RunPcs
    <3>2. next \in {"insert", "fire", "rewrite"} => todo # {}
      BY <1>9 DEF ElementFired, At, Typed, GoodRun, HasWork, AfterElement
    <3>3. next \notin {"decide", "begin", "siblings"}
      BY DEF AfterElement
    <3>4. run' = [run EXCEPT ![r] = [@ EXCEPT !.pc = next, !.started = started, !.k = 1,
                                       !.elem = {}, !.todo = todo]]
      BY <1>9 DEF ElementFired
    <3> HIDE DEF started, next, todo
    <3>5. run[r] \in RunRecord /\ run[r].elems # {}
      BY <1>9 DEF ElementFired, At, Typed, GoodRun, HasWork
    <3>6. [run[r] EXCEPT !.pc = next, !.started = started, !.k = 1, !.elem = {}, !.todo = todo] \in GoodRun
      <4> DEFINE R == [run[r] EXCEPT !.pc = next, !.started = started, !.k = 1, !.elem = {}, !.todo = todo]
      <4>1. R \in RunRecord
        BY <3>1, <3>5 DEF RunRecord
      <4>2. HasWork(R)
        BY <3>1, <3>2, <3>3, <3>5 DEF HasWork, RunRecord
      <4> QED
        BY <4>1, <4>2 DEF GoodRun
    <3> QED
      BY <3>4, <3>6 DEF Typed
  <2>3. rows' \in [Rows -> RowRecord]
    <3>1. run[r].elem \in SUBSET Pids
      BY DEF Typed, GoodRun, RunRecord
    <3> QED
      BY <1>9, <2>1, <3>1 DEF Typed, ElementFired, RowRecord
  <2> QED
    BY <1>9, <2>1, <2>2, <2>3 DEF Typed, ElementFired, orderVars, procVars, history
<1>10. ASSUME NEW r \in Runs, PurgeElements(r)
      PROVE  Typed'
  <2>1. run' \in [Runs -> GoodRun]
    BY <1>10, FreeGoto DEF Typed, PurgeElements, Goto, FreePcs
  <2>2. rows' \in [Rows -> RowRecord]
    BY <1>10 DEF Typed, PurgeElements, RowRecord
  <2> QED
    BY <1>10, <2>1, <2>2 DEF Typed, PurgeElements, orderVars, procVars, history
<1>11. ASSUME NEW r \in Runs, ClearOrderTriggerRun(r)
      PROVE  Typed'
  <2>1. run' \in [Runs -> GoodRun]
    BY <1>11, FreeGoto DEF Typed, ClearOrderTriggerRun, Goto, FreePcs
  <2>2. track' \in TrackingOf(Pids)
    BY <1>11, TrackingTyped DEF ClearOrderTriggerRun
  <2> QED
    BY <1>11, <2>1, <2>2 DEF Typed, ClearOrderTriggerRun, procVars, history
<1>12. ASSUME NEW r \in Runs, ReleaseRetryClaim(r)
      PROVE  Typed'
  <2>1. run' \in [Runs -> GoodRun]
    BY <1>12, FreeGoto DEF Typed, ReleaseRetryClaim, Goto, FreePcs
  <2>2. track' \in TrackingOf(Pids)
    BY <1>12, TrackingTyped DEF ReleaseRetryClaim
  <2> QED
    BY <1>12, <2>1, <2>2 DEF Typed, ReleaseRetryClaim, procVars, history, OrderStatuses
<1>13. ASSUME NEW r \in Runs, RewriteElement(r)
      PROVE  Typed'
  <2>1. CurrentRow(r) \in Rows
    BY <1>13, CurrentRowTyped DEF RewriteElement, At, Typed, GoodRun, HasWork
  <2>2. run' \in [Runs -> GoodRun]
    <3> DEFINE left == run[r].todo \ {CurrentRow(r)}
               next == IF left = {} THEN "close" ELSE "rewrite"
    <3>1. left \in SUBSET Rows /\ next \in {"close", "rewrite"} /\ (next = "rewrite" => left # {})
      BY DEF Typed, GoodRun, RunRecord
    <3>2. run' = [run EXCEPT ![r] = [@ EXCEPT !.todo = left, !.pc = next]]
      BY <1>13 DEF RewriteElement
    <3> HIDE DEF left, next
    <3>3. [run[r] EXCEPT !.todo = left, !.pc = next] \in GoodRun
      <4> DEFINE R == [run[r] EXCEPT !.todo = left, !.pc = next]
      <4>1. run[r] \in RunRecord /\ HasWork(run[r])
        BY DEF Typed, GoodRun
      <4>2. R \in RunRecord
        BY <3>1, <4>1 DEF RunRecord, RunPcs
      <4>3. HasWork(R)
        BY <3>1, <4>1 DEF HasWork, RunRecord
      <4> QED
        BY <4>2, <4>3 DEF GoodRun
    <3> QED
      BY <3>2, <3>3 DEF Typed
  <2>3. rows' \in [Rows -> RowRecord]
    <3>1. {p \in run[r].started : p[2] = CurrentRow(r)} \in SUBSET Pids
      BY DEF Typed, GoodRun, RunRecord
    <3> QED
      BY <1>13, <2>1, <3>1 DEF Typed, RewriteElement, RowRecord
  <2> QED
    BY <1>13, <2>1, <2>2, <2>3 DEF Typed, RewriteElement, orderVars, procVars, history
<1>14. ASSUME NEW r \in Runs, FinishOrderTriggerRun(r)
      PROVE  Typed'
  <2>1. run' \in [Runs -> GoodRun]
    BY <1>14, FreeGoto DEF Typed, FinishOrderTriggerRun, Goto, FreePcs
  <2>2. Closed(track, run[r].started, run[r].missed) \in TrackingOf(Pids)
    <3>1. run[r].started \in SUBSET Pids /\ run[r].missed \in BOOLEAN
      BY DEF Typed, GoodRun, RunRecord
    <3> QED
      BY <3>1, TrackingTyped DEF Typed
  <2>3. settle' \in [Procs -> GoodSettle]
    BY <1>14, <2>2, SettlingTyped DEF Typed, FinishOrderTriggerRun, Procs
  <2> QED
    BY <1>14, <2>1, <2>2, <2>3 DEF Typed, FinishOrderTriggerRun, history
<1>15. ASSUME NEW r \in Runs, UndoClaim(r)
      PROVE  Typed'
  <2>1. run' \in [Runs -> GoodRun]
    BY <1>15, FreeGoto DEF Typed, UndoClaim, Goto, FreePcs
  <2> QED
    BY <1>15, <2>1 DEF Typed, UndoClaim, procVars, history, OrderStatuses
<1>16. ASSUME NEW r \in Runs, AnythingStarted(r)
      PROVE  Typed'
  <2>1. run' \in [Runs -> GoodRun]
    BY <1>16, FreeGoto DEF Typed, AnythingStarted, Goto, FreePcs
  <2> QED
    BY <1>16, <2>1 DEF Typed, AnythingStarted, orderVars, procVars, history
<1>17. ASSUME NEW r \in Runs, Requeue(r)
      PROVE  Typed'
  <2>1. run' \in [Runs -> GoodRun]
    BY <1>17, FreeGoto DEF Typed, Requeue, Goto, FreePcs
  <2> QED
    BY <1>17, <2>1 DEF Typed, Requeue, procVars, history, OrderStatuses
<1> QED
  BY <1>1, <1>2, <1>3, <1>4, <1>5, <1>6, <1>7, <1>8, <1>9, <1>10, <1>11, <1>12, <1>13, <1>14, <1>15, <1>16, <1>17 DEF RunStep

\* So do its failures.
LEMMA RunFaultsKeepTypes ==
  ASSUME Typed
  PROVE  \A r \in Runs : RunFaults(r) => Typed'
<1>1. ASSUME NEW r \in Runs, ApproveCannotDecide(r)
      PROVE  Typed'
  <2>1. run' \in [Runs -> GoodRun]
    BY <1>1, FreeGoto DEF Typed, ApproveCannotDecide, Goto, FreePcs
  <2>2. faults' \in [db : Nat, death : Nat]
    BY <1>1 DEF Typed, ApproveCannotDecide, DbFault
  <2> QED
    BY <1>1, <2>1, <2>2 DEF Typed, ApproveCannotDecide, procVars, history, OrderStatuses
<1>2. ASSUME NEW r \in Runs, ApproveAbandoned(r)
      PROVE  Typed'
  <2>1. run' \in [Runs -> GoodRun]
    BY <1>2, FreeGoto DEF Typed, ApproveAbandoned, Goto, FreePcs
  <2>2. faults' \in [db : Nat, death : Nat]
    BY <1>2 DEF Typed, ApproveAbandoned, DbFault
  <2> QED
    BY <1>2, <2>1, <2>2 DEF Typed, ApproveAbandoned, orderVars, procVars, history
<1>3. ASSUME NEW r \in Runs, RecordLost(r)
      PROVE  Typed'
  <2>1. run' \in [Runs -> GoodRun]
    <3> DEFINE next == run[r].k + 1
               R == [run[r] EXCEPT !.pc = "fire", !.k = next]
    <3>1. run[r] \in RunRecord /\ HasWork(run[r])
      BY DEF Typed, GoodRun
    <3>2. next \in Nat /\ next # 0
      BY <3>1 DEF RunRecord
    <3> HIDE DEF next
    <3>3. R \in RunRecord
      BY <3>1, <3>2 DEF RunRecord, RunPcs
    <3>4. R \in GoodRun
      BY <1>3, <3>1, <3>2, <3>3 DEF GoodRun, HasWork, RunRecord, RecordLost, At
    <3> USE DEF next
    <3> QED
      BY <1>3, <3>4 DEF Typed, RecordLost
  <2>2. faults' \in [db : Nat, death : Nat]
    BY <1>3 DEF Typed, RecordLost, DbFault
  <2> QED
    BY <1>3, <2>1, <2>2 DEF Typed, RecordLost, orderVars, procVars, history
<1>4. ASSUME NEW r \in Runs, ElementThrows(r)
      PROVE  Typed'
  <2>1. run' \in [Runs -> GoodRun]
    <3> DEFINE next == AfterElement(r, run[r].started)
               pc == IF ~Provisions(r) /\ run[r].started = {} THEN "release" ELSE next
               todo == IF next = "rewrite" THEN run[r].elems ELSE run[r].todo \ {CurrentRow(r)}
    <3>1. pc \in RunPcs \ {"record"} /\ todo \in SUBSET Rows
      BY DEF Typed, GoodRun, RunRecord, AfterElement, RunPcs
    <3>2. pc \in {"insert", "fire", "rewrite"} => todo # {}
      BY <1>4 DEF ElementThrows, At, Typed, GoodRun, HasWork, AfterElement
    <3>3. pc \notin {"decide", "begin", "siblings"}
      BY DEF AfterElement
    <3>4. run' = [run EXCEPT ![r] = [@ EXCEPT !.missed = TRUE, !.k = 1, !.elem = {},
                                       !.pc = pc, !.todo = todo]]
      BY <1>4 DEF ElementThrows
    <3> HIDE DEF next, pc, todo
    <3>5. run[r] \in RunRecord /\ run[r].elems # {}
      BY <1>4 DEF ElementThrows, At, Typed, GoodRun, HasWork
    <3>6. [run[r] EXCEPT !.missed = TRUE, !.k = 1, !.elem = {}, !.pc = pc, !.todo = todo] \in GoodRun
      <4> DEFINE R == [run[r] EXCEPT !.missed = TRUE, !.k = 1, !.elem = {}, !.pc = pc, !.todo = todo]
      <4>1. R \in RunRecord
        BY <3>1, <3>5 DEF RunRecord
      <4>2. HasWork(R)
        BY <3>1, <3>2, <3>3, <3>5 DEF HasWork, RunRecord
      <4> QED
        BY <4>1, <4>2 DEF GoodRun
    <3> QED
      BY <3>4, <3>6 DEF Typed
  <2>2. faults' \in [db : Nat, death : Nat]
    BY <1>4 DEF Typed, ElementThrows, DbFault
  <2> QED
    BY <1>4, <2>1, <2>2 DEF Typed, ElementThrows, orderVars, procVars, history
<1>5. ASSUME NEW r \in Runs, RunThrows(r)
      PROVE  Typed'
  <2>1. run' \in [Runs -> GoodRun]
    BY <1>5, FreeGoto DEF Typed, RunThrows, Goto, FreePcs
  <2>2. faults' \in [db : Nat, death : Nat]
    BY <1>5 DEF Typed, RunThrows, DbFault
  <2> QED
    BY <1>5, <2>1, <2>2 DEF Typed, RunThrows, orderVars, procVars, history
<1>6. ASSUME NEW r \in Runs, RunDies(r)
      PROVE  Typed'
  <2>1. run' \in [Runs -> GoodRun]
    BY <1>6, FreeGoto DEF Typed, RunDies, Goto, FreePcs
  <2>2. faults' \in [db : Nat, death : Nat]
    BY <1>6 DEF Typed, RunDies, Death
  <2>3. settle' \in [Procs -> GoodSettle]
    BY <1>6, NotSettlingTyped DEF Typed, RunDies, Procs
  <2> QED
    BY <1>6, <2>1, <2>2, <2>3 DEF Typed, RunDies, orderVars, history
<1> QED
  BY <1>1, <1>2, <1>3, <1>4, <1>5, <1>6 DEF RunFaults

\* So do the callback handlers.
LEMMA HandlersKeepTypes ==
  ASSUME Typed
  PROVE  \A h \in Handlers : HandlerStep(h) \/ HandlerDies(h) => Typed'
<1>1. ASSUME NEW h \in Handlers, CallbackArrives(h)
      PROVE  Typed'
  <2>1. hnd' \in [Handlers -> SUBSET Events]
    BY <1>1 DEF Typed, CallbackArrives, Receives, Events
  <2>2. ci' \in [Pids -> CiStates]
    BY <1>1 DEF Typed, CallbackArrives, Verdict, Verdicts, CiStates
  <2> QED
    BY <1>1, <2>1, <2>2 DEF Typed, CallbackArrives, orderVars, history
<1>2. ASSUME NEW h \in Handlers, CallbackRepeated(h)
      PROVE  Typed'
  <2>1. hnd' \in [Handlers -> SUBSET Events]
    <3>1. \A p \in Pids : Posted(p) \subseteq Verdicts
      BY DEF Posted, Verdicts
    <3> QED
      BY <1>2, <3>1 DEF Typed, CallbackRepeated, Receives, Events
  <2> QED
    BY <1>2, <2>1 DEF Typed, CallbackRepeated, orderVars, history
<1>3. ASSUME NEW h \in Handlers, MergeSuccessEvent(h)
      PROVE  Typed'
  <2>1. \A e \in hnd[h] : e.p \in Pids
    BY DEF Typed, Events
  <2>2. track' \in TrackingOf(Pids)
    BY <1>3, <2>1, TrackingTyped DEF Typed, MergeSuccessEvent
  <2>3. settle' \in [Procs -> GoodSettle]
    BY <1>3, <2>2, SettlingTyped DEF Typed, MergeSuccessEvent, Procs
  <2>4. hnd' \in [Handlers -> SUBSET Events]
    BY <1>3 DEF Typed, MergeSuccessEvent
  <2> QED
    BY <1>3, <2>1, <2>2, <2>3, <2>4 DEF Typed, MergeSuccessEvent, history
<1>4. ASSUME NEW h \in Handlers, MergeFailureEvent(h)
      PROVE  Typed'
  <2>1. \A e \in hnd[h] : e.p \in Pids
    BY DEF Typed, Events
  <2>2. track' \in TrackingOf(Pids)
    BY <1>4, <2>1, TrackingTyped DEF Typed, MergeFailureEvent, orderVars
  <2>3. hnd' \in [Handlers -> SUBSET Events]
    BY <1>4 DEF Typed, MergeFailureEvent
  <2> QED
    BY <1>4, <2>1, <2>2, <2>3 DEF Typed, MergeFailureEvent, orderVars, history, OrderStatuses
<1>5. ASSUME NEW h \in Handlers, HandlerDies(h)
      PROVE  Typed'
  <2>1. settle' \in [Procs -> GoodSettle]
    BY <1>5, NotSettlingTyped DEF Typed, HandlerDies, Procs
  <2>2. hnd' \in [Handlers -> SUBSET Events]
    BY <1>5 DEF Typed, HandlerDies
  <2>3. faults' \in [db : Nat, death : Nat]
    BY <1>5 DEF Typed, HandlerDies, Death
  <2> QED
    BY <1>5, <2>1, <2>2, <2>3 DEF Typed, HandlerDies, orderVars, history
<1> QED
  BY <1>1, <1>2, <1>3, <1>4, <1>5 DEF HandlerStep

\* So does settling the order.
LEMMA SettlingKeepsTypes ==
  ASSUME Typed
  PROVE  \A x \in Procs : SettleStep(x) \/ SettleThrows(x) \/ CompletionUnaudited(x) => Typed'
<1>1. ASSUME NEW x \in Procs, SettleReads(x)
      PROVE  Typed'
  <2>1. settle' \in [Procs -> GoodSettle]
    <3> DEFINE snap == [w \in Rows |-> rows[w].ids]
               next == IF Existing = {} THEN "swap" ELSE "write"
    <3>1. snap \in [Rows -> SUBSET Pids]
      BY DEF Typed, RowRecord
    <3>2. Existing \subseteq Rows /\ next \in {"swap", "write"} /\ (next = "write" => Existing # {})
      BY DEF Existing
    <3>3. settle' = [settle EXCEPT ![x] = [@ EXCEPT !.pc = next, !.left = Existing, !.snap = snap]]
      BY <1>1 DEF SettleReads
    <3>4. settle[x].pc # "idle"
      BY <1>1 DEF SettleReads
    <3> HIDE DEF snap, next
    <3>5. [settle[x] EXCEPT !.pc = next, !.left = Existing, !.snap = snap] \in GoodSettle
      BY <3>1, <3>2, <3>4 DEF Typed, GoodSettle, SettleRecord, SettlePcs
    <3> QED
      BY <3>3, <3>5 DEF Typed
  <2> QED
    BY <1>1, <2>1 DEF Typed, SettleReads, orderVars, history
<1>2. ASSUME NEW x \in Procs, SettleRecordsOutputs(x)
      PROVE  Typed'
  <2>1. FirstOf(settle[x].left) \in Rows
    <3>1. settle[x].left \subseteq Rows /\ settle[x].left # {}
      BY <1>2 DEF SettleRecordsOutputs, Typed, GoodSettle, SettleRecord
    <3> QED
      BY <3>1, FirstOfMember
  <2>2. settle' \in [Procs -> GoodSettle]
    <3> DEFINE left == settle[x].left \ {FirstOf(settle[x].left)}
               next == IF left = {} THEN "swap" ELSE "write"
    <3>1. left \subseteq Rows /\ next \in {"swap", "write"} /\ (next = "write" => left # {})
      BY DEF Typed, GoodSettle, SettleRecord
    <3>2. settle' = [settle EXCEPT ![x] = [@ EXCEPT !.left = left, !.pc = next]]
      BY <1>2 DEF SettleRecordsOutputs
    <3>3. settle[x].pc # "idle"
      BY <1>2 DEF SettleRecordsOutputs
    <3> HIDE DEF left, next
    <3>4. [settle[x] EXCEPT !.left = left, !.pc = next] \in GoodSettle
      BY <3>1, <3>3 DEF Typed, GoodSettle, SettleRecord, SettlePcs
    <3> QED
      BY <3>2, <3>4 DEF Typed
  <2>3. rows' \in [Rows -> RowRecord]
    <3> DEFINE w == FirstOf(settle[x].left)
    <3>1. settle[x].snap[w] \in SUBSET Pids
      BY <2>1 DEF Typed, GoodSettle, SettleRecord
    <3>2. rows' = rows \/ rows' = [rows EXCEPT ![w].outputs = settle[x].snap[w]]
      BY <1>2 DEF SettleRecordsOutputs
    <3> HIDE DEF w
    <3> QED
      BY <2>1, <3>1, <3>2 DEF Typed, RowRecord
  <2> QED
    BY <1>2, <2>1, <2>2, <2>3 DEF Typed, SettleRecordsOutputs, orderVars, history
<1>3. ASSUME NEW x \in Procs, SettleSwaps(x)
      PROVE  Typed'
  <2>1. run' \in [Runs -> GoodRun] /\ settle' \in [Procs -> GoodSettle]
    BY <1>3, LeavingTyped DEF SettleSwaps, FreePcs
  <2> QED
    BY <1>3, <2>1 DEF Typed, SettleSwaps, OrderStatuses, history
<1>4. ASSUME NEW x \in Procs, SettleThrows(x)
      PROVE  Typed'
  <2>1. run' \in [Runs -> GoodRun] /\ settle' \in [Procs -> GoodSettle]
    BY <1>4, LeavingTyped DEF SettleThrows, AfterThrow, FreePcs
  <2>2. faults' \in [db : Nat, death : Nat]
    BY <1>4 DEF Typed, SettleThrows, DbFault
  <2> QED
    BY <1>4, <2>1, <2>2 DEF Typed, SettleThrows, orderVars, history
<1>5. ASSUME NEW x \in Procs, CompletionUnaudited(x)
      PROVE  Typed'
  <2>1. run' \in [Runs -> GoodRun] /\ settle' \in [Procs -> GoodSettle]
    BY <1>5, LeavingTyped DEF CompletionUnaudited, AfterThrow, FreePcs
  <2>2. faults' \in [db : Nat, death : Nat]
    BY <1>5 DEF Typed, CompletionUnaudited, DbFault
  <2> QED
    BY <1>5, <2>1, <2>2 DEF Typed, CompletionUnaudited, OrderStatuses, history
<1> QED
  BY <1>1, <1>2, <1>3, <1>4, <1>5 DEF SettleStep

\* And the steps of nobody in particular.
LEMMA OthersKeepTypes ==
  ASSUME Typed
  PROVE  PlacePending \/ RejectOrder \/ CallbackLost \/ WriteOffReads \/ WriteOffWrites => Typed'
<1>1. ASSUME CallbackLost
      PROVE  ci' \in [Pids -> CiStates]
  BY <1>1 DEF Typed, CallbackLost, Verdict, Verdicts, CiStates
<1>2. CASE CallbackLost
  BY <1>1, <1>2 DEF Typed, CallbackLost, orderVars, procVars, history
<1>3. CASE PlacePending \/ RejectOrder
  BY <1>3 DEF Typed, PlacePending, RejectOrder, procVars, history, OrderStatuses
<1>4. CASE WriteOffReads \/ WriteOffWrites
  BY <1>4 DEF Typed, WriteOffReads, WriteOffWrites, orderVars, history, OrderStatuses
<1> QED
  BY <1>2, <1>3, <1>4

LEMMA InitTyped == Init => Typed
<1> SUFFICES ASSUME Init
             PROVE  Typed
  OBVIOUS
<1>1. FreshRun \in GoodRun
  BY DEF FreshRun, GoodRun, HasWork, RunRecord, RunPcs, AllKinds
<1>2. rows \in [Rows -> RowRecord] /\ ci \in [Pids -> CiStates]
  BY DEF Init, RowRecord, CiStates
<1> QED
  BY <1>1, <1>2, TrackingTyped, NotSettlingTyped DEF Init, Typed, OrderStatuses

LEMMA NextTyped == Typed /\ [Next]_vars => Typed'
<1> SUFFICES ASSUME Typed, [Next]_vars
             PROVE  Typed'
  OBVIOUS
<1>1. CASE Next
  BY <1>1, ClaimsKeepTypes, RunStepsKeepTypes, RunFaultsKeepTypes, HandlersKeepTypes,
     SettlingKeepsTypes, OthersKeepTypes DEF Next
<1>2. CASE UNCHANGED vars
  BY <1>2 DEF Typed, vars, orderVars, procVars, history
<1> QED
  BY <1>1, <1>2

LEMMA AlwaysTyped == Spec => []Typed
  BY InitTyped, NextTyped, PTL DEF Spec

\* Every column of the order and of its elements, and every request, holds what
\* the code can put there, however many requests, callbacks and failures there are.
THEOREM TypeCorrect == Spec => []TypeOK
  BY AlwaysTyped, TypedIsTypeOK, PTL

-----------------------------------------------------------------------------
(* A completion follows a decision on the map it is written to             *)

LEMMA CleanSwap ==
  ASSUME Typed, NEW x \in Procs, settle[x].pc = "swap", SwapMatches(x)
  PROVE  Clean(track.st)
  BY DEF Typed, GoodSettle, SwapMatches

LEMMA CompletionStep == Typed /\ [Next]_vars /\ Completes => Clean(track.st)
<1> SUFFICES ASSUME Typed, [Next]_vars, status # "completed", status' = "completed"
             PROVE  Clean(track.st)
  BY DEF Completes
<1>1. ASSUME NEW x \in Procs, SettleSwaps(x) \/ CompletionUnaudited(x)
      PROVE  Clean(track.st)
  BY <1>1, CleanSwap DEF SettleSwaps, CompletionUnaudited
<1>2. CASE UNCHANGED vars
  BY <1>2 DEF vars, orderVars
<1>3. ASSUME NEW r \in Runs, Claims(r)
      PROVE  FALSE
  BY <1>3 DEF Claims, PlaceDirect, ApproveClaim, WindowClaim, RetryClaim
<1>4. ASSUME NEW r \in Runs, RunStep(r)
      PROVE  FALSE
  BY <1>4 DEF RunStep, ApproveDeploysNow, ApproveWaits, BeginOrderTriggerRun, InsertElement,
     RetrySiblings, TriggerStarts, TriggerFails, RecordOrderPipelineId, ElementFired,
     PurgeElements, ClearOrderTriggerRun, ReleaseRetryClaim, RewriteElement,
     FinishOrderTriggerRun, UndoClaim, AnythingStarted, Requeue, orderVars
<1>5. ASSUME NEW r \in Runs, RunFaults(r)
      PROVE  FALSE
  BY <1>5 DEF RunFaults, ApproveCannotDecide, ApproveAbandoned, RecordLost, ElementThrows,
     RunThrows, RunDies, orderVars
<1>6. ASSUME NEW h \in Handlers, HandlerStep(h) \/ HandlerDies(h)
      PROVE  FALSE
  BY <1>6 DEF HandlerStep, CallbackArrives, CallbackRepeated, MergeSuccessEvent,
     MergeFailureEvent, HandlerDies, orderVars
<1>7. ASSUME NEW x \in Procs, SettleReads(x) \/ SettleRecordsOutputs(x) \/ SettleThrows(x)
      PROVE  FALSE
  BY <1>7 DEF SettleReads, SettleRecordsOutputs, SettleThrows, orderVars
<1>8. CASE PlacePending \/ RejectOrder \/ CallbackLost \/ WriteOffReads \/ WriteOffWrites
  BY <1>8 DEF PlacePending, RejectOrder, CallbackLost, WriteOffReads, WriteOffWrites, orderVars
<1> QED
  BY <1>1, <1>2, <1>3, <1>4, <1>5, <1>6, <1>7, <1>8 DEF Next, SettleStep

\* An order is completed only in a step that finds its status map free of
\* failures, sentinels and the 'triggering' entry, whoever decided to complete
\* it, and however long ago: the compare-and-swap of settle.ts.
THEOREM CompletionsAreClean == Spec => CompletionIsClean
<1>1. Typed /\ [Next]_vars =>
        [Completes => /\ track.st.good # {} /\ track.st.bad = {}
                      /\ ~track.st.firing /\ ~track.st.missed]_vars
  BY CompletionStep DEF Clean
<1> QED
  BY <1>1, AlwaysTyped, PTL DEF Spec, CompletionIsClean

-----------------------------------------------------------------------------
(* The owner of the tracking keeps the 'triggering' entry                  *)

\* As long as no run was claimed under another, one run is under way,
AtMostOneRun ==
  "run" \notin stale => \A q, r \in Runs : ~Over(q) /\ ~Over(r) => q = r
\* a run owns the tracking only after it has opened it,
OwnerHasBegun == \A r \in Runs : run[r].pc \in {"idle", "decide", "begin"} => owner # r
\* and the tracking it opened still refuses completion while it fires.
OwnerFires ==
  "run" \notin stale /\ owner \in Runs /\ Firing(owner) => track.st.firing
\* A run settles the order only after everything else it does.
RunsSettleLast == \A r \in Runs : settle[r].pc # "idle" => run[r].pc = "settling"

OwnerInv == AtMostOneRun /\ OwnerHasBegun /\ OwnerFires /\ RunsSettleLast

\* A step that moves one run onwards keeps the invariant, provided that the run
\* no longer fires if the step removes the entry.
LEMMA OneRunMoves ==
  ASSUME Typed, OwnerInv, NEW r \in Runs, NEW R, run' = [run EXCEPT ![r] = R],
         ~Over(r), owner' = owner, stale' = stale,
         R.pc \in {"idle", "decide", "begin"} => run[r].pc \in {"idle", "decide", "begin"},
         Firing(r)' => Firing(r) /\ (track.st.firing => track'.st.firing),
         RunsSettleLast'
  PROVE  OwnerInv'
<1>1. run'[r] = R /\ \A q \in Runs \ {r} : run'[q] = run[q]
  BY DEF Typed
<1>2. AtMostOneRun'
  BY <1>1 DEF OwnerInv, AtMostOneRun, Over
<1>3. OwnerHasBegun'
  BY <1>1 DEF OwnerInv, OwnerHasBegun
<1>4. OwnerFires'
  <2> SUFFICES ASSUME "run" \notin stale, owner \in Runs, Firing(owner)'
               PROVE  track'.st.firing
    BY DEF OwnerFires
  <2>1. CASE owner = r
    BY <2>1 DEF OwnerInv, OwnerFires
  <2>2. CASE owner # r
    <3>1. ~Over(owner)
      BY <1>1, <2>2 DEF Firing, Over
    <3> QED
      BY <3>1, <2>2 DEF OwnerInv, AtMostOneRun
  <2> QED
    BY <2>1, <2>2
<1> QED
  BY <1>2, <1>3, <1>4 DEF OwnerInv

\* A step that moves no run keeps it if it leaves the entry alone.
LEMMA NoRunMoves ==
  ASSUME OwnerInv, run' = run, owner' = owner, stale' = stale,
         track.st.firing => track'.st.firing, RunsSettleLast'
  PROVE  OwnerInv'
  BY DEF OwnerInv, AtMostOneRun, OwnerHasBegun, OwnerFires, Over, Firing

\* A run that starts finds the others over, or is recorded as stale.
LEMMA OneRunStarts ==
  ASSUME Typed, OwnerInv, NEW r \in Runs, NEW kind, NEW pc, NEW elems,
         Starting(r, kind, pc, elems), settle' = settle,
         \/ pc \in {"decide", "begin"} /\ owner' = owner
         \/ pc = "siblings" /\ owner' = r /\ track'.st.firing
  PROVE  OwnerInv'
<1>1. run[r].pc = "idle" /\ run'[r].pc = pc /\ \A q \in Runs \ {r} : run'[q] = run[q]
  BY DEF Starting, IsNext, Typed, FreshRun
<1>2. "run" \notin stale' => "run" \notin stale /\ \A q \in Runs : Over(q)
  BY DEF Starting
<1>3. AtMostOneRun'
  BY <1>1, <1>2 DEF AtMostOneRun, Over
<1>4. OwnerHasBegun'
  BY <1>1 DEF OwnerInv, OwnerHasBegun
<1>5. OwnerFires'
  <2> SUFFICES ASSUME "run" \notin stale', owner' \in Runs, Firing(owner)'
               PROVE  track'.st.firing
    BY DEF OwnerFires
  <2>1. CASE owner' = r
    BY <2>1, <1>1 DEF OwnerInv, OwnerHasBegun
  <2>2. CASE owner' # r
    BY <2>2, <1>1, <1>2 DEF Firing, Over
  <2> QED
    BY <2>1, <2>2
<1>6. RunsSettleLast'
  BY <1>1 DEF OwnerInv, RunsSettleLast
<1> QED
  BY <1>3, <1>4, <1>5, <1>6 DEF OwnerInv

\* What the operations on the tracking do to the 'triggering' entry.
LEMMA FiringKept ==
  ASSUME NEW t \in TrackingOf(Pids), NEW p
  PROVE  /\ AppendOne(t, p).st.firing = t.st.firing
         /\ MergeSuccess(t, p).st.firing = t.st.firing
         /\ MergeFailure(t, p).st.firing = t.st.firing
  BY DEF AppendOne, MergeSuccess, MergeFailure, TrackingOf, StatusMap

LEMMA OpenedFires == Opened.st.firing
  BY DEF Opened, NoStatus

LEMMA ClaimsKeepOwner ==
  ASSUME Typed, OwnerInv, NEW r \in Runs, Claims(r)
  PROVE  OwnerInv'
  BY OneRunStarts, OpenedFires DEF Claims, PlaceDirect, ApproveClaim, WindowClaim, RetryClaim,
     procVars

\* A run leaves the phase in which it fires, or stays in it, with each step.
LEMMA Advances ==
  ASSUME Typed, OwnerInv, NEW r \in Runs, NEW R, run' = [run EXCEPT ![r] = R],
         ~Over(r), owner' = owner, stale' = stale, settle' = settle,
         run[r].pc # "settling",
         R.pc \notin {"idle", "decide", "begin"},
         Firing(r)' => Firing(r) /\ (track.st.firing => track'.st.firing)
  PROVE  OwnerInv'
<1>1. RunsSettleLast'
  BY DEF OwnerInv, RunsSettleLast, Typed
<1> QED
  BY <1>1, OneRunMoves

LEMMA Going ==
  ASSUME Typed, NEW r \in Runs, NEW pc, Goto(r, pc)
  PROVE  run'[r].pc = pc /\ run' = [run EXCEPT ![r] = run'[r]]
  BY DEF Typed, GoodRun, RunRecord, Goto

LEMMA RunStepsKeepOwner ==
  ASSUME Typed, OwnerInv
  PROVE  \A r \in Runs : RunStep(r) => OwnerInv'
<1> DEFINE Leaves == {"purge", "clear", "close", "release", "undo", "requeue", "done"}
<1>1. ASSUME NEW r \in Runs, ApproveDeploysNow(r)
      PROVE  OwnerInv'
  <2>1. run' = [run EXCEPT ![r] = [run[r] EXCEPT !.pc = "begin"]]
    BY <1>1 DEF ApproveDeploysNow, Goto
  <2>2. run'[r].pc = "begin"
    BY <2>1 DEF Typed, GoodRun, RunRecord
  <2>3. RunsSettleLast'
    BY <1>1, <2>1 DEF OwnerInv, RunsSettleLast, ApproveDeploysNow, At, Typed, procVars
  <2> QED
    BY <1>1, <2>1, <2>2, <2>3, OneRunMoves
    DEF ApproveDeploysNow, At, Over, Firing, orderVars, history
<1>2. ASSUME NEW r \in Runs, ApproveWaits(r)
      PROVE  OwnerInv'
  BY <1>2, Advances DEF ApproveWaits, Goto, At, Over, Firing, history, procVars, Typed, GoodRun, RunRecord
<1>3. ASSUME NEW r \in Runs, BeginOrderTriggerRun(r)
      PROVE  OwnerInv'
  <2>1. /\ run[r].pc = "begin" /\ run'[r].pc = "insert"
        /\ \A q \in Runs \ {r} : run'[q] = run[q]
    BY <1>3 DEF BeginOrderTriggerRun, At, Goto, Typed, GoodRun, RunRecord
  <2>2. stale' = stale /\ settle' = settle /\ ((owner' = r /\ track'.st.firing) \/ owner' = owner)
    BY <1>3, OpenedFires DEF BeginOrderTriggerRun, procVars
  <2>3. AtMostOneRun'
    BY <2>1, <2>2 DEF OwnerInv, AtMostOneRun, Over
  <2>4. OwnerHasBegun'
    BY <2>1, <2>2 DEF OwnerInv, OwnerHasBegun
  <2>5. OwnerFires'
    <3> SUFFICES ASSUME "run" \notin stale, owner' \in Runs, Firing(owner)', owner' # r
                 PROVE  FALSE
      BY <2>1, <2>2 DEF OwnerFires, OwnerInv, OwnerHasBegun
    <3>1. ~Over(owner') /\ ~Over(r)
      BY <2>1 DEF Over, Firing
    <3> QED
      BY <3>1 DEF OwnerInv, AtMostOneRun
  <2>6. RunsSettleLast'
    BY <2>1, <2>2 DEF OwnerInv, RunsSettleLast
  <2> QED
    BY <2>3, <2>4, <2>5, <2>6 DEF OwnerInv
<1>4. ASSUME NEW r \in Runs, InsertElement(r) \/ RetrySiblings(r) \/ TriggerStarts(r) \/ TriggerFails(r)
      PROVE  OwnerInv'
  <2>1. /\ run[r].pc \in {"insert", "siblings", "fire"}
        /\ run'[r].pc \in {"fire", "record"}
        /\ run' = [run EXCEPT ![r] = run'[r]]
        /\ owner' = owner /\ stale' = stale /\ settle' = settle /\ track' = track
    <3>1. CASE InsertElement(r)
      BY <3>1 DEF InsertElement, At, Typed, GoodRun, RunRecord, orderVars, procVars, history
    <3>2. CASE RetrySiblings(r)
      BY <3>2 DEF RetrySiblings, At, Typed, GoodRun, RunRecord, orderVars, procVars, history
    <3>3. CASE TriggerStarts(r)
      BY <3>3 DEF TriggerStarts, At, Typed, GoodRun, RunRecord, orderVars, procVars, history
    <3>4. CASE TriggerFails(r)
      BY <3>4 DEF TriggerFails, At, Typed, GoodRun, RunRecord, orderVars, procVars, history
    <3> QED
      BY <1>4, <3>1, <3>2, <3>3, <3>4
  <2> QED
    BY <2>1, Advances DEF Over, Firing
<1>5. ASSUME NEW r \in Runs, RecordOrderPipelineId(r)
      PROVE  OwnerInv'
  <2>1. /\ run[r].pc = "record" /\ run'[r].pc = "fire" /\ run' = [run EXCEPT ![r] = run'[r]]
        /\ owner' = owner /\ stale' = stale /\ settle' = settle
    BY <1>5 DEF RecordOrderPipelineId, At, Typed, GoodRun, RunRecord, procVars, history
  <2>2. track'.st.firing = track.st.firing
    BY <1>5, FiringKept DEF RecordOrderPipelineId, Typed
  <2> QED
    BY <2>1, <2>2, Advances DEF Over, Firing
<1>6. ASSUME NEW r \in Runs, ElementFired(r)
      PROVE  OwnerInv'
  <2> DEFINE next == AfterElement(r, run[r].started \union run[r].elem)
  <2>1. next \in {"insert", "fire", "purge", "release", "close", "rewrite"}
    BY DEF AfterElement
  <2>2. /\ run[r].pc = "fire" /\ run'[r].pc = next /\ run' = [run EXCEPT ![r] = run'[r]]
        /\ owner' = owner /\ stale' = stale /\ settle' = settle /\ track' = track
    BY <1>6 DEF ElementFired, At, Typed, GoodRun, RunRecord, orderVars, procVars, history
  <2> HIDE DEF next
  <2> QED
    BY <2>1, <2>2, Advances DEF Over, Firing
<1>7. ASSUME NEW r \in Runs,
             PurgeElements(r) \/ ClearOrderTriggerRun(r) \/ ReleaseRetryClaim(r)
               \/ UndoClaim(r) \/ AnythingStarted(r) \/ Requeue(r)
      PROVE  OwnerInv'
  <2>1. /\ run[r].pc \in {"purge", "clear", "release", "undo", "requeue"}
        /\ run'[r].pc \in {"clear", "undo", "done", "requeue"}
        /\ run' = [run EXCEPT ![r] = run'[r]]
        /\ owner' = owner /\ stale' = stale /\ settle' = settle
    BY <1>7 DEF PurgeElements, ClearOrderTriggerRun, ReleaseRetryClaim, UndoClaim,
       AnythingStarted, Requeue, Goto, At, Typed, GoodRun, RunRecord, procVars, history
  <2> QED
    BY <2>1, Advances DEF Over, Firing
<1>8. ASSUME NEW r \in Runs, RewriteElement(r)
      PROVE  OwnerInv'
  <2>1. /\ run[r].pc = "rewrite" /\ run'[r].pc \in {"close", "rewrite"}
        /\ run' = [run EXCEPT ![r] = run'[r]]
        /\ owner' = owner /\ stale' = stale /\ settle' = settle /\ track' = track
    BY <1>8 DEF RewriteElement, At, Typed, GoodRun, RunRecord, orderVars, procVars, history
  <2> QED
    BY <2>1, Advances DEF Over, Firing
<1>9. ASSUME NEW r \in Runs, FinishOrderTriggerRun(r)
      PROVE  OwnerInv'
  <2>1. /\ run[r].pc = "close" /\ run'[r].pc \in {"settling", "done"}
        /\ run' = [run EXCEPT ![r] = run'[r]]
        /\ owner' = owner /\ stale' = stale
    BY <1>9 DEF FinishOrderTriggerRun, Goto, At, Typed, GoodRun, RunRecord, history
  <2>2. RunsSettleLast'
    <3>1. \A q \in Runs \ {r} : settle'[q] = settle[q] /\ run'[q] = run[q]
      BY <1>9 DEF FinishOrderTriggerRun, Goto, Typed, Procs
    <3>2. settle'[r].pc # "idle" => run'[r].pc = "settling"
      BY <1>9 DEF FinishOrderTriggerRun, Goto, Typed, GoodRun, RunRecord, Procs, Settling, NotSettling
    <3> QED
      BY <3>1, <3>2 DEF OwnerInv, RunsSettleLast
  <2> QED
    BY <2>1, <2>2, OneRunMoves DEF Over, Firing
<1> QED
  BY <1>1, <1>2, <1>3, <1>4, <1>5, <1>6, <1>7, <1>8, <1>9 DEF RunStep

LEMMA RunFaultsKeepOwner ==
  ASSUME Typed, OwnerInv
  PROVE  \A r \in Runs : RunFaults(r) => OwnerInv'
<1>1. ASSUME NEW r \in Runs,
             ApproveCannotDecide(r) \/ ApproveAbandoned(r) \/ RecordLost(r) \/ RunThrows(r)
      PROVE  OwnerInv'
  <2>1. owner' = owner /\ stale' = stale /\ settle' = settle /\ track' = track
    BY <1>1 DEF ApproveCannotDecide, ApproveAbandoned, RecordLost, RunThrows, orderVars, procVars,
       history
  <2>2. CASE RecordLost(r)
    <3>1. run[r].pc = "record" /\ run'[r].pc = "fire" /\ run' = [run EXCEPT ![r] = run'[r]]
      BY <2>2 DEF RecordLost, At, Typed, GoodRun, RunRecord
    <3> QED
      BY <2>1, <3>1, Advances DEF Over, Firing
  <2>3. CASE ApproveCannotDecide(r) \/ ApproveAbandoned(r)
    <3>1. run[r].pc = "decide" /\ Goto(r, "done")
      BY <2>3 DEF ApproveCannotDecide, ApproveAbandoned, At
    <3> QED
      BY <2>1, <3>1, Going, Advances DEF Over, Firing
  <2>4. CASE RunThrows(r)
    <3>1. run[r].pc \notin {"idle", "done", "settling"}
      BY <2>4 DEF RunThrows, At
    <3>2. PICK pc \in {"undo", "done"} : Goto(r, pc)
      BY <2>4 DEF RunThrows
    <3> QED
      BY <2>1, <3>1, <3>2, Going, Advances DEF Over, Firing
  <2> QED
    BY <1>1, <2>2, <2>3, <2>4
<1>2. ASSUME NEW r \in Runs, ElementThrows(r)
      PROVE  OwnerInv'
  <2>1. AfterElement(r, run[r].started)
          \in {"insert", "fire", "purge", "release", "close", "rewrite"}
    BY DEF AfterElement
  <2>2. /\ run[r].pc = "fire" /\ run' = [run EXCEPT ![r] = run'[r]]
        /\ run'[r].pc \in {AfterElement(r, run[r].started), "release"}
        /\ owner' = owner /\ stale' = stale /\ settle' = settle /\ track' = track
    BY <1>2 DEF ElementThrows, At, Typed, GoodRun, RunRecord, orderVars, procVars, history
  <2> QED
    BY <2>1, <2>2, Advances DEF Over, Firing
<1>3. ASSUME NEW r \in Runs, RunDies(r)
      PROVE  OwnerInv'
  <2>1. /\ ~Over(r) /\ run'[r].pc = "done" /\ run' = [run EXCEPT ![r] = run'[r]]
        /\ owner' = owner /\ stale' = stale /\ track' = track
    BY <1>3 DEF RunDies, Goto, Typed, GoodRun, RunRecord, orderVars, history
  <2>2. RunsSettleLast'
    BY <1>3, <2>1 DEF RunDies, OwnerInv, RunsSettleLast, NotSettling, Typed, Procs
  <2> QED
    BY <2>1, <2>2, OneRunMoves DEF Over, Firing
<1> QED
  BY <1>1, <1>2, <1>3 DEF RunFaults

LEMMA HandlersKeepOwner ==
  ASSUME Typed, OwnerInv
  PROVE  \A h \in Handlers : HandlerStep(h) \/ HandlerDies(h) => OwnerInv'
<1> SUFFICES ASSUME NEW h \in Handlers, HandlerStep(h) \/ HandlerDies(h)
             PROVE  OwnerInv'
  OBVIOUS
<1>1. run' = run /\ owner' = owner /\ stale' = stale
  BY DEF HandlerStep, CallbackArrives, CallbackRepeated, MergeSuccessEvent, MergeFailureEvent,
     HandlerDies, history
<1>2. track'.st.firing = track.st.firing
  <2>1. ASSUME MergeSuccessEvent(h) \/ MergeFailureEvent(h)
        PROVE  track'.st.firing = track.st.firing
    BY <2>1, FiringKept DEF MergeSuccessEvent, MergeFailureEvent, orderVars, Typed
  <2> QED
    BY <2>1 DEF HandlerStep, CallbackArrives, CallbackRepeated, HandlerDies, orderVars
<1>3. RunsSettleLast'
  <2>1. \A q \in Runs : settle'[q] = settle[q]
    BY HandlersAreNotRuns DEF HandlerStep, CallbackArrives, CallbackRepeated, MergeSuccessEvent,
       MergeFailureEvent, HandlerDies, Typed, Procs
  <2> QED
    BY <1>1, <2>1 DEF OwnerInv, RunsSettleLast
<1> QED
  BY <1>1, <1>2, <1>3, NoRunMoves

LEMMA SettlingKeepsOwner ==
  ASSUME Typed, OwnerInv
  PROVE  \A x \in Procs : SettleStep(x) \/ SettleThrows(x) \/ CompletionUnaudited(x) => OwnerInv'
<1>1. ASSUME NEW x \in Procs, SettleReads(x) \/ SettleRecordsOutputs(x)
      PROVE  OwnerInv'
  <2>1. run' = run /\ owner' = owner /\ stale' = stale /\ track' = track
    BY <1>1 DEF SettleReads, SettleRecordsOutputs, orderVars, history
  <2>2. RunsSettleLast'
    <3>1. settle[x].pc # "idle" /\ \A q \in Runs \ {x} : settle'[q] = settle[q]
      BY <1>1 DEF SettleReads, SettleRecordsOutputs, Typed, Procs
    <3> QED
      BY <2>1, <3>1 DEF OwnerInv, RunsSettleLast
  <2> QED
    BY <2>1, <2>2, NoRunMoves
<1>2. ASSUME NEW x \in Procs, SettleSwaps(x) \/ SettleThrows(x) \/ CompletionUnaudited(x)
      PROVE  OwnerInv'
  <2>1. PICK next \in {"done", "undo"} : LeaveSettling(x, next)
    BY <1>2 DEF SettleSwaps, SettleThrows, CompletionUnaudited, AfterThrow
  <2>2. owner' = owner /\ stale' = stale /\ track' = track /\ settle[x].pc # "idle"
    BY <1>2 DEF SettleSwaps, SettleThrows, CompletionUnaudited, orderVars, history
  <2>3. CASE x \in Runs
    <3>1. run[x].pc = "settling"
      BY <2>2, <2>3 DEF OwnerInv, RunsSettleLast
    <3>2. run'[x].pc = next /\ run' = [run EXCEPT ![x] = run'[x]]
      BY <2>1, <2>3 DEF LeaveSettling, Typed, GoodRun, RunRecord
    <3>3. RunsSettleLast'
      BY <2>1, <2>3 DEF LeaveSettling, OwnerInv, RunsSettleLast, NotSettling, Typed
    <3> QED
      BY <2>2, <2>3, <3>1, <3>2, <3>3, OneRunMoves DEF Over, Firing
  <2>4. CASE x \notin Runs
    <3>1. run' = run /\ RunsSettleLast'
      BY <2>1, <2>4 DEF LeaveSettling, OwnerInv, RunsSettleLast, Typed
    <3> QED
      BY <2>2, <3>1, NoRunMoves
  <2> QED
    BY <2>3, <2>4
<1> QED
  BY <1>1, <1>2 DEF SettleStep

LEMMA OthersKeepOwner ==
  ASSUME Typed, OwnerInv,
         PlacePending \/ RejectOrder \/ CallbackLost \/ WriteOffReads \/ WriteOffWrites
  PROVE  OwnerInv'
<1>1. run' = run /\ owner' = owner /\ stale' = stale /\ track' = track /\ settle' = settle
  BY DEF PlacePending, RejectOrder, CallbackLost, WriteOffReads, WriteOffWrites, orderVars,
     procVars, history
<1>2. RunsSettleLast'
  BY <1>1 DEF OwnerInv, RunsSettleLast
<1> QED
  BY <1>1, <1>2, NoRunMoves

LEMMA InitOwner == Init => OwnerInv
<1> SUFFICES ASSUME Init
             PROVE  OwnerInv
  OBVIOUS
<1>1. \A r \in Runs : Over(r) /\ ~Firing(r)
  BY DEF Init, FreshRun, Over, Firing
<1>2. owner = 0 /\ 0 \notin Runs
  BY DEF Init, Runs
<1>3. \A x \in Procs : settle[x].pc = "idle"
  BY DEF Init, NotSettling
<1> QED
  BY <1>1, <1>2, <1>3 DEF OwnerInv, AtMostOneRun, OwnerHasBegun, OwnerFires, RunsSettleLast, Procs

LEMMA NextOwner == Typed /\ OwnerInv /\ [Next]_vars => OwnerInv'
<1> SUFFICES ASSUME Typed, OwnerInv, [Next]_vars
             PROVE  OwnerInv'
  OBVIOUS
<1>1. CASE Next
  BY <1>1, ClaimsKeepOwner, RunStepsKeepOwner, RunFaultsKeepOwner, HandlersKeepOwner,
     SettlingKeepsOwner, OthersKeepOwner DEF Next
<1>2. CASE UNCHANGED vars
  BY <1>2 DEF OwnerInv, AtMostOneRun, OwnerHasBegun, OwnerFires, RunsSettleLast, Over, Firing,
     vars, orderVars, procVars, history
<1> QED
  BY <1>1, <1>2

\* While the run that opened the tracking is still firing its triggers, the
\* order keeps the entry that refuses completion: no other writer of the
\* tracking takes it away, as long as no run claims the order under another.
THEOREM OwnersHoldTriggering == Spec => []OwnerHoldsTriggering
<1>1. OwnerInv => OwnerHoldsTriggering
  BY DEF OwnerInv, OwnerFires, OwnerHoldsTriggering, HoldsTriggering
<1> QED
  BY <1>1, InitOwner, NextOwner, AlwaysTyped, PTL DEF Spec


-----------------------------------------------------------------------------
(* Pipelines and outputs stay with their element                           *)

RowsOwn == \A w \in Rows : \A p \in rows[w].ids \union rows[w].outputs : p[2] = w

\* The pipelines collected for the element a run is firing for.
RunsOwn ==
  \A r \in Runs : /\ \A p \in run[r].elem : p[2] = CurrentRow(r)
                  /\ run[r].pc \in {"siblings", "rewrite"} => run[r].elem = {}

SnapsOwn == \A x \in Procs, w \in Rows : \A p \in settle[x].snap[w] : p[2] = w

OwnPids == RowsOwn /\ RunsOwn /\ SnapsOwn

\* A run that stays with its element keeps what it collected for it,
LEMMA StaysWithElement ==
  ASSUME Typed, RunsOwn, NEW r \in Runs, NEW R, run' = [run EXCEPT ![r] = R],
         R.todo = run[r].todo, R.elem = run[r].elem,
         R.pc \in {"siblings", "rewrite"} => R.elem = {}
  PROVE  RunsOwn'
<1>1. run'[r] = R /\ \A q \in Runs \ {r} : run'[q] = run[q]
  BY DEF Typed
<1> QED
  BY <1>1 DEF RunsOwn, CurrentRow

\* and one that leaves it has collected nothing yet for the next.
LEMMA LeavesElement ==
  ASSUME Typed, RunsOwn, NEW r \in Runs, NEW R, run' = [run EXCEPT ![r] = R], R.elem = {}
  PROVE  RunsOwn'
<1>1. run'[r] = R /\ \A q \in Runs \ {r} : run'[q] = run[q]
  BY DEF Typed
<1> QED
  BY <1>1 DEF RunsOwn, CurrentRow

LEMMA GoesWithElement ==
  ASSUME Typed, RunsOwn, NEW r \in Runs, NEW pc, Goto(r, pc), pc \notin {"siblings", "rewrite"}
  PROVE  RunsOwn'
<1> DEFINE R == [run[r] EXCEPT !.pc = pc]
<1>1. R.todo = run[r].todo /\ R.elem = run[r].elem /\ R.pc = pc
  BY DEF Typed, GoodRun, RunRecord
<1>2. run' = [run EXCEPT ![r] = R]
  BY DEF Goto
<1> HIDE DEF R
<1> QED
  BY <1>1, <1>2, StaysWithElement

LEMMA RunsKeepOwn ==
  ASSUME Typed, RunsOwn
  PROVE  \A r \in Runs : Claims(r) \/ RunStep(r) \/ RunFaults(r) => RunsOwn'
<1>1. ASSUME NEW r \in Runs, NEW kind, NEW pc, NEW elems, Starting(r, kind, pc, elems)
      PROVE  RunsOwn'
  <2> DEFINE R == [FreshRun EXCEPT !.pc = pc, !.kind = kind, !.elems = elems, !.todo = elems]
  <2>1. R.elem = {}
    BY DEF FreshRun
  <2>2. run' = [run EXCEPT ![r] = R]
    BY <1>1 DEF Starting
  <2> HIDE DEF R
  <2> QED
    BY <2>1, <2>2, LeavesElement
<1>2. ASSUME NEW r \in Runs, Claims(r)
      PROVE  RunsOwn'
  BY <1>1, <1>2 DEF Claims, PlaceDirect, ApproveClaim, WindowClaim, RetryClaim
<1>3. ASSUME NEW r \in Runs,
             \/ ApproveDeploysNow(r) \/ ApproveWaits(r) \/ BeginOrderTriggerRun(r)
             \/ PurgeElements(r) \/ ClearOrderTriggerRun(r) \/ ReleaseRetryClaim(r)
             \/ FinishOrderTriggerRun(r) \/ UndoClaim(r) \/ AnythingStarted(r) \/ Requeue(r)
      PROVE  RunsOwn'
  BY <1>3, GoesWithElement
  DEF ApproveDeploysNow, ApproveWaits, BeginOrderTriggerRun, PurgeElements, ClearOrderTriggerRun,
      ReleaseRetryClaim, FinishOrderTriggerRun, UndoClaim, AnythingStarted, Requeue
<1>4. ASSUME NEW r \in Runs,
             ApproveCannotDecide(r) \/ ApproveAbandoned(r) \/ RunThrows(r) \/ RunDies(r)
      PROVE  RunsOwn'
  BY <1>4, GoesWithElement DEF ApproveCannotDecide, ApproveAbandoned, RunThrows, RunDies
<1>5. ASSUME NEW r \in Runs, InsertElement(r)
      PROVE  RunsOwn'
  <2> DEFINE R == [run[r] EXCEPT !.pc = "fire", !.k = 1, !.elem = {}]
  <2>1. R.elem = {}
    BY DEF Typed, GoodRun, RunRecord
  <2>2. run' = [run EXCEPT ![r] = R]
    BY <1>5 DEF InsertElement
  <2> HIDE DEF R
  <2> QED
    BY <2>1, <2>2, LeavesElement
<1>6. ASSUME NEW r \in Runs, RetrySiblings(r)
      PROVE  RunsOwn'
  <2> DEFINE covered == IF Existing # {} THEN Existing ELSE run[r].elems
             R == [run[r] EXCEPT !.pc = "fire", !.elems = covered, !.todo = covered]
  <2>1. R.elem = {}
    BY <1>6 DEF RetrySiblings, At, RunsOwn, Typed, GoodRun, RunRecord
  <2>2. run' = [run EXCEPT ![r] = R]
    BY <1>6 DEF RetrySiblings
  <2> HIDE DEF R
  <2> QED
    BY <2>1, <2>2, LeavesElement
<1>7. ASSUME NEW r \in Runs, TriggerStarts(r)
      PROVE  RunsOwn'
  <2> DEFINE R == [run[r] EXCEPT !.pc = "record", !.elem = run[r].elem \union {CurrentPid(r)}]
  <2>1. R.todo = run[r].todo /\ R.elem = run[r].elem \union {CurrentPid(r)} /\ R.pc = "record"
    BY DEF Typed, GoodRun, RunRecord
  <2>2. run' = [run EXCEPT ![r] = R]
    BY <1>7 DEF TriggerStarts
  <2> HIDE DEF R
  <2>3. run'[r] = R /\ \A q \in Runs \ {r} : run'[q] = run[q]
    BY <2>2 DEF Typed
  <2>4. CurrentRow(r)' = CurrentRow(r) /\ CurrentPid(r)[2] = CurrentRow(r)
    BY <2>1, <2>3 DEF CurrentRow, CurrentPid
  <2> QED
    BY <2>1, <2>3, <2>4 DEF RunsOwn, CurrentRow
<1>8. ASSUME NEW r \in Runs, TriggerFails(r)
      PROVE  RunsOwn'
  <2> DEFINE R == [run[r] EXCEPT !.k = run[r].k + 1, !.missed = TRUE]
  <2>1. R.todo = run[r].todo /\ R.elem = run[r].elem /\ R.pc = "fire"
    BY <1>8 DEF TriggerFails, At, Typed, GoodRun, RunRecord
  <2>2. run' = [run EXCEPT ![r] = R]
    BY <1>8 DEF TriggerFails
  <2> HIDE DEF R
  <2> QED
    BY <2>1, <2>2, StaysWithElement
<1>9. ASSUME NEW r \in Runs, RecordOrderPipelineId(r) \/ RecordLost(r)
      PROVE  RunsOwn'
  <2> DEFINE R == [run[r] EXCEPT !.pc = "fire", !.k = run[r].k + 1]
  <2>1. R.todo = run[r].todo /\ R.elem = run[r].elem /\ R.pc = "fire"
    BY DEF Typed, GoodRun, RunRecord
  <2>2. run' = [run EXCEPT ![r] = R]
    BY <1>9 DEF RecordOrderPipelineId, RecordLost
  <2> HIDE DEF R
  <2> QED
    BY <2>1, <2>2, StaysWithElement
<1>10. ASSUME NEW r \in Runs, ElementFired(r)
       PROVE  RunsOwn'
  <2> DEFINE started == run[r].started \union run[r].elem
             next == AfterElement(r, started)
             todo == IF next = "rewrite" THEN run[r].elems ELSE run[r].todo \ {CurrentRow(r)}
             R == [run[r] EXCEPT !.pc = next, !.started = started, !.k = 1, !.elem = {},
                                 !.todo = todo]
  <2>1. run' = [run EXCEPT ![r] = R]
    BY <1>10 DEF ElementFired
  <2> HIDE DEF started, next, todo
  <2>2. R.elem = {}
    BY DEF Typed, GoodRun, RunRecord
  <2> HIDE DEF R
  <2> QED
    BY <2>1, <2>2, LeavesElement
<1>11. ASSUME NEW r \in Runs, ElementThrows(r)
       PROVE  RunsOwn'
  <2> DEFINE next == AfterElement(r, run[r].started)
             pc == IF ~Provisions(r) /\ run[r].started = {} THEN "release" ELSE next
             todo == IF next = "rewrite" THEN run[r].elems ELSE run[r].todo \ {CurrentRow(r)}
             R == [run[r] EXCEPT !.missed = TRUE, !.k = 1, !.elem = {}, !.pc = pc,
                                 !.todo = todo]
  <2>1. run' = [run EXCEPT ![r] = R]
    BY <1>11 DEF ElementThrows
  <2> HIDE DEF next, pc, todo
  <2>2. R.elem = {}
    BY DEF Typed, GoodRun, RunRecord
  <2> HIDE DEF R
  <2> QED
    BY <2>1, <2>2, LeavesElement
<1>12. ASSUME NEW r \in Runs, RewriteElement(r)
       PROVE  RunsOwn'
  <2> DEFINE left == run[r].todo \ {CurrentRow(r)}
             next == IF left = {} THEN "close" ELSE "rewrite"
             R == [run[r] EXCEPT !.todo = left, !.pc = next]
  <2>1. run' = [run EXCEPT ![r] = R]
    BY <1>12 DEF RewriteElement
  <2> HIDE DEF left, next
  <2>2. R.elem = {}
    BY <1>12 DEF RewriteElement, At, RunsOwn, Typed, GoodRun, RunRecord
  <2> HIDE DEF R
  <2> QED
    BY <2>1, <2>2, LeavesElement
<1> QED
  BY <1>2, <1>3, <1>4, <1>5, <1>6, <1>7, <1>8, <1>9, <1>10, <1>11, <1>12
  DEF RunStep, RunFaults

LEMMA NextRunsOwn == Typed /\ RunsOwn /\ [Next]_vars => RunsOwn'
<1> SUFFICES ASSUME Typed, RunsOwn, [Next]_vars
             PROVE  RunsOwn'
  OBVIOUS
<1>1. ASSUME run' = run
      PROVE  RunsOwn'
  BY <1>1 DEF RunsOwn, CurrentRow
<1>2. ASSUME NEW x \in Procs, SettleStep(x) \/ SettleThrows(x) \/ CompletionUnaudited(x)
      PROVE  RunsOwn'
  <2>1. CASE SettleReads(x) \/ SettleRecordsOutputs(x)
    BY <1>1, <2>1 DEF SettleReads, SettleRecordsOutputs
  <2>2. CASE SettleSwaps(x) \/ SettleThrows(x) \/ CompletionUnaudited(x)
    <3>1. PICK next \in {"done", "undo"} : LeaveSettling(x, next)
      BY <2>2 DEF SettleSwaps, SettleThrows, CompletionUnaudited, AfterThrow
    <3>2. run' = run \/ (x \in Runs /\ Goto(x, next))
      BY <3>1 DEF LeaveSettling, Goto
    <3> QED
      BY <1>1, <3>2, GoesWithElement
  <2> QED
    BY <1>2, <2>1, <2>2 DEF SettleStep
<1>3. ASSUME NEW h \in Handlers, HandlerStep(h) \/ HandlerDies(h)
      PROVE  RunsOwn'
  BY <1>1, <1>3 DEF HandlerStep, CallbackArrives, CallbackRepeated, MergeSuccessEvent,
     MergeFailureEvent, HandlerDies
<1>4. CASE PlacePending \/ RejectOrder \/ CallbackLost \/ WriteOffReads \/ WriteOffWrites
  BY <1>1, <1>4 DEF PlacePending, RejectOrder, CallbackLost, WriteOffReads, WriteOffWrites
<1>5. CASE UNCHANGED vars
  BY <1>1, <1>5 DEF vars
<1> QED
  BY RunsKeepOwn, <1>2, <1>3, <1>4, <1>5 DEF Next

\* Which steps write the element rows.
LEMMA NextRowsOwn == Typed /\ OwnPids /\ [Next]_vars => RowsOwn'
<1> SUFFICES ASSUME Typed, OwnPids, [Next]_vars
             PROVE  RowsOwn'
  OBVIOUS
<1>1. ASSUME rows' = rows
      PROVE  RowsOwn'
  BY <1>1 DEF OwnPids, RowsOwn
<1>2. ASSUME NEW w \in Rows, NEW R, rows' = [rows EXCEPT ![w] = R],
             \A p \in R.ids \union R.outputs : p[2] = w
      PROVE  RowsOwn'
  BY <1>2 DEF OwnPids, RowsOwn, Typed
<1>3. ASSUME NEW r \in Runs, InsertElement(r)
      PROVE  RowsOwn'
  <2>1. CurrentRow(r) \in Rows
    BY <1>3, CurrentRowTyped DEF InsertElement, At, Typed, GoodRun, HasWork
  <2>2. \A w \in Rows : rows'[w].ids = rows[w].ids /\ rows'[w].outputs = rows[w].outputs
    BY <1>3, <2>1 DEF InsertElement, Typed, RowRecord
  <2> QED
    BY <2>2 DEF OwnPids, RowsOwn
<1>4. ASSUME NEW r \in Runs, ElementFired(r)
      PROVE  RowsOwn'
  <2>1. CurrentRow(r) \in Rows
    BY <1>4, CurrentRowTyped DEF ElementFired, At, Typed, GoodRun, HasWork
  <2>2. \/ rows' = rows
        \/ rows' = [rows EXCEPT ![CurrentRow(r)].ids = run[r].elem]
    BY <1>4 DEF ElementFired
  <2>3. \A p \in run[r].elem : p[2] = CurrentRow(r)
    BY DEF OwnPids, RunsOwn
  <2> QED
    BY <1>1, <2>1, <2>2, <2>3 DEF OwnPids, RowsOwn, Typed, RowRecord
<1>5. ASSUME NEW r \in Runs, PurgeElements(r)
      PROVE  RowsOwn'
  BY <1>5 DEF PurgeElements, OwnPids, RowsOwn
<1>6. ASSUME NEW r \in Runs, RewriteElement(r)
      PROVE  RowsOwn'
  <2> DEFINE w == CurrentRow(r)
             mine == {p \in run[r].started : p[2] = w}
             R == [rows[w] EXCEPT !.ids = mine, !.outputs = {}]
  <2>1. w \in Rows
    BY <1>6, CurrentRowTyped DEF RewriteElement, At, Typed, GoodRun, HasWork
  <2>2. rows' = rows \/ rows' = [rows EXCEPT ![w] = R]
    BY <1>6 DEF RewriteElement
  <2>3. \A p \in mine : p[2] = w
    OBVIOUS
  <2> HIDE DEF w, mine
  <2>4. R.ids = mine /\ R.outputs = {}
    BY <2>1 DEF Typed, RowRecord
  <2> HIDE DEF R
  <2> QED
    BY <1>1, <1>2, <2>1, <2>2, <2>3, <2>4
<1>7. ASSUME NEW x \in Procs, SettleRecordsOutputs(x)
      PROVE  RowsOwn'
  <2> DEFINE w == FirstOf(settle[x].left)
             source == settle[x].snap[w]
  <2>1. w \in Rows
    BY <1>7, FirstOfMember DEF SettleRecordsOutputs, Typed, GoodSettle, SettleRecord
  <2>2. rows' = rows \/ rows' = [rows EXCEPT ![w].outputs = source]
    BY <1>7 DEF SettleRecordsOutputs
  <2>3. \A p \in source : p[2] = w
    BY <2>1 DEF OwnPids, SnapsOwn
  <2> HIDE DEF w, source
  <2> QED
    BY <1>1, <2>1, <2>2, <2>3 DEF OwnPids, RowsOwn, Typed, RowRecord
<1>8. ASSUME NEW r \in Runs, RunStep(r)
      PROVE  RowsOwn'
  BY <1>1, <1>3, <1>4, <1>5, <1>6, <1>8
  DEF RunStep, ApproveDeploysNow, ApproveWaits, BeginOrderTriggerRun, RetrySiblings, TriggerStarts,
      TriggerFails, RecordOrderPipelineId, ClearOrderTriggerRun, ReleaseRetryClaim,
      FinishOrderTriggerRun, UndoClaim, AnythingStarted, Requeue
<1>9. ASSUME NEW r \in Runs, Claims(r) \/ RunFaults(r)
      PROVE  RowsOwn'
  BY <1>1, <1>9 DEF Claims, PlaceDirect, ApproveClaim, WindowClaim, RetryClaim, RunFaults,
     ApproveCannotDecide, ApproveAbandoned, RecordLost, ElementThrows, RunThrows, RunDies
<1>10. ASSUME NEW h \in Handlers, HandlerStep(h) \/ HandlerDies(h)
       PROVE  RowsOwn'
  BY <1>1, <1>10 DEF HandlerStep, CallbackArrives, CallbackRepeated, MergeSuccessEvent,
     MergeFailureEvent, HandlerDies
<1>11. ASSUME NEW x \in Procs,
              SettleReads(x) \/ SettleSwaps(x) \/ SettleThrows(x) \/ CompletionUnaudited(x)
       PROVE  RowsOwn'
  BY <1>1, <1>11 DEF SettleReads, SettleSwaps, SettleThrows, CompletionUnaudited
<1>12. CASE PlacePending \/ RejectOrder \/ CallbackLost \/ WriteOffReads \/ WriteOffWrites
  BY <1>1, <1>12 DEF PlacePending, RejectOrder, CallbackLost, WriteOffReads, WriteOffWrites
<1>13. CASE UNCHANGED vars
  BY <1>1, <1>13 DEF vars
<1> QED
  BY <1>7, <1>8, <1>9, <1>10, <1>11, <1>12, <1>13 DEF Next, SettleStep

\* Which steps write a process's snapshot of the rows.
LEMMA NextSnapsOwn == Typed /\ OwnPids /\ [Next]_vars => SnapsOwn'
<1> SUFFICES ASSUME Typed, OwnPids, [Next]_vars
             PROVE  SnapsOwn'
  OBVIOUS
<1>1. ASSUME settle' = settle
      PROVE  SnapsOwn'
  BY <1>1 DEF OwnPids, SnapsOwn
<1>2. ASSUME NEW x \in Procs, NEW S, settle' = [settle EXCEPT ![x] = S],
             \A w \in Rows : \A p \in S.snap[w] : p[2] = w
      PROVE  SnapsOwn'
  BY <1>2 DEF OwnPids, SnapsOwn, Typed
<1>3. \A w \in Rows : NotSettling.snap[w] = {}
  BY DEF NotSettling
<1>4. \A t : \A w \in Rows : Settling(t).snap[w] = {}
  BY <1>3 DEF Settling, NotSettling
<1>5. ASSUME NEW r \in Runs, FinishOrderTriggerRun(r) \/ RunDies(r)
      PROVE  SnapsOwn'
  <2>1. r \in Procs
    BY DEF Procs
  <2>2. CASE FinishOrderTriggerRun(r)
    BY <1>2, <1>4, <2>1, <2>2 DEF FinishOrderTriggerRun
  <2>3. CASE RunDies(r)
    BY <1>2, <1>3, <2>1, <2>3 DEF RunDies
  <2> QED
    BY <1>5, <2>2, <2>3
<1>6. ASSUME NEW h \in Handlers, MergeSuccessEvent(h) \/ HandlerDies(h)
      PROVE  SnapsOwn'
  BY <1>1, <1>2, <1>3, <1>4, <1>6 DEF MergeSuccessEvent, HandlerDies, Procs
<1>7. ASSUME NEW x \in Procs, SettleReads(x)
      PROVE  SnapsOwn'
  <2> DEFINE snap == [w \in Rows |-> rows[w].ids]
             next == IF Existing = {} THEN "swap" ELSE "write"
             S == [settle[x] EXCEPT !.pc = next, !.left = Existing, !.snap = snap]
  <2>1. settle' = [settle EXCEPT ![x] = S]
    BY <1>7 DEF SettleReads
  <2>2. \A w \in Rows : \A p \in snap[w] : p[2] = w
    BY DEF OwnPids, RowsOwn
  <2> HIDE DEF snap, next
  <2>3. S.snap = snap
    BY DEF Typed, GoodSettle, SettleRecord
  <2> HIDE DEF S
  <2> QED
    BY <1>2, <2>1, <2>2, <2>3
<1>8. ASSUME NEW x \in Procs, SettleRecordsOutputs(x)
      PROVE  SnapsOwn'
  <2> DEFINE left == settle[x].left \ {FirstOf(settle[x].left)}
             next == IF left = {} THEN "swap" ELSE "write"
             S == [settle[x] EXCEPT !.left = left, !.pc = next]
  <2>1. settle' = [settle EXCEPT ![x] = S]
    BY <1>8 DEF SettleRecordsOutputs
  <2> HIDE DEF left, next
  <2>2. S.snap = settle[x].snap
    BY DEF Typed, GoodSettle, SettleRecord
  <2> HIDE DEF S
  <2> QED
    BY <1>2, <2>1, <2>2 DEF OwnPids, SnapsOwn
<1>9. ASSUME NEW x \in Procs, SettleSwaps(x) \/ SettleThrows(x) \/ CompletionUnaudited(x)
      PROVE  SnapsOwn'
  BY <1>2, <1>3, <1>9 DEF SettleSwaps, SettleThrows, CompletionUnaudited, LeaveSettling
<1>10. ASSUME NEW r \in Runs, Claims(r) \/ RunStep(r) \/ RunFaults(r)
       PROVE  SnapsOwn'
  BY <1>1, <1>5, <1>10
  DEF Claims, PlaceDirect, ApproveClaim, WindowClaim, RetryClaim, RunStep, ApproveDeploysNow,
      ApproveWaits, BeginOrderTriggerRun, InsertElement, RetrySiblings, TriggerStarts, TriggerFails,
      RecordOrderPipelineId, ElementFired, PurgeElements, ClearOrderTriggerRun, ReleaseRetryClaim,
      RewriteElement, UndoClaim, AnythingStarted, Requeue, RunFaults, ApproveCannotDecide,
      ApproveAbandoned, RecordLost, ElementThrows, RunThrows, procVars
<1>11. ASSUME NEW h \in Handlers, HandlerStep(h)
       PROVE  SnapsOwn'
  BY <1>1, <1>6, <1>11 DEF HandlerStep, CallbackArrives, CallbackRepeated, MergeFailureEvent
<1>12. CASE PlacePending \/ RejectOrder \/ CallbackLost \/ WriteOffReads \/ WriteOffWrites
  BY <1>1, <1>12 DEF PlacePending, RejectOrder, CallbackLost, WriteOffReads, WriteOffWrites, procVars
<1>13. CASE UNCHANGED vars
  BY <1>1, <1>13 DEF vars, procVars
<1> QED
  BY <1>6, <1>7, <1>8, <1>9, <1>10, <1>11, <1>12, <1>13 DEF Next, SettleStep

LEMMA InitOwnPids == Init => OwnPids
  BY DEF Init, OwnPids, RowsOwn, RunsOwn, SnapsOwn, FreshRun, NotSettling

\* An element's stored outputs come from pipelines fired for that element,
\* whichever of the settling processes wrote them, however the element rows were
\* inserted, purged and rewritten meanwhile.
THEOREM OutputsAreOwn == Spec => []NoForeignOutputs
<1>1. OwnPids => NoForeignOutputs
  BY DEF OwnPids, RowsOwn, NoForeignOutputs
<1>2. Typed /\ OwnPids /\ [Next]_vars => OwnPids'
  BY NextRunsOwn, NextRowsOwn, NextSnapsOwn DEF OwnPids
<1> QED
  BY <1>1, <1>2, InitOwnPids, AlwaysTyped, PTL DEF Spec

-----------------------------------------------------------------------------
(* An order that waits is blank                                            *)

AnyFired == \E p \in Pids : ci[p] # "none"
Waits == status \in {"none", "pending", "scheduled"}

\* A run that may still hand its order back, and one that has started nothing.
Undoable(r) ==
  /\ Provisions(r)
  /\ run[r].pc \in {"decide", "begin", "insert", "fire", "record", "purge", "clear", "undo",
                    "requeue"}
Untouched(r) == run[r].started = {} /\ run[r].elem = {}
FoundEmpty == {"decide", "begin", "clear", "undo", "requeue"}

\* Nobody works on an order that waits, and nothing was made of it;
WaitingIsBlank == Waits => ~AnyFired /\ Existing = {} /\ \A r \in Runs : Over(r)
\* a run that has started nothing is alone with the rows it inserted,
UntouchedIsAlone ==
  \A r \in Runs : Undoable(r) /\ Untouched(r) =>
    /\ status = "provisioning" /\ ~AnyFired
    /\ Existing \subseteq OwnRows(r)
    /\ run[r].pc \in FoundEmpty => Existing = {}
    /\ \A q \in Runs : q # r => Over(q)
\* and only such a run gets to undo its claim.
UndoersAreUntouched ==
  \A r \in Runs :
    /\ run[r].pc \in {"decide", "begin", "purge", "clear", "undo", "requeue"} => Untouched(r)
    /\ run[r].pc = "insert" => run[r].elem = {}
    /\ Undoable(r) => run[r].todo \subseteq OwnRows(r)
    /\ run[r].pc \in {"decide", "begin", "insert", "purge", "clear", "undo", "requeue"} =>
         Provisions(r)
    /\ run[r].pc \in {"siblings", "release", "rewrite"} => ~Provisions(r)
\* Whoever may decide on the order does so because a pipeline was started,
DecisionsFollowPipelines ==
  /\ \A h \in Handlers : hnd[h] # {} => AnyFired
  /\ \A x \in Procs : settle[x].pc # "idle" => AnyFired
  /\ track.st.good # {} => AnyFired
\* or because every run has gone silent.
WriteOffIsLate ==
  writeOff => ~Waits /\ \A r \in Runs : ~Undoable(r)

WaitInv ==
  /\ WaitingIsBlank
  /\ UntouchedIsAlone
  /\ UndoersAreUntouched
  /\ DecisionsFollowPipelines
  /\ WriteOffIsLate

WaitInvUnlessFailed == faults.db = 0 => WaitInv

LEMMA WaitingBlank == WaitInvUnlessFailed => QueuedOrderIsBlank
  BY DEF WaitInvUnlessFailed, WaitInv, WaitingIsBlank, QueuedOrderIsBlank, Waits, AnyFired, Blank

\* What a started run may become for the next claim to find nothing.
Becomes(r, R) ==
  /\ R.kind = run[r].kind
  /\ R.pc \notin {"idle", "siblings"}
  /\ R.pc \in {"decide", "begin", "purge", "clear", "undo", "requeue"} =>
       R.started = {} /\ R.elem = {}
  /\ R.pc = "insert" => R.elem = {}
  /\ R.pc \in {"decide", "begin", "insert", "purge", "clear", "undo", "requeue"} => Provisions(r)
  /\ R.pc \in {"release", "rewrite"} => ~Provisions(r)
  /\ Undoable(r)' => Undoable(r) /\ R.todo \subseteq OwnRows(r)

\* A step of one run that is under way.
LEMMA RunGoesOn ==
  ASSUME Typed, WaitInv, NEW r \in Runs, ~Over(r), NEW R, run' = [run EXCEPT ![r] = R],
         Becomes(r, R), writeOff' = writeOff, hnd' = hnd,
         AnyFired => AnyFired',
         Waits' => /\ R.pc = "done" /\ ~AnyFired' /\ Existing' = {} /\ ~writeOff
                   /\ \A q \in Runs : q # r => Over(q),
         Undoable(r)' /\ Untouched(r)' =>
           /\ status' = "provisioning" /\ ~AnyFired'
           /\ Existing' \subseteq OwnRows(r)
           /\ R.pc \in FoundEmpty => Existing' = {}
           /\ \A q \in Runs : q # r => Over(q),
         \A x \in Procs : settle'[x].pc # "idle" => AnyFired',
         track'.st.good # {} => AnyFired'
  PROVE  WaitInv'
<1>1. run'[r] = R /\ \A q \in Runs : q # r => run'[q] = run[q]
  BY DEF Typed
<1>2. WaitingIsBlank'
  BY <1>1 DEF WaitingIsBlank, Over
<1>3. UntouchedIsAlone'
  <2>1. \A q \in Runs : q # r => ~(Undoable(q)' /\ Untouched(q)')
    BY <1>1 DEF WaitInv, UntouchedIsAlone, Undoable, Untouched, Provisions
  <2>2. \A q \in Runs : q # r => (Over(q)' <=> Over(q))
    BY <1>1 DEF Over
  <2> QED
    BY <1>1, <2>1, <2>2 DEF UntouchedIsAlone
<1>4. UndoersAreUntouched'
  <2> SUFFICES ASSUME NEW q \in Runs
               PROVE  /\ run'[q].pc \in {"decide", "begin", "purge", "clear", "undo", "requeue"} =>
                           Untouched(q)'
                      /\ run'[q].pc = "insert" => run'[q].elem = {}
                      /\ Undoable(q)' => run'[q].todo \subseteq OwnRows(q)
                      /\ run'[q].pc \in {"decide", "begin", "insert", "purge", "clear", "undo",
                                         "requeue"} => Provisions(q)'
                      /\ run'[q].pc \in {"siblings", "release", "rewrite"} => ~Provisions(q)'
    BY DEF UndoersAreUntouched
  <2>1. CASE q = r
    BY <1>1, <2>1 DEF Becomes, Untouched, Provisions
  <2>2. CASE q # r
    BY <1>1, <2>2 DEF WaitInv, UndoersAreUntouched, Undoable, Untouched, Provisions
  <2> QED
    BY <2>1, <2>2
<1>5. DecisionsFollowPipelines'
  BY DEF WaitInv, DecisionsFollowPipelines
<1>6. WriteOffIsLate'
  <2> SUFFICES ASSUME writeOff PROVE ~Waits' /\ \A q \in Runs : ~Undoable(q)'
    BY DEF WriteOffIsLate
  <2>1. \A q \in Runs : ~Undoable(q)
    BY DEF WaitInv, WriteOffIsLate
  <2>2. ~Undoable(r)'
    BY <2>1 DEF Becomes
  <2> QED
    BY <1>1, <2>1, <2>2 DEF Undoable, Provisions
<1> QED
  BY <1>2, <1>3, <1>4, <1>5, <1>6 DEF WaitInv

\* A step that moves no run and makes no row.
LEMMA RunsRest ==
  ASSUME WaitInv, run' = run, Existing' = Existing,
         AnyFired' <=> AnyFired,
         status' = status \/ (~Waits' /\ AnyFired) \/ (~Waits' /\ \A r \in Runs : ~Undoable(r))
           \/ (status = "none" /\ status' = "pending") \/ (Waits /\ ~Waits'),
         \A h \in Handlers : hnd'[h] # {} => AnyFired,
         \A x \in Procs : settle'[x].pc # "idle" => AnyFired,
         track'.st.good # {} => AnyFired,
         writeOff' => writeOff \/ \A r \in Runs : ~Undoable(r),
         writeOff' => ~Waits'
  PROVE  WaitInv'
<1>1. WaitingIsBlank'
  BY DEF WaitInv, WaitingIsBlank, Over, Waits
<1>2. UntouchedIsAlone'
  <2>1. \A r \in Runs : Undoable(r)' <=> Undoable(r)
    BY DEF Undoable, Provisions
  <2>2. \A r \in Runs : Untouched(r)' <=> Untouched(r)
    BY DEF Untouched
  <2>3. \A r \in Runs : Undoable(r) => ~Over(r)
    BY DEF Undoable, Over
  <2>4. \A r \in Runs : Over(r)' <=> Over(r)
    BY DEF Over
  <2> SUFFICES ASSUME NEW r \in Runs, Undoable(r), Untouched(r)
               PROVE  /\ status' = "provisioning" /\ ~AnyFired'
                      /\ Existing' \subseteq OwnRows(r)
                      /\ run'[r].pc \in FoundEmpty => Existing' = {}
                      /\ \A q \in Runs : q # r => Over(q)'
    BY <2>1, <2>2 DEF UntouchedIsAlone
  <2>5. ~AnyFired /\ status = "provisioning"
    BY DEF WaitInv, UntouchedIsAlone
  <2> QED
    BY <2>4, <2>5 DEF WaitInv, UntouchedIsAlone, Waits
<1>3. UndoersAreUntouched'
  BY DEF WaitInv, UndoersAreUntouched, Undoable, Untouched, Provisions
<1>4. DecisionsFollowPipelines'
  BY DEF DecisionsFollowPipelines
<1>5. WriteOffIsLate'
  BY DEF WaitInv, WriteOffIsLate, Undoable, Provisions
<1> QED
  BY <1>1, <1>2, <1>3, <1>4, <1>5 DEF WaitInv

\* A run that starts on an order that waits, or retries a failed one.
LEMMA RunStarts ==
  ASSUME Typed, WaitInv, NEW r \in Runs, Claims(r)
  PROVE  WaitInv'
<1>0. PICK kind, pc, elems :
        /\ Starting(r, kind, pc, elems)
        /\ \/ Waits /\ pc \in {"decide", "begin"} /\ elems = OwnRows(r)
                /\ kind \in {"direct", "approve", "window"} /\ track' = track
           \/ status = "failed" /\ pc = "siblings" /\ kind = "retry" /\ track' = Opened
        /\ status' = "provisioning"
        /\ UNCHANGED <<rows, ci, procVars>>
  <2>1. CASE PlaceDirect(r) \/ ApproveClaim(r) \/ WindowClaim(r)
    BY <2>1 DEF PlaceDirect, ApproveClaim, WindowClaim, Waits
  <2>2. CASE RetryClaim(r)
    BY <2>2 DEF RetryClaim
  <2> QED
    BY <2>1, <2>2 DEF Claims
<1>1. /\ run'[r].pc = pc /\ run'[r].kind = kind /\ run'[r].todo = elems
      /\ run'[r].started = {} /\ run'[r].elem = {}
      /\ \A q \in Runs : q # r => run'[q] = run[q]
      /\ run[r].pc = "idle"
  BY <1>0 DEF Starting, IsNext, FreshRun, Typed
<1>2. AnyFired' <=> AnyFired
  BY <1>0 DEF AnyFired
<1>3. Existing' = Existing
  BY <1>0 DEF Existing
<1>4. WaitingIsBlank'
  BY <1>0 DEF WaitingIsBlank, Waits
<1>5. \A q \in Runs : q # r => /\ Undoable(q)' <=> Undoable(q)
                               /\ Untouched(q)' <=> Untouched(q)
                               /\ Over(q)' <=> Over(q)
  BY <1>1 DEF Undoable, Untouched, Over, Provisions
<1>6. UntouchedIsAlone'
  <2>1. CASE Waits
    <3>1. ~AnyFired /\ Existing = {} /\ \A q \in Runs : Over(q)
      BY <2>1 DEF WaitInv, WaitingIsBlank
    <3>2. \A q \in Runs : q # r => Over(q)' /\ ~Undoable(q)'
      BY <1>5, <3>1 DEF Over, Undoable
    <3> QED
      BY <1>0, <1>2, <1>3, <3>1, <3>2 DEF UntouchedIsAlone
  <2>2. CASE ~Waits
    <3>1. status = "failed" /\ ~Undoable(r)'
      BY <1>0, <1>1, <2>2 DEF Undoable, Provisions
    <3>2. \A q \in Runs : ~(Undoable(q) /\ Untouched(q))
      BY <3>1 DEF WaitInv, UntouchedIsAlone
    <3> QED
      BY <1>5, <3>1, <3>2 DEF UntouchedIsAlone
  <2> QED
    BY <2>1, <2>2
<1>7. UndoersAreUntouched'
  <2> SUFFICES ASSUME NEW q \in Runs
               PROVE  /\ run'[q].pc \in {"decide", "begin", "purge", "clear", "undo", "requeue"} =>
                           Untouched(q)'
                      /\ run'[q].pc = "insert" => run'[q].elem = {}
                      /\ Undoable(q)' => run'[q].todo \subseteq OwnRows(q)
                      /\ run'[q].pc \in {"decide", "begin", "insert", "purge", "clear", "undo",
                                         "requeue"} => Provisions(q)'
                      /\ run'[q].pc \in {"siblings", "release", "rewrite"} => ~Provisions(q)'
    BY DEF UndoersAreUntouched
  <2>1. CASE q = r
    BY <1>0, <1>1, <2>1 DEF Untouched, Provisions, Undoable
  <2>2. CASE q # r
    BY <1>1, <2>2 DEF WaitInv, UndoersAreUntouched, Undoable, Untouched, Provisions
  <2> QED
    BY <2>1, <2>2
<1>8. DecisionsFollowPipelines'
  BY <1>0, <1>2 DEF WaitInv, DecisionsFollowPipelines, procVars, Opened, NoStatus
<1>9. WriteOffIsLate'
  <2> SUFFICES ASSUME writeOff PROVE ~Waits' /\ \A q \in Runs : ~Undoable(q)'
    BY <1>0 DEF WriteOffIsLate, procVars
  <2>1. ~Waits /\ \A q \in Runs : ~Undoable(q)
    BY DEF WaitInv, WriteOffIsLate
  <2>2. ~Undoable(r)'
    BY <1>0, <1>1, <2>1 DEF Undoable, Provisions
  <2> QED
    BY <1>0, <1>5, <2>1, <2>2 DEF Waits
<1> QED
  BY <1>4, <1>6, <1>7, <1>8, <1>9 DEF WaitInv

LEMMA RunStepsWait ==
  ASSUME Typed, WaitInv, NEW r \in Runs, RunStep(r)
  PROVE  WaitInv'
<1>0. /\ run[r] \in RunRecord /\ HasWork(run[r]) /\ run[r].pc \in RunPcs
      /\ (run[r].pc # "idle" /\ run[r].pc # "done" => ~Over(r))
  BY DEF Typed, GoodRun, RunRecord, Over
<1>1. /\ \A x \in Procs : settle[x].pc # "idle" => AnyFired
      /\ track.st.good # {} => AnyFired
  BY DEF WaitInv, DecisionsFollowPipelines
<1>2. UNCHANGED ci => (AnyFired' <=> AnyFired)
  BY DEF AnyFired
<1>3. UNCHANGED rows => Existing' = Existing
  BY DEF Existing
<1>4. ~Over(r) => ~Waits
  BY DEF WaitInv, WaitingIsBlank
<1>5. Undoable(r) /\ Untouched(r) =>
        /\ status = "provisioning" /\ ~AnyFired /\ Existing \subseteq OwnRows(r)
        /\ run[r].pc \in FoundEmpty => Existing = {}
        /\ \A q \in Runs : q # r => Over(q)
        /\ ~writeOff
  BY DEF WaitInv, UntouchedIsAlone, WriteOffIsLate
<1>6. /\ run[r].pc \in {"decide", "begin", "purge", "clear", "undo", "requeue"} =>
           Untouched(r) /\ Undoable(r)
      /\ run[r].pc = "insert" => run[r].elem = {} /\ Undoable(r)
      /\ Undoable(r) => run[r].todo \subseteq OwnRows(r)
      /\ run[r].pc \in {"siblings", "release", "rewrite"} => ~Provisions(r)
  BY DEF WaitInv, UndoersAreUntouched, Undoable
<1>7. ASSUME NEW R, run' = [run EXCEPT ![r] = R], R.kind = run[r].kind
      PROVE  /\ Undoable(r)' <=> Provisions(r) /\ R.pc \in {"decide", "begin", "insert", "fire",
                                     "record", "purge", "clear", "undo", "requeue"}
             /\ Untouched(r)' <=> R.started = {} /\ R.elem = {}
  BY <1>7 DEF Typed, Undoable, Untouched, Provisions
\* A step of the run that leaves the order and its rows alone.
<1>8. ASSUME NEW R, run' = [run EXCEPT ![r] = R], ~Over(r), Becomes(r, R),
             UNCHANGED <<status, rows, ci, hnd, settle, writeOff>>,
             track'.st.good # {} => track.st.good # {},
             R.started = {} /\ R.elem = {} => Untouched(r),
             Provisions(r) /\ R.pc \in FoundEmpty => run[r].pc \in FoundEmpty
      PROVE  WaitInv'
  <2>1. ~Waits'
    BY <1>4, <1>8 DEF Waits
  <2>2. Undoable(r)' /\ Untouched(r)' => Undoable(r) /\ Untouched(r)
    BY <1>7, <1>8 DEF Becomes
  <2>3. Undoable(r)' => Provisions(r)
    BY <1>7, <1>8 DEF Becomes
  <2> QED
    BY <1>1, <1>2, <1>3, <1>5, <1>8, <2>1, <2>2, <2>3, RunGoesOn
<1>9. CASE ApproveDeploysNow(r)
  <2> DEFINE R == [run[r] EXCEPT !.pc = "begin"]
  <2>1. run' = [run EXCEPT ![r] = R] /\ run[r].pc = "decide"
    BY <1>9 DEF ApproveDeploysNow, Goto, At
  <2>2. /\ R.pc = "begin" /\ R.kind = run[r].kind /\ R.todo = run[r].todo
        /\ R.started = run[r].started /\ R.elem = run[r].elem
    BY <1>0 DEF RunRecord
  <2> HIDE DEF R
  <2>3. Becomes(r, R)
    BY <1>6, <1>7, <2>1, <2>2 DEF Becomes, Untouched, Undoable
  <2> QED
    BY <1>0, <1>8, <1>9, <2>1, <2>2, <2>3
    DEF ApproveDeploysNow, orderVars, procVars, Untouched, FoundEmpty
<1>10. CASE BeginOrderTriggerRun(r)
  <2> DEFINE R == [run[r] EXCEPT !.pc = "insert"]
  <2>1. run' = [run EXCEPT ![r] = R] /\ run[r].pc = "begin"
    BY <1>10 DEF BeginOrderTriggerRun, Goto, At
  <2>2. /\ R.pc = "insert" /\ R.kind = run[r].kind /\ R.todo = run[r].todo
        /\ R.started = run[r].started /\ R.elem = run[r].elem
    BY <1>0 DEF RunRecord
  <2> HIDE DEF R
  <2>3. Becomes(r, R)
    BY <1>6, <1>7, <2>1, <2>2 DEF Becomes, Untouched, Undoable
  <2>4. track'.st.good # {} => track.st.good # {}
    BY <1>10 DEF BeginOrderTriggerRun, Opened, NoStatus
  <2> QED
    BY <1>0, <1>8, <1>10, <2>1, <2>2, <2>3, <2>4
    DEF BeginOrderTriggerRun, procVars, Untouched, FoundEmpty
<1>11. CASE RetrySiblings(r)
  <2>1. PICK covered : run' = [run EXCEPT ![r] = [@ EXCEPT !.pc = "fire", !.elems = covered,
                                                   !.todo = covered]]
    BY <1>11 DEF RetrySiblings
  <2> DEFINE R == [run[r] EXCEPT !.pc = "fire", !.elems = covered, !.todo = covered]
  <2>2. run' = [run EXCEPT ![r] = R] /\ run[r].pc = "siblings"
    BY <1>11, <2>1 DEF RetrySiblings, At
  <2>3. /\ R.pc = "fire" /\ R.kind = run[r].kind
        /\ R.started = run[r].started /\ R.elem = run[r].elem
    BY <1>0 DEF RunRecord
  <2> HIDE DEF R
  <2>4. Becomes(r, R)
    BY <1>6, <1>7, <2>2, <2>3 DEF Becomes
  <2> QED
    BY <1>0, <1>8, <1>11, <2>2, <2>3, <2>4
    DEF RetrySiblings, orderVars, procVars, Untouched, FoundEmpty
<1>12. CASE TriggerFails(r)
  <2> DEFINE R == [run[r] EXCEPT !.k = run[r].k + 1, !.missed = TRUE]
  <2>1. run' = [run EXCEPT ![r] = R] /\ run[r].pc = "fire"
    BY <1>12 DEF TriggerFails, At
  <2>2. /\ R.pc = "fire" /\ R.kind = run[r].kind /\ R.todo = run[r].todo
        /\ R.started = run[r].started /\ R.elem = run[r].elem
    BY <1>0, <2>1 DEF RunRecord
  <2> HIDE DEF R
  <2>3. Becomes(r, R)
    BY <1>6, <1>7, <2>1, <2>2 DEF Becomes, Undoable
  <2> QED
    BY <1>0, <1>8, <1>12, <2>1, <2>2, <2>3
    DEF TriggerFails, orderVars, procVars, Untouched, FoundEmpty
<1>13. CASE RecordOrderPipelineId(r)
  <2> DEFINE R == [run[r] EXCEPT !.pc = "fire", !.k = run[r].k + 1]
  <2>1. run' = [run EXCEPT ![r] = R] /\ run[r].pc = "record"
    BY <1>13 DEF RecordOrderPipelineId, At
  <2>2. /\ R.pc = "fire" /\ R.kind = run[r].kind /\ R.todo = run[r].todo
        /\ R.started = run[r].started /\ R.elem = run[r].elem
    BY <1>0 DEF RunRecord
  <2> HIDE DEF R
  <2>3. Becomes(r, R)
    BY <1>6, <1>7, <2>1, <2>2 DEF Becomes, Undoable
  <2>4. track'.st = track.st
    BY <1>13 DEF RecordOrderPipelineId, AppendOne, Typed, TrackingOf
  <2> QED
    BY <1>0, <1>8, <1>13, <2>1, <2>2, <2>3, <2>4
    DEF RecordOrderPipelineId, procVars, Untouched, FoundEmpty
<1>14. CASE AnythingStarted(r)
  <2> DEFINE pc == IF track.ids = {} THEN "requeue" ELSE "done"
             R == [run[r] EXCEPT !.pc = pc]
  <2>1. run' = [run EXCEPT ![r] = R] /\ run[r].pc = "undo"
    BY <1>14 DEF AnythingStarted, Goto, At
  <2>2. /\ R.pc \in {"requeue", "done"} /\ R.kind = run[r].kind /\ R.todo = run[r].todo
        /\ R.started = run[r].started /\ R.elem = run[r].elem
    BY <1>0 DEF RunRecord
  <2> HIDE DEF R
  <2>3. Becomes(r, R)
    BY <1>6, <1>7, <2>1, <2>2 DEF Becomes, Untouched, Undoable
  <2> QED
    BY <1>0, <1>8, <1>14, <2>1, <2>2, <2>3
    DEF AnythingStarted, orderVars, procVars, Untouched, FoundEmpty
<1>15. CASE ClearOrderTriggerRun(r)
  <2> DEFINE R == [run[r] EXCEPT !.pc = "undo"]
  <2>1. run' = [run EXCEPT ![r] = R] /\ run[r].pc = "clear"
    BY <1>15 DEF ClearOrderTriggerRun, Goto, At
  <2>2. /\ R.pc = "undo" /\ R.kind = run[r].kind /\ R.todo = run[r].todo
        /\ R.started = run[r].started /\ R.elem = run[r].elem
    BY <1>0 DEF RunRecord
  <2> HIDE DEF R
  <2>3. Becomes(r, R)
    BY <1>6, <1>7, <2>1, <2>2 DEF Becomes, Untouched, Undoable
  <2>4. track'.st.good = {}
    BY <1>15 DEF ClearOrderTriggerRun, Cleared, NoStatus
  <2> QED
    BY <1>0, <1>8, <1>15, <2>1, <2>2, <2>3, <2>4
    DEF ClearOrderTriggerRun, procVars, Untouched, FoundEmpty
<1>16. CASE RewriteElement(r)
  <2>1. PICK todo, pc : /\ run' = [run EXCEPT ![r] = [@ EXCEPT !.todo = todo, !.pc = pc]]
                        /\ pc \in {"close", "rewrite"}
    BY <1>16 DEF RewriteElement
  <2> DEFINE R == [run[r] EXCEPT !.todo = todo, !.pc = pc]
  <2>2. run' = [run EXCEPT ![r] = R] /\ run[r].pc = "rewrite"
    BY <1>16, <2>1 DEF RewriteElement, At
  <2>3. R.pc \in {"close", "rewrite"} /\ R.kind = run[r].kind
    BY <1>0, <2>1 DEF RunRecord
  <2> HIDE DEF R
  <2>4. ~Undoable(r)' /\ Becomes(r, R)
    BY <1>6, <1>7, <2>2, <2>3 DEF Becomes
  <2>5. ~Over(r) /\ ~Waits' /\ UNCHANGED <<track, ci, hnd, settle, writeOff>>
    BY <1>0, <1>4, <1>16, <2>2 DEF RewriteElement, orderVars, procVars, Waits
  <2> QED
    BY <1>1, <1>2, <2>2, <2>4, <2>5, RunGoesOn
<1>17. CASE InsertElement(r)
  <2> DEFINE R == [run[r] EXCEPT !.pc = "fire", !.k = 1, !.elem = {}]
  <2>1. run' = [run EXCEPT ![r] = R] /\ run[r].pc = "insert"
    BY <1>17 DEF InsertElement, At
  <2>2. /\ R.pc = "fire" /\ R.kind = run[r].kind /\ R.todo = run[r].todo
        /\ R.started = run[r].started /\ R.elem = {}
    BY <1>0 DEF RunRecord
  <2> HIDE DEF R
  <2>3. Becomes(r, R)
    BY <1>6, <1>7, <2>1, <2>2 DEF Becomes, Undoable
  <2>4. CurrentRow(r) \in OwnRows(r)
    BY <1>0, <1>6, <2>1, CurrentRowTyped DEF HasWork
  <2>5. Existing' \subseteq Existing \union {CurrentRow(r)}
    BY <1>17 DEF InsertElement, Existing, Typed
  <2>6. ~Over(r) /\ ~Waits' /\ UNCHANGED <<status, track, ci, hnd, settle, writeOff>>
    BY <1>0, <1>4, <1>17, <2>1 DEF InsertElement, orderVars, procVars, Waits
  <2>7. Untouched(r)' => Untouched(r) /\ Undoable(r)
    BY <1>6, <1>7, <2>1, <2>2 DEF Untouched
  <2>8. R.pc \notin FoundEmpty
    BY <2>2 DEF FoundEmpty
  <2> QED
    BY <1>1, <1>2, <1>5, <2>1, <2>3, <2>4, <2>5, <2>6, <2>7, <2>8, RunGoesOn
<1>18. CASE TriggerStarts(r)
  <2>1. run[r].pc = "fire" /\ run[r].k <= LastTrigger
    BY <1>18 DEF TriggerStarts, At
  <2>2. CurrentPid(r) \in Pids
    BY <1>0, <2>1, CurrentPidTyped DEF HasWork
  <2> DEFINE R == [run[r] EXCEPT !.pc = "record", !.elem = run[r].elem \union {CurrentPid(r)}]
  <2>3. run' = [run EXCEPT ![r] = R] /\ ci' = [ci EXCEPT ![CurrentPid(r)] = "running"]
    BY <1>18 DEF TriggerStarts
  <2>4. /\ R.pc = "record" /\ R.kind = run[r].kind /\ R.todo = run[r].todo
        /\ R.elem # {}
    BY <1>0 DEF RunRecord
  <2> HIDE DEF R
  <2>5. AnyFired'
    BY <2>2, <2>3 DEF AnyFired, Typed
  <2>6. Becomes(r, R) /\ ~Untouched(r)'
    BY <1>6, <1>7, <2>1, <2>3, <2>4 DEF Becomes, Undoable
  <2>7. ~Over(r) /\ ~Waits' /\ UNCHANGED <<status, track, hnd, settle, writeOff>>
    BY <1>0, <1>4, <1>18, <2>1 DEF TriggerStarts, orderVars, procVars, Waits
  <2> QED
    BY <2>3, <2>5, <2>6, <2>7, RunGoesOn
<1>19. CASE ElementFired(r)
  <2> DEFINE started == run[r].started \union run[r].elem
             pc == AfterElement(r, started)
             todo == IF pc = "rewrite" THEN run[r].elems ELSE run[r].todo \ {CurrentRow(r)}
             R == [run[r] EXCEPT !.pc = pc, !.started = started, !.k = 1, !.elem = {},
                                 !.todo = todo]
  <2>1. run' = [run EXCEPT ![r] = R] /\ run[r].pc = "fire"
    BY <1>19 DEF ElementFired, At
  <2>2. /\ Provisions(r) => pc \in {"insert", "purge", "close"}
        /\ ~Provisions(r) => pc \in {"fire", "release", "rewrite"}
        /\ pc = "purge" => started = {}
    BY DEF AfterElement
  <2>3. Provisions(r) => todo \subseteq run[r].todo
    BY <2>2
  <2> HIDE DEF pc, todo
  <2>4. /\ R.pc = pc /\ R.kind = run[r].kind /\ R.todo = todo
        /\ R.started = started /\ R.elem = {}
    BY <1>0 DEF RunRecord
  <2> HIDE DEF R
  <2>5. Becomes(r, R)
    BY <1>6, <1>7, <2>1, <2>2, <2>3, <2>4 DEF Becomes, Undoable
  <2>6. Existing' = Existing
    BY <1>19 DEF ElementFired, Existing, Typed, RowRecord
  <2>7. ~Over(r) /\ ~Waits' /\ UNCHANGED <<status, track, ci, hnd, settle, writeOff>>
    BY <1>0, <1>4, <1>19, <2>1 DEF ElementFired, orderVars, procVars, Waits
  <2>8. Undoable(r)' /\ Untouched(r)' => Undoable(r) /\ Untouched(r)
    BY <1>7, <2>1, <2>4, <2>5 DEF Becomes, Untouched
  <2>9. Provisions(r) => R.pc \notin FoundEmpty
    BY <2>2, <2>4 DEF FoundEmpty
  <2>10. Undoable(r)' => Provisions(r)
    BY <1>7, <2>1, <2>4
  <2> QED
    BY <1>1, <1>2, <1>5, <2>1, <2>5, <2>6, <2>7, <2>8, <2>9, <2>10, RunGoesOn
<1>20. CASE PurgeElements(r)
  <2> DEFINE R == [run[r] EXCEPT !.pc = "clear"]
  <2>1. run' = [run EXCEPT ![r] = R] /\ run[r].pc = "purge"
    BY <1>20 DEF PurgeElements, Goto, At
  <2>2. /\ R.pc = "clear" /\ R.kind = run[r].kind /\ R.todo = run[r].todo
        /\ R.started = run[r].started /\ R.elem = run[r].elem
    BY <1>0 DEF RunRecord
  <2> HIDE DEF R
  <2>3. Becomes(r, R)
    BY <1>6, <1>7, <2>1, <2>2 DEF Becomes, Untouched, Undoable
  <2>4. Existing \subseteq OwnRows(r) => Existing' = {}
    BY <1>20 DEF PurgeElements, Existing
  <2>5. ~Over(r) /\ ~Waits' /\ UNCHANGED <<status, track, ci, hnd, settle, writeOff>>
    BY <1>0, <1>4, <1>20, <2>1 DEF PurgeElements, orderVars, procVars, Waits
  <2>6. Undoable(r) /\ Untouched(r)
    BY <1>6, <2>1
  <2> QED
    BY <1>1, <1>2, <1>5, <2>1, <2>3, <2>4, <2>5, <2>6, RunGoesOn
<1>21. ASSUME Goto(r, "done"), ~Over(r), UNCHANGED <<rows, ci, hnd, settle, writeOff>>,
              track'.st.good # {} => track.st.good # {},
              ~Waits' \/ (Undoable(r) /\ Untouched(r) /\ run[r].pc \in FoundEmpty)
       PROVE  WaitInv'
  <2> DEFINE R == [run[r] EXCEPT !.pc = "done"]
  <2>1. run' = [run EXCEPT ![r] = R]
    BY <1>21 DEF Goto
  <2>2. R.pc = "done" /\ R.kind = run[r].kind
    BY <1>0 DEF RunRecord
  <2> HIDE DEF R
  <2>3. ~Undoable(r)' /\ Becomes(r, R)
    BY <1>7, <2>1, <2>2 DEF Becomes
  <2> QED
    BY <1>1, <1>2, <1>3, <1>5, <1>21, <2>1, <2>2, <2>3, RunGoesOn
<1>22. CASE ApproveWaits(r) \/ Requeue(r)
  BY <1>0, <1>6, <1>21, <1>22 DEF ApproveWaits, Requeue, At, procVars, FoundEmpty
<1>23. CASE UndoClaim(r)
  BY <1>0, <1>6, <1>21, <1>23 DEF UndoClaim, At, procVars, FoundEmpty
<1>24. CASE ReleaseRetryClaim(r)
  <2>1. track'.st.good = {} /\ ~Waits'
    BY <1>24 DEF ReleaseRetryClaim, Cleared, NoStatus, Waits
  <2> QED
    BY <1>0, <1>21, <1>24, <2>1 DEF ReleaseRetryClaim, At, procVars
<1>25. CASE FinishOrderTriggerRun(r)
  <2> DEFINE t == Closed(track, run[r].started, run[r].missed)
             pc == IF IsSettled(t) THEN "settling" ELSE "done"
             R == [run[r] EXCEPT !.pc = pc]
  <2>1. /\ run' = [run EXCEPT ![r] = R] /\ run[r].pc = "close"
        /\ track' = t /\ settle' = [settle EXCEPT ![r] = Settling(t)]
    BY <1>25 DEF FinishOrderTriggerRun, Goto, At
  <2>2. R.pc \in {"settling", "done"} /\ R.kind = run[r].kind
    BY <1>0 DEF RunRecord
  <2>3. t.st.good = track.st.good
    BY DEF Closed, Typed, TrackingOf, StatusMap
  <2>4. IsSettled(t) => AnyFired
    BY <1>1, <2>3 DEF IsSettled
  <2>5. Settling(t).pc # "idle" => AnyFired
    BY <2>4 DEF Settling, NotSettling
  <2> HIDE DEF t, R
  <2>6. \A x \in Procs : settle'[x].pc # "idle" => AnyFired
    BY <1>1, <2>1, <2>5 DEF Typed
  <2>7. ~Undoable(r)' /\ Becomes(r, R)
    BY <1>7, <2>1, <2>2 DEF Becomes
  <2>8. ~Over(r) /\ ~Waits' /\ UNCHANGED <<rows, ci, hnd, writeOff>>
    BY <1>0, <1>4, <1>25, <2>1 DEF FinishOrderTriggerRun, Waits
  <2> QED
    BY <1>1, <1>2, <2>1, <2>3, <2>6, <2>7, <2>8, RunGoesOn
<1> QED
  BY <1>9, <1>10, <1>11, <1>12, <1>13, <1>14, <1>15, <1>16, <1>17, <1>18, <1>19, <1>20, <1>22,
     <1>23, <1>24, <1>25 DEF RunStep

\* Only a request that dies stops a run without a failed statement.
LEMMA RunFaultsWait ==
  ASSUME Typed, WaitInv, NEW r \in Runs, RunFaults(r), faults'.db = 0
  PROVE  WaitInv'
<1>1. ~DbFault
  BY DEF DbFault, Typed
<1>2. RunDies(r)
  BY <1>1 DEF RunFaults, ApproveCannotDecide, ApproveAbandoned, RecordLost, ElementThrows, RunThrows
<1> DEFINE R == [run[r] EXCEPT !.pc = "done"]
<1>3. /\ run' = [run EXCEPT ![r] = R] /\ ~Over(r)
      /\ settle' = [settle EXCEPT ![r] = NotSettling]
      /\ UNCHANGED <<status, track, rows, ci, hnd, writeOff>>
  BY <1>2 DEF RunDies, Goto, orderVars
<1>4. R.pc = "done" /\ R.kind = run[r].kind
  BY DEF Typed, GoodRun, RunRecord
<1> HIDE DEF R
<1>5. ~Undoable(r)' /\ Becomes(r, R)
  BY <1>3, <1>4 DEF Becomes, Undoable, Typed
<1>6. /\ AnyFired' <=> AnyFired
      /\ Existing' = Existing
      /\ ~Waits'
  BY <1>3 DEF AnyFired, Existing, Waits, WaitInv, WaitingIsBlank
<1>7. /\ \A x \in Procs : settle'[x].pc # "idle" => AnyFired
      /\ track'.st.good # {} => AnyFired
  BY <1>3 DEF WaitInv, DecisionsFollowPipelines, NotSettling, Typed
<1> QED
  BY <1>3, <1>5, <1>6, <1>7, RunGoesOn

\* A handler only merges what a pipeline reported.
LEMMA HandlersWait ==
  ASSUME Typed, WaitInv, NEW h \in Handlers, HandlerStep(h) \/ HandlerDies(h)
  PROVE  WaitInv'
<1>1. /\ \A g \in Handlers : hnd[g] # {} => AnyFired
      /\ \A x \in Procs : settle[x].pc # "idle" => AnyFired
      /\ track.st.good # {} => AnyFired
      /\ writeOff => ~Waits
      /\ Waits => ~AnyFired
      /\ h \in Procs
  BY DEF WaitInv, DecisionsFollowPipelines, WriteOffIsLate, WaitingIsBlank, Procs
<1>2. UNCHANGED rows => Existing' = Existing
  BY DEF Existing
<1>3. UNCHANGED ci => (AnyFired' <=> AnyFired)
  BY DEF AnyFired
<1>4. CASE CallbackArrives(h) \/ CallbackRepeated(h)
  <2>1. /\ UNCHANGED <<status, track, rows, run, settle, writeOff>>
        /\ AnyFired /\ AnyFired'
    <3>1. CASE CallbackArrives(h)
      <4>1. PICK p \in Pids, v \in Verdicts : Verdict(p, v)
        BY <3>1 DEF CallbackArrives
      <4>2. ci[p] # "none" /\ ci'[p] # "none"
        BY <4>1 DEF Verdict, Verdicts, Typed
      <4> QED
        BY <3>1, <4>2 DEF CallbackArrives, AnyFired, orderVars
    <3>2. CASE CallbackRepeated(h)
      <4>1. PICK p \in Pids : \E v \in Posted(p) : TRUE
        BY <3>2 DEF CallbackRepeated
      <4>2. ci[p] # "none"
        BY <4>1 DEF Posted
      <4> QED
        BY <3>2, <4>2 DEF CallbackRepeated, AnyFired, orderVars
    <3> QED
      BY <1>4, <3>1, <3>2
  <2> QED
    BY <1>1, <1>2, <2>1, RunsRest DEF Waits
<1>5. CASE MergeSuccessEvent(h)
  <2>1. /\ hnd[h] # {} /\ hnd' = [hnd EXCEPT ![h] = {}]
        /\ UNCHANGED <<status, rows, ci, run, writeOff>>
    BY <1>5 DEF MergeSuccessEvent
  <2>2. AnyFired
    BY <1>1, <2>1
  <2> QED
    BY <1>1, <1>2, <1>3, <2>1, <2>2, RunsRest DEF Waits
<1>6. CASE MergeFailureEvent(h)
  <2>1. /\ hnd[h] # {}
        /\ UNCHANGED <<rows, ci, run, settle, writeOff>>
        /\ status' = status \/ status' = "failed"
    BY <1>6 DEF MergeFailureEvent, orderVars
  <2>2. AnyFired
    BY <1>1, <2>1
  <2> QED
    BY <1>1, <1>2, <1>3, <2>1, <2>2, RunsRest DEF Waits
<1>7. CASE HandlerDies(h)
  <2>1. /\ hnd[h] # {} \/ settle[h].pc # "idle"
        /\ UNCHANGED <<status, track, rows, ci, run, writeOff>>
    BY <1>7 DEF HandlerDies, Free, orderVars
  <2>2. AnyFired
    BY <1>1, <2>1
  <2> QED
    BY <1>1, <1>2, <1>3, <2>1, <2>2, RunsRest DEF Waits
<1> QED
  BY <1>4, <1>5, <1>6, <1>7 DEF HandlerStep

LEMMA SettlingWaits ==
  ASSUME Typed, WaitInv, NEW x \in Procs, SettleStep(x)
  PROVE  WaitInv'
<1>1. settle[x].pc # "idle"
  BY DEF SettleStep, SettleReads, SettleRecordsOutputs, SettleSwaps
<1>2. AnyFired /\ ~Waits
  BY <1>1 DEF WaitInv, DecisionsFollowPipelines, WaitingIsBlank
<1>3. /\ UNCHANGED <<track, ci, hnd, writeOff>> /\ (status' = status \/ status' = "completed")
      /\ \A q \in Runs : run'[q] = run[q] \/ run'[q] = [run[q] EXCEPT !.pc = "done"]
  BY DEF SettleStep, SettleReads, SettleRecordsOutputs, SettleSwaps, LeaveSettling, orderVars, Typed
<1>4. AnyFired' /\ ~Waits'
  BY <1>2, <1>3 DEF AnyFired, Waits
<1>5. \A q \in Runs :
        \/ run'[q] = run[q]
        \/ /\ run'[q].pc = "done" /\ run'[q].kind = run[q].kind
           /\ run'[q].elem = run[q].elem /\ run'[q].started = run[q].started
           /\ run'[q].todo = run[q].todo
  BY <1>3 DEF Typed, GoodRun, RunRecord
<1>6. \A q \in Runs : Undoable(q)' => Undoable(q) /\ run'[q] = run[q]
  BY <1>5 DEF Undoable, Provisions
<1>7. \A q \in Runs : Undoable(q) => ~Untouched(q)
  BY <1>2 DEF WaitInv, UntouchedIsAlone
<1>8. UntouchedIsAlone'
  BY <1>6, <1>7 DEF UntouchedIsAlone, Untouched
<1>9. UndoersAreUntouched'
  BY <1>5, <1>6 DEF WaitInv, UndoersAreUntouched, Untouched, Provisions
<1>10. WaitingIsBlank'
  BY <1>4 DEF WaitingIsBlank
<1>11. DecisionsFollowPipelines'
  BY <1>4 DEF DecisionsFollowPipelines
<1>12. WriteOffIsLate'
  BY <1>3, <1>4, <1>6 DEF WaitInv, WriteOffIsLate
<1> QED
  BY <1>8, <1>9, <1>10, <1>11, <1>12 DEF WaitInv

LEMMA OthersWait ==
  ASSUME Typed, WaitInv,
         PlacePending \/ RejectOrder \/ CallbackLost \/ WriteOffReads \/ WriteOffWrites
  PROVE  WaitInv'
<1>1. /\ \A g \in Handlers : hnd[g] # {} => AnyFired
      /\ \A x \in Procs : settle[x].pc # "idle" => AnyFired
      /\ track.st.good # {} => AnyFired
      /\ writeOff => ~Waits /\ \A r \in Runs : ~Undoable(r)
  BY DEF WaitInv, DecisionsFollowPipelines, WriteOffIsLate
<1>2. UNCHANGED rows => Existing' = Existing
  BY DEF Existing
<1>3. UNCHANGED ci => (AnyFired' <=> AnyFired)
  BY DEF AnyFired
<1>4. CASE PlacePending
  BY <1>1, <1>2, <1>3, <1>4, RunsRest DEF PlacePending, procVars, Waits
<1>5. CASE RejectOrder
  BY <1>1, <1>2, <1>3, <1>5, RunsRest DEF RejectOrder, procVars, Waits
<1>6. CASE CallbackLost
  <2>1. PICK p \in Pids, v \in Verdicts : Verdict(p, v)
    BY <1>6 DEF CallbackLost
  <2>2. ci[p] # "none" /\ ci'[p] # "none"
    BY <2>1 DEF Verdict, Verdicts, Typed
  <2>3. AnyFired /\ AnyFired'
    BY <2>2 DEF AnyFired
  <2> QED
    BY <1>1, <1>2, <1>6, <2>3, RunsRest DEF CallbackLost, procVars, orderVars, Waits
<1>7. CASE WriteOffReads
  <2>1. \A r \in Runs : ~Undoable(r)
    BY <1>7 DEF WriteOffReads, Over, At, Undoable
  <2> QED
    BY <1>1, <1>2, <1>3, <1>7, <2>1, RunsRest DEF WriteOffReads, orderVars, Waits
<1>8. CASE WriteOffWrites
  <2>1. /\ UNCHANGED <<track, rows, ci, run, hnd, settle>> /\ ~writeOff'
        /\ ~Waits' /\ \A r \in Runs : ~Undoable(r)
    BY <1>1, <1>8 DEF WriteOffWrites, Waits
  <2> QED
    BY <1>1, <1>2, <1>3, <2>1, RunsRest
<1> QED
  BY <1>4, <1>5, <1>6, <1>7, <1>8

LEMMA InitWaits == Init => WaitInv
<1> SUFFICES ASSUME Init PROVE WaitInv
  OBVIOUS
<1>1. /\ \A r \in Runs : run[r].pc = "idle" /\ run[r].todo = {}
      /\ ~AnyFired /\ Existing = {} /\ ~writeOff
      /\ \A x \in Procs : settle[x].pc = "idle"
      /\ track.st.good = {} /\ \A h \in Handlers : hnd[h] = {}
  BY DEF Init, FreshRun, AnyFired, Existing, NotSettling, Cleared, NoStatus
<1> QED
  BY <1>1 DEF WaitInv, WaitingIsBlank, UntouchedIsAlone, UndoersAreUntouched,
              DecisionsFollowPipelines, WriteOffIsLate, Over, Undoable

LEMMA NextWaits ==
  Typed /\ WaitInvUnlessFailed /\ [Next]_vars => WaitInvUnlessFailed'
<1> SUFFICES ASSUME Typed, faults.db = 0 => WaitInv, [Next]_vars, faults'.db = 0
             PROVE  WaitInv'
  BY DEF WaitInvUnlessFailed
<1>1. ~DbFault
  BY DEF DbFault, Typed
<1>2. CASE UNCHANGED vars
  BY <1>2 DEF vars, orderVars, procVars, WaitInv, WaitingIsBlank, UntouchedIsAlone,
              UndoersAreUntouched, DecisionsFollowPipelines, WriteOffIsLate, Waits, AnyFired,
              Existing, Over, Undoable, Untouched, Provisions, FoundEmpty
<1>3. ASSUME NEW r \in Runs, Claims(r) PROVE WaitInv'
  <2>1. WaitInv
    BY <1>3 DEF Claims, PlaceDirect, ApproveClaim, WindowClaim, RetryClaim
  <2> QED
    BY <1>3, <2>1, RunStarts
<1>4. ASSUME NEW r \in Runs, RunStep(r) PROVE WaitInv'
  <2>1. UNCHANGED faults
    BY <1>4 DEF RunStep, ApproveDeploysNow, ApproveWaits, BeginOrderTriggerRun, InsertElement,
                RetrySiblings, TriggerStarts, TriggerFails, RecordOrderPipelineId, ElementFired,
                PurgeElements, ClearOrderTriggerRun, ReleaseRetryClaim, RewriteElement,
                FinishOrderTriggerRun, UndoClaim, AnythingStarted, Requeue
  <2> QED
    BY <1>4, <2>1, RunStepsWait
<1>5. ASSUME NEW r \in Runs, RunFaults(r) PROVE WaitInv'
  <2>1. RunDies(r)
    BY <1>1, <1>5 DEF RunFaults, ApproveCannotDecide, ApproveAbandoned, RecordLost,
                      ElementThrows, RunThrows
  <2>2. faults'.db = faults.db
    BY <2>1 DEF RunDies, Death, Typed
  <2> QED
    BY <1>5, <2>2, RunFaultsWait
<1>6. ASSUME NEW h \in Handlers, HandlerStep(h) \/ HandlerDies(h) PROVE WaitInv'
  <2>1. faults'.db = faults.db
    BY <1>6 DEF HandlerStep, CallbackArrives, CallbackRepeated, MergeSuccessEvent,
                MergeFailureEvent, HandlerDies, Death, Typed
  <2> QED
    BY <1>6, <2>1, HandlersWait
<1>7. ASSUME NEW x \in Procs, SettleStep(x) PROVE WaitInv'
  <2>1. UNCHANGED faults
    BY <1>7 DEF SettleStep, SettleReads, SettleRecordsOutputs, SettleSwaps
  <2> QED
    BY <1>7, <2>1, SettlingWaits
<1>8. ASSUME NEW x \in Procs, SettleThrows(x) \/ CompletionUnaudited(x) PROVE WaitInv'
  BY <1>1, <1>8 DEF SettleThrows, CompletionUnaudited
<1>9. CASE PlacePending \/ RejectOrder \/ CallbackLost \/ WriteOffReads \/ WriteOffWrites
  <2>1. UNCHANGED faults
    BY <1>9 DEF PlacePending, RejectOrder, CallbackLost, WriteOffReads, WriteOffWrites
  <2> QED
    BY <1>9, <2>1, OthersWait
<1> QED
  BY <1>2, <1>3, <1>4, <1>5, <1>6, <1>7, <1>8, <1>9 DEF Next

\* As long as no database statement failed, an order that waits for an approver
\* or for its window has no element rows and no pipeline, however many requests
\* claimed it and died: only a run that started nothing, is alone, and has
\* purged its rows hands an order back.
THEOREM WaitingOrdersAreBlank == Spec => []QueuedOrderIsBlank
<1>1. Init => WaitInvUnlessFailed
  BY InitWaits DEF WaitInvUnlessFailed
<1> QED
  BY <1>1, NextWaits, AlwaysTyped, WaitingBlank, PTL DEF Spec

-----------------------------------------------------------------------------
(* OrderRun implements OrderLifecycle                                      *)

\* A retry that may still hand its order back to 'failed'.
MayRelease(r) == ~Provisions(r) /\ run[r].pc \in {"siblings", "fire", "record", "release"}

\* A rejected order is nobody's,
RejectedIsOver == status = "rejected" => ~AnyFired /\ \A r \in Runs : Over(r)
\* and nobody completes an order under a retry that is the only run at work.
RetryBarsCompletion ==
  "run" \notin stale =>
    \A r \in Runs : MayRelease(r) =>
      status # "completed" /\ (status = "provisioning" => track.st.firing)

NoFaults == faults.db = 0

LifeInv == NoFaults /\ WaitInv /\ OwnerInv /\ RejectedIsOver /\ RetryBarsCompletion

LEMMA NoStatementFails ==
  ASSUME Typed, MaxDbFaults = 0
  PROVE  ~DbFault
  BY DEF DbFault, Typed

LEMMA StepsKeepFaults ==
  ASSUME Typed, MaxDbFaults = 0, NoFaults, [Next]_vars
  PROVE  NoFaults'
<1>1. ~DbFault
  BY NoStatementFails
<1>2. ASSUME NEW r \in Runs, Claims(r) \/ RunStep(r) PROVE NoFaults'
  BY <1>2 DEF NoFaults, Claims, PlaceDirect, ApproveClaim, WindowClaim, RetryClaim, RunStep,
     ApproveDeploysNow, ApproveWaits, BeginOrderTriggerRun, InsertElement, RetrySiblings,
     TriggerStarts, TriggerFails, RecordOrderPipelineId, ElementFired, PurgeElements,
     ClearOrderTriggerRun, ReleaseRetryClaim, RewriteElement, FinishOrderTriggerRun, UndoClaim,
     AnythingStarted, Requeue
<1>3. ASSUME NEW r \in Runs, RunFaults(r) PROVE NoFaults'
  BY <1>1, <1>3 DEF NoFaults, RunFaults, ApproveCannotDecide, ApproveAbandoned, RecordLost,
     ElementThrows, RunThrows, RunDies, Death, Typed
<1>4. ASSUME NEW h \in Handlers, HandlerStep(h) \/ HandlerDies(h) PROVE NoFaults'
  BY <1>4 DEF NoFaults, HandlerStep, CallbackArrives, CallbackRepeated, MergeSuccessEvent,
     MergeFailureEvent, HandlerDies, Death, Typed
<1>5. ASSUME NEW x \in Procs, SettleStep(x) \/ SettleThrows(x) \/ CompletionUnaudited(x)
      PROVE  NoFaults'
  BY <1>1, <1>5 DEF NoFaults, SettleStep, SettleReads, SettleRecordsOutputs, SettleSwaps,
     SettleThrows, CompletionUnaudited
<1>6. CASE PlacePending \/ RejectOrder \/ CallbackLost \/ WriteOffReads \/ WriteOffWrites
  BY <1>6 DEF NoFaults, PlacePending, RejectOrder, CallbackLost, WriteOffReads, WriteOffWrites
<1>7. CASE UNCHANGED vars
  BY <1>7 DEF NoFaults, vars
<1> QED
  BY <1>2, <1>3, <1>4, <1>5, <1>6, <1>7 DEF Next

\* The steps that are left when no statement fails.
LEMMA FaultlessSteps ==
  ASSUME Typed, MaxDbFaults = 0, [Next]_vars
  PROVE  \/ \E r \in Runs : Claims(r) \/ RunStep(r) \/ RunDies(r)
         \/ \E h \in Handlers : HandlerStep(h) \/ HandlerDies(h)
         \/ \E x \in Procs : SettleStep(x)
         \/ PlacePending \/ RejectOrder \/ CallbackLost \/ WriteOffReads \/ WriteOffWrites
         \/ UNCHANGED vars
<1>1. ~DbFault
  BY NoStatementFails
<1>2. \A r \in Runs : RunFaults(r) => RunDies(r)
  BY <1>1 DEF RunFaults, ApproveCannotDecide, ApproveAbandoned, RecordLost, ElementThrows,
     RunThrows
<1>3. \A x \in Procs : ~SettleThrows(x) /\ ~CompletionUnaudited(x)
  BY <1>1 DEF SettleThrows, CompletionUnaudited
<1> QED
  BY <1>2, <1>3 DEF Next

\* Every callback is about a pipeline that was started.
LEMMA CallbacksFollowPipelines ==
  ASSUME Typed, NEW p \in Pids, NEW v \in Verdicts,
         Verdict(p, v) \/ (v \in Posted(p) /\ UNCHANGED ci)
  PROVE  AnyFired /\ AnyFired'
<1>1. ci[p] # "none" /\ ci'[p] # "none"
  BY DEF Verdict, Verdicts, Posted, Typed
<1> QED
  BY <1>1 DEF AnyFired

\* What the steps of handlers leave alone.
LEMMA HandlerFacts ==
  ASSUME Typed, WaitInv, NEW h \in Handlers, HandlerStep(h) \/ HandlerDies(h)
  PROVE  /\ AnyFired /\ AnyFired' /\ run' = run /\ stale' = stale
         /\ track'.st.firing = track.st.firing
         /\ status' = status \/ (status = "provisioning" /\ status' = "failed")
<1>1. CASE CallbackArrives(h)
  BY <1>1, CallbacksFollowPipelines DEF CallbackArrives, orderVars, history
<1>2. CASE CallbackRepeated(h)
  <2>1. PICK p \in Pids : Posted(p) # {} /\ UNCHANGED ci
    BY <1>2 DEF CallbackRepeated
  <2>2. ci[p] # "none"
    BY <2>1 DEF Posted
  <2> QED
    BY <1>2, <2>1, <2>2 DEF CallbackRepeated, orderVars, history, AnyFired
<1>3. AnyFired \/ ~(hnd[h] # {} \/ settle[h].pc # "idle")
  BY DEF WaitInv, DecisionsFollowPipelines, Procs
<1>4. UNCHANGED ci => AnyFired' = AnyFired
  BY DEF AnyFired
<1>5. CASE MergeSuccessEvent(h) \/ MergeFailureEvent(h)
  BY <1>3, <1>4, <1>5, FiringKept DEF MergeSuccessEvent, MergeFailureEvent, orderVars, history, Typed
<1>6. CASE HandlerDies(h)
  BY <1>3, <1>4, <1>6 DEF HandlerDies, Free, orderVars, history
<1> QED
  BY <1>1, <1>2, <1>5, <1>6 DEF HandlerStep

LEMMA SettleFacts ==
  ASSUME Typed, WaitInv, NEW x \in Procs, SettleStep(x)
  PROVE  /\ AnyFired /\ AnyFired' /\ stale' = stale /\ track' = track
         /\ settle[x].pc # "idle"
         /\ \A q \in Runs : run'[q] = run[q] \/ run'[q].pc = "done"
         /\ \/ status' = status
            \/ status = "provisioning" /\ status' = "completed" /\ Clean(track.st)
<1>1. settle[x].pc # "idle"
  BY DEF SettleStep, SettleReads, SettleRecordsOutputs, SettleSwaps
<1>2. AnyFired
  BY <1>1 DEF WaitInv, DecisionsFollowPipelines
<1>3. UNCHANGED <<ci, track, stale>>
  BY DEF SettleStep, SettleReads, SettleRecordsOutputs, SettleSwaps, orderVars, history
<1>4. \A q \in Runs : run'[q] = run[q] \/ run'[q].pc = "done"
  BY DEF SettleStep, SettleReads, SettleRecordsOutputs, SettleSwaps, LeaveSettling, Typed, GoodRun,
     RunRecord
<1>5. \/ status' = status
      \/ status = "provisioning" /\ status' = "completed" /\ Clean(track.st)
  <2>1. CASE SettleSwaps(x)
    BY <2>1, CleanSwap DEF SettleSwaps, SwapMatches
  <2> QED
    BY <2>1 DEF SettleStep, SettleReads, SettleRecordsOutputs, orderVars
<1> QED
  BY <1>1, <1>2, <1>3, <1>4, <1>5 DEF AnyFired

LEMMA OtherFacts ==
  ASSUME Typed, WaitInv,
         PlacePending \/ RejectOrder \/ CallbackLost \/ WriteOffReads \/ WriteOffWrites
  PROVE  /\ run' = run /\ stale' = stale /\ track' = track
         /\ AnyFired' = AnyFired \/ (AnyFired /\ AnyFired')
         /\ \/ status' = status
            \/ status = "none" /\ status' = "pending"
            \/ status = "pending" /\ status' = "rejected"
            \/ status = "provisioning" /\ status' = "failed"
<1>1. UNCHANGED ci => AnyFired' = AnyFired
  BY DEF AnyFired
<1>2. CASE CallbackLost
  BY <1>2, CallbacksFollowPipelines DEF CallbackLost, orderVars, history
<1> QED
  BY <1>1, <1>2 DEF PlacePending, RejectOrder, WriteOffReads, WriteOffWrites, orderVars, procVars,
     history

\* What a request does to its own record and to the order, one step at a time.
LEMMA RunStepFacts ==
  ASSUME Typed, WaitInv, NEW r \in Runs, RunStep(r)
  PROVE  /\ ~Over(r) /\ stale' = stale
         /\ \A q \in Runs : q # r => run'[q] = run[q]
         /\ MayRelease(r)' =>
              MayRelease(r) /\ status' = status /\ track'.st.firing = track.st.firing
         /\ \/ status' = status /\ AnyFired' = AnyFired
            \/ status' = status /\ AnyFired'
            \/ /\ Undoable(r) /\ Untouched(r) /\ AnyFired' = AnyFired
               /\ status' \in {"pending", "scheduled", "failed"}
            \/ MayRelease(r) /\ status' = "failed" /\ AnyFired' = AnyFired
<1>0. UNCHANGED ci => AnyFired' = AnyFired
  BY DEF AnyFired
<1>1. run[r] \in RunRecord
  BY DEF Typed, GoodRun
<1>2. UndoersAreUntouched
  BY DEF WaitInv
<1>3. CASE ApproveDeploysNow(r) \/ BeginOrderTriggerRun(r)
  BY <1>0, <1>1, <1>2, <1>3 DEF ApproveDeploysNow, BeginOrderTriggerRun, At, Goto, Over, Typed,
     MayRelease, Provisions, orderVars, history, RunRecord
<1>4. CASE ApproveWaits(r)
  BY <1>0, <1>1, <1>2, <1>4 DEF ApproveWaits, At, Goto, Over, Typed, UndoersAreUntouched,
     MayRelease, Undoable, Provisions, history, RunRecord
<1>5. CASE InsertElement(r)
  BY <1>0, <1>1, <1>2, <1>5 DEF InsertElement, At, Over, Typed, UndoersAreUntouched,
     MayRelease, Provisions, orderVars, history, RunRecord
<1>6. CASE RetrySiblings(r) \/ TriggerFails(r)
  <2>1. /\ status' = status /\ track' = track /\ stale' = stale /\ ci' = ci
        /\ run[r].pc \in {"siblings", "fire"}
        /\ \A q \in Runs : q # r => run'[q] = run[q]
        /\ run'[r].kind = run[r].kind
    <3>1. CASE RetrySiblings(r)
      BY <1>1, <3>1 DEF RetrySiblings, At, Typed, orderVars, history, RunRecord
    <3>2. CASE TriggerFails(r)
      BY <1>1, <3>2 DEF TriggerFails, At, Typed, orderVars, history, RunRecord
    <3> QED
      BY <1>6, <3>1, <3>2
  <2> QED
    BY <1>0, <2>1 DEF Over, MayRelease, Provisions
<1>7. CASE TriggerStarts(r)
  <2>1. CurrentPid(r) \in Pids
    <3>1. run[r].todo \subseteq Rows /\ run[r].todo # {} /\ run[r].k \in 1 .. LastTrigger
      BY <1>1, <1>7, RunAssumption DEF TriggerStarts, At, Typed, GoodRun, HasWork, RunRecord,
         LastTrigger
    <3> QED
      BY <3>1, FirstOfMember DEF CurrentPid, CurrentRow, Pids
  <2>2. AnyFired'
    BY <1>7, <2>1 DEF TriggerStarts, AnyFired, Typed
  <2>3. /\ status' = status /\ track' = track /\ stale' = stale /\ run[r].pc = "fire"
        /\ \A q \in Runs : q # r => run'[q] = run[q]
        /\ run'[r].kind = run[r].kind
    BY <1>1, <1>7 DEF TriggerStarts, At, Typed, orderVars, history, RunRecord
  <2> QED
    BY <2>2, <2>3 DEF Over, MayRelease, Provisions
<1>8. CASE RecordOrderPipelineId(r)
  BY <1>0, <1>1, <1>8, FiringKept DEF RecordOrderPipelineId, At, Over, Typed,
     MayRelease, Provisions, history, RunRecord
<1>9. CASE ElementFired(r)
  <2>1. /\ status' = status /\ track' = track /\ stale' = stale /\ ci' = ci /\ run[r].pc = "fire"
        /\ \A q \in Runs : q # r => run'[q] = run[q]
        /\ run'[r].kind = run[r].kind
    BY <1>1, <1>9 DEF ElementFired, At, Typed, orderVars, history, RunRecord
  <2> QED
    BY <1>0, <2>1 DEF Over, MayRelease, Provisions
<1>10. CASE PurgeElements(r) \/ ClearOrderTriggerRun(r) \/ AnythingStarted(r)
  BY <1>0, <1>1, <1>10 DEF PurgeElements, ClearOrderTriggerRun, AnythingStarted, At, Goto, Over,
     Typed, MayRelease, Provisions, orderVars, history, RunRecord
<1>11. CASE UndoClaim(r) \/ Requeue(r)
  BY <1>0, <1>1, <1>2, <1>11 DEF UndoClaim, Requeue, At, Goto, Over, Typed, UndoersAreUntouched,
     MayRelease, Undoable, Provisions, history, RunRecord
<1>12. CASE ReleaseRetryClaim(r)
  BY <1>0, <1>1, <1>2, <1>12 DEF ReleaseRetryClaim, At, Goto, Over, Typed, UndoersAreUntouched,
     MayRelease, Provisions, history, RunRecord
<1>13. CASE RewriteElement(r)
  <2>1. /\ status' = status /\ stale' = stale /\ ci' = ci /\ run[r].pc = "rewrite"
        /\ \A q \in Runs : q # r => run'[q] = run[q]
        /\ run'[r].pc \in {"close", "rewrite"}
    BY <1>1, <1>13 DEF RewriteElement, At, Typed, orderVars, history, RunRecord
  <2> QED
    BY <1>0, <2>1 DEF Over, MayRelease
<1>14. CASE FinishOrderTriggerRun(r)
  <2>1. /\ status' = status /\ stale' = stale /\ ci' = ci /\ run[r].pc = "close"
        /\ \A q \in Runs : q # r => run'[q] = run[q]
        /\ run'[r].pc \in {"settling", "done"}
    BY <1>1, <1>14 DEF FinishOrderTriggerRun, At, Goto, Typed, history, RunRecord
  <2> QED
    BY <1>0, <2>1 DEF Over, MayRelease
<1> QED
  BY <1>3, <1>4, <1>5, <1>6, <1>7, <1>8, <1>9, <1>10, <1>11, <1>12, <1>13, <1>14 DEF RunStep

\* A request takes up an order that waits, as the only one, or a failed one.
LEMMA ClaimFacts ==
  ASSUME Typed, WaitInv, NEW r \in Runs, Claims(r)
  PROVE  /\ status' = "provisioning" /\ AnyFired' = AnyFired
         /\ \A q \in Runs : q # r => run'[q] = run[q]
         /\ "run" \in stale => "run" \in stale'
         /\ "run" \notin stale' => \A q \in Runs : Over(q)
         /\ \/ Waits /\ stale' = stale /\ ~MayRelease(r)'
            \/ status = "failed" /\ track'.st.firing
<1>1. PICK kind, pc, elems :
        /\ Starting(r, kind, pc, elems)
        /\ \/ Waits /\ pc \in {"decide", "begin"}
           \/ status = "failed" /\ track' = Opened
        /\ status' = "provisioning" /\ ci' = ci /\ hnd' = hnd
  BY DEF Claims, PlaceDirect, ApproveClaim, WindowClaim, RetryClaim, Waits, procVars
<1>2. run'[r].pc = pc /\ \A q \in Runs : q # r => run'[q] = run[q]
  BY <1>1 DEF Starting, Typed, FreshRun
<1>3. Waits => /\ ~ \E q \in Runs : ~Over(q)
               /\ ~ \E h \in Handlers : hnd[h] # {}
  BY DEF WaitInv, WaitingIsBlank, DecisionsFollowPipelines
<1> DEFINE Under == {w \in {"run", "callback"} :
                       \/ w = "run" /\ \E q \in Runs : ~Over(q)
                       \/ w = "callback" /\ \E h \in Handlers : hnd[h] # {}}
<1>4. Waits => stale' = stale
  <2>1. stale' = stale \union Under
    BY <1>1 DEF Starting
  <2>2. Waits => Under = {}
    BY <1>3
  <2> HIDE DEF Under
  <2> QED
    BY <2>1, <2>2
<1>5. /\ "run" \in stale => "run" \in stale'
      /\ "run" \notin stale' => \A q \in Runs : Over(q)
  BY <1>1 DEF Starting
<1>6. AnyFired' = AnyFired
  BY <1>1 DEF AnyFired
<1> QED
  BY <1>1, <1>2, <1>4, <1>5, <1>6, OpenedFires DEF MayRelease

LEMMA DyingFacts ==
  ASSUME Typed, NEW r \in Runs, RunDies(r)
  PROVE  /\ ~Over(r) /\ UNCHANGED <<status, track, stale>> /\ AnyFired' = AnyFired
         /\ run'[r].pc = "done" /\ \A q \in Runs : q # r => run'[q] = run[q]
  BY DEF RunDies, Goto, Typed, GoodRun, RunRecord, AnyFired, orderVars, history

LEMMA NextRejected ==
  ASSUME Typed, MaxDbFaults = 0, LifeInv, [Next]_vars
  PROVE  RejectedIsOver'
<1>1. ASSUME NEW r \in Runs, Claims(r) PROVE RejectedIsOver'
  BY <1>1, ClaimFacts DEF LifeInv, RejectedIsOver
<1>2. ASSUME NEW r \in Runs, RunStep(r) PROVE RejectedIsOver'
  BY <1>2, RunStepFacts DEF LifeInv, RejectedIsOver
<1>3. ASSUME NEW r \in Runs, RunDies(r) PROVE RejectedIsOver'
  BY <1>3, DyingFacts DEF LifeInv, RejectedIsOver
<1>4. ASSUME NEW h \in Handlers, HandlerStep(h) \/ HandlerDies(h) PROVE RejectedIsOver'
  BY <1>4, HandlerFacts DEF LifeInv, RejectedIsOver
<1>5. ASSUME NEW x \in Procs, SettleStep(x) PROVE RejectedIsOver'
  BY <1>5, SettleFacts DEF LifeInv, RejectedIsOver
<1>6. CASE PlacePending \/ RejectOrder \/ CallbackLost \/ WriteOffReads \/ WriteOffWrites
  BY <1>6, OtherFacts DEF LifeInv, RejectedIsOver, WaitInv, WaitingIsBlank, Waits, Over
<1>7. CASE UNCHANGED vars
  BY <1>7 DEF LifeInv, RejectedIsOver, vars, orderVars, AnyFired, Over
<1> QED
  BY <1>1, <1>2, <1>3, <1>4, <1>5, <1>6, <1>7, FaultlessSteps

\* A retry that may still give up is not moved by others, and the entry that
\* refuses completion is not taken from under it.
LEMMA NextBars ==
  ASSUME Typed, MaxDbFaults = 0, LifeInv, [Next]_vars
  PROVE  RetryBarsCompletion'
<1> SUFFICES ASSUME "run" \notin stale', NEW q \in Runs, MayRelease(q)'
             PROVE  status' # "completed" /\ (status' = "provisioning" => track'.st.firing)
  BY DEF RetryBarsCompletion
<1>0. /\ "run" \notin stale /\ MayRelease(q) =>
           status # "completed" /\ (status = "provisioning" => track.st.firing)
      /\ AtMostOneRun
  BY DEF LifeInv, RetryBarsCompletion, OwnerInv
<1>1. ASSUME NEW r \in Runs, Claims(r)
      PROVE  status' # "completed" /\ (status' = "provisioning" => track'.st.firing)
  BY <1>1, ClaimFacts DEF LifeInv, MayRelease, Provisions, Over
<1>2. ASSUME NEW r \in Runs, RunStep(r)
      PROVE  status' # "completed" /\ (status' = "provisioning" => track'.st.firing)
  <2>1. CASE q = r
    BY <1>0, <1>2, <2>1, RunStepFacts DEF LifeInv
  <2>2. CASE q # r
    <3>1. run'[q] = run[q] /\ ~Over(r) /\ stale' = stale
      BY <1>2, <2>2, RunStepFacts DEF LifeInv
    <3>2. ~Over(q)
      BY <3>1 DEF MayRelease, Over
    <3> QED
      BY <1>0, <2>2, <3>1, <3>2 DEF AtMostOneRun
  <2> QED
    BY <2>1, <2>2
<1>3. ASSUME NEW r \in Runs, RunDies(r)
      PROVE  status' # "completed" /\ (status' = "provisioning" => track'.st.firing)
  BY <1>0, <1>3, DyingFacts DEF MayRelease, Provisions
<1>4. ASSUME NEW h \in Handlers, HandlerStep(h) \/ HandlerDies(h)
      PROVE  status' # "completed" /\ (status' = "provisioning" => track'.st.firing)
  BY <1>0, <1>4, HandlerFacts DEF LifeInv, MayRelease, Provisions
<1>5. ASSUME NEW x \in Procs, SettleStep(x)
      PROVE  status' # "completed" /\ (status' = "provisioning" => track'.st.firing)
  BY <1>0, <1>5, SettleFacts DEF LifeInv, MayRelease, Provisions, Clean
<1>6. CASE PlacePending \/ RejectOrder \/ CallbackLost \/ WriteOffReads \/ WriteOffWrites
  BY <1>0, <1>6, OtherFacts DEF LifeInv, MayRelease, Provisions
<1>7. CASE UNCHANGED vars
  BY <1>0, <1>7 DEF vars, orderVars, history, MayRelease, Provisions
<1> QED
  BY <1>1, <1>2, <1>3, <1>4, <1>5, <1>6, <1>7, FaultlessSteps

\* Every step of the detailed order is one of the abstract order, or none.
LEMMA StepsAreLifecycle ==
  ASSUME Typed, MaxDbFaults = 0, LifeInv, [Next]_vars
  PROVE  [Lifecycle!Next]_(Lifecycle!vars)
<1> DEFINE Overlap == "run" \in stale
<1>1. status' = status /\ AnyFired' = AnyFired /\ Overlap' = Overlap => UNCHANGED Lifecycle!vars
  BY DEF Lifecycle!vars, AnyFired
<1>2. Lifecycle!Next <=>
        \/ status = "none" /\ status' \in {"pending", "provisioning"}
             /\ AnyFired' = AnyFired /\ Overlap' = Overlap
        \/ status = "pending" /\ status' = "rejected" /\ AnyFired' = AnyFired /\ Overlap' = Overlap
        \/ status \in {"pending", "scheduled"} /\ status' = "provisioning"
             /\ AnyFired' = AnyFired /\ Overlap' = Overlap
        \/ status = "failed" /\ status' = "provisioning" /\ Overlap' \in {Overlap, TRUE}
             /\ AnyFired' = AnyFired
        \/ status = "provisioning" /\ ~AnyFired /\ status' \in {"pending", "scheduled"}
             /\ AnyFired' = AnyFired /\ Overlap' = Overlap
        \/ status \in {"provisioning", "failed", "completed"} /\ AnyFired' = TRUE
             /\ status' = status /\ Overlap' = Overlap
        \/ status = "provisioning" /\ status' = "failed" /\ AnyFired' = AnyFired
             /\ Overlap' = Overlap
        \/ status = "provisioning" /\ AnyFired /\ status' = "completed"
             /\ AnyFired' = AnyFired /\ Overlap' = Overlap
        \/ status = "completed" /\ Overlap /\ status' = "failed"
             /\ AnyFired' = AnyFired /\ Overlap' = Overlap
  BY DEF Lifecycle!Next, Lifecycle!Place, Lifecycle!Reject, Lifecycle!Claim, Lifecycle!Retry,
     Lifecycle!HandBack, Lifecycle!Fire, Lifecycle!Fail, Lifecycle!Complete, Lifecycle!TakeBack,
     AnyFired
<1>3. Overlap \in BOOLEAN /\ AnyFired \in BOOLEAN /\ AnyFired' \in BOOLEAN /\ status \in OrderStatuses
  BY DEF AnyFired, Typed
<1>4. WaitInv /\ RejectedIsOver /\ RetryBarsCompletion
  BY DEF LifeInv
<1>5. ASSUME NEW r \in Runs, Claims(r) PROVE Lifecycle!Next
  <2>1. CASE Waits /\ stale' = stale
    BY <1>2, <1>4, <1>5, <2>1, ClaimFacts DEF Waits
  <2>2. CASE status = "failed"
    <3>1. /\ status' = "provisioning" /\ AnyFired' = AnyFired
          /\ ~Overlap \/ (Overlap /\ Overlap')
      BY <1>4, <1>5, ClaimFacts
    <3>2. Overlap' = Overlap \/ Overlap' = TRUE
      BY <1>3, <3>1
    <3>3. Overlap' \in {Overlap, TRUE}
      BY <3>2
    <3> QED
      BY <1>2, <2>2, <3>1, <3>3
  <2> QED
    BY <1>4, <1>5, <2>1, <2>2, ClaimFacts
<1>6. ASSUME NEW r \in Runs, RunStep(r) PROVE Lifecycle!Next \/ UNCHANGED Lifecycle!vars
  <2>1. ~Over(r) /\ Overlap' = Overlap
    BY <1>4, <1>6, RunStepFacts
  <2>2. status \in {"provisioning", "failed", "completed"}
    BY <1>3, <1>4, <2>1 DEF RejectedIsOver, WaitInv, WaitingIsBlank, Waits, OrderStatuses
  <2>3. CASE status' = status /\ AnyFired' = AnyFired
    BY <1>1, <2>1, <2>3
  <2>4. CASE status' = status /\ AnyFired'
    BY <1>2, <2>1, <2>2, <2>4
  <2>5. CASE Undoable(r) /\ Untouched(r) /\ AnyFired' = AnyFired
               /\ status' \in {"pending", "scheduled", "failed"}
    <3>1. status = "provisioning" /\ ~AnyFired
      BY <1>4, <2>5 DEF WaitInv, UntouchedIsAlone
    <3> QED
      BY <1>2, <2>1, <2>5, <3>1
  <2>6. CASE MayRelease(r) /\ status' = "failed" /\ AnyFired' = AnyFired
    <3>1. status = "completed" => Overlap
      BY <1>4, <2>6 DEF RetryBarsCompletion
    <3> QED
      BY <1>1, <1>2, <2>1, <2>2, <2>6, <3>1
  <2> QED
    BY <1>4, <1>6, <2>3, <2>4, <2>5, <2>6, RunStepFacts
<1>7. ASSUME NEW r \in Runs, RunDies(r) PROVE UNCHANGED Lifecycle!vars
  BY <1>1, <1>7, DyingFacts
<1>8. ASSUME NEW h \in Handlers, HandlerStep(h) \/ HandlerDies(h)
      PROVE  Lifecycle!Next \/ UNCHANGED Lifecycle!vars
  <2>1. /\ AnyFired' = AnyFired /\ Overlap' = Overlap
        /\ status' = status \/ (status = "provisioning" /\ status' = "failed")
    BY <1>3, <1>4, <1>8, HandlerFacts
  <2> QED
    BY <1>1, <1>2, <2>1
<1>9. ASSUME NEW x \in Procs, SettleStep(x) PROVE Lifecycle!Next \/ UNCHANGED Lifecycle!vars
  <2>1. /\ AnyFired /\ AnyFired' = AnyFired /\ Overlap' = Overlap
        /\ status' = status \/ (status = "provisioning" /\ status' = "completed")
    BY <1>3, <1>4, <1>9, SettleFacts
  <2>2. status = "provisioning" /\ status' = "completed" => Lifecycle!Next
    BY <1>2, <2>1
  <2> QED
    BY <1>1, <2>1, <2>2
<1>10. CASE PlacePending \/ RejectOrder \/ CallbackLost \/ WriteOffReads \/ WriteOffWrites
  <2>1. /\ AnyFired' = AnyFired /\ Overlap' = Overlap
        /\ \/ status' = status
           \/ status = "none" /\ status' = "pending"
           \/ status = "pending" /\ status' = "rejected"
           \/ status = "provisioning" /\ status' = "failed"
    BY <1>3, <1>4, <1>10, OtherFacts
  <2>2. status' # status => Lifecycle!Next
    BY <1>2, <2>1
  <2> QED
    BY <1>1, <2>1, <2>2
<1>11. CASE UNCHANGED vars
  BY <1>1, <1>11 DEF vars, orderVars, history, AnyFired
<1> HIDE DEF Overlap
<1> QED
  BY <1>5, <1>6, <1>7, <1>8, <1>9, <1>10, <1>11, FaultlessSteps

LEMMA InitLife == Init => LifeInv /\ Lifecycle!Init
<1> SUFFICES ASSUME Init PROVE LifeInv /\ Lifecycle!Init
  OBVIOUS
<1>1. NoFaults /\ RejectedIsOver /\ RetryBarsCompletion
  BY DEF Init, NoFaults, RejectedIsOver, RetryBarsCompletion, MayRelease, FreshRun
<1>2. Lifecycle!Init
  BY DEF Init, Lifecycle!Init
<1> QED
  BY <1>1, <1>2, InitWaits, InitOwner DEF LifeInv

\* As long as no database statement fails, an order goes through the statuses
\* it promises, whatever requests, callbacks and deaths come together: an order
\* that is deployed is not queued again, one that is rejected stays so, only an
\* order for which a pipeline was started is completed, and none is taken back
\* from 'completed' unless a retry had overlapped another request.
THEOREM OrdersKeepTheirPromise ==
  ASSUME MaxDbFaults = 0
  PROVE  Spec => LifecycleSpec
<1>1. Typed /\ LifeInv /\ [Next]_vars => LifeInv'
  <2> SUFFICES ASSUME Typed, LifeInv, [Next]_vars PROVE LifeInv'
    OBVIOUS
  <2>1. NoFaults'
    BY StepsKeepFaults DEF LifeInv
  <2>2. WaitInv'
    BY <2>1, NextWaits DEF LifeInv, WaitInvUnlessFailed, NoFaults
  <2>3. OwnerInv'
    BY NextOwner DEF LifeInv
  <2> QED
    BY <2>1, <2>2, <2>3, NextRejected, NextBars DEF LifeInv
<1>2. Typed /\ LifeInv /\ [Next]_vars => [Lifecycle!Next]_(Lifecycle!vars)
  BY StepsAreLifecycle
<1> QED
  BY <1>1, <1>2, InitLife, AlwaysTyped, PTL DEF Spec, LifecycleSpec, Lifecycle!Spec

-----------------------------------------------------------------------------
(* A completed order is deployed                                           *)

Undisturbed == stale = {} /\ faults.db = 0

\* The triggers a run has still to fire, those it has already tried, and the steps
\* at which the tracking is the run's own.
Ahead(R, p) ==
  \/ R.pc \in {"idle", "decide", "begin", "siblings"}
  \/ /\ R.pc \in {"insert", "fire", "record"}
     /\ p[2] \in R.todo
     /\ R.pc # "insert" /\ p[2] = FirstOf(R.todo) =>
          R.k < p[3] \/ (R.pc = "fire" /\ R.k = p[3])
Behind(R, w, k) ==
  \/ R.pc \in {"rewrite", "close"}
  \/ /\ R.pc \in {"insert", "fire", "record"}
     /\ w \notin R.todo \/ (R.pc # "insert" /\ w = FirstOf(R.todo) /\ k < R.k)
Works(R) == R.pc \notin {"idle", "done", "decide", "begin"}
Opens(R) ==
  R.pc \in {"siblings", "insert", "fire", "record", "rewrite", "close", "purge", "clear", "release"}

\* A run fires each trigger once;
NothingAhead == \A p \in Pids : Ahead(run[p[1]], p) => ci[p] = "none"
\* what the map calls a success, or a callback is about to, has succeeded;
SuccessIsReported ==
  /\ \A p \in track.st.good : Succeeded(p)
  /\ \A h \in Handlers : \A e \in hnd[h] : e.verdict = "success" => Succeeded(e.p)
\* the tracking lists pipelines of the run that opened it, and callbacks are of these;
TrackingIsOwners ==
  /\ \A p \in track.ids \union track.st.good : p[1] = owner
  /\ \A h \in Handlers : \A e \in hnd[h] : e.p[1] = owner
\* the run at work is that run, and it leaves the 'triggering' entry to the end;
WorkerOwns ==
  \A r \in Runs : /\ Works(run[r]) => owner = r
                  /\ Opens(run[r]) => track.st.firing
                  /\ \A p \in run[r].started \union run[r].elem : p[1] = r
\* it lists every trigger it has been through, or notes that one was missed;
WalkedIsListed ==
  \A r \in Runs :
    /\ run[r].pc \in {"decide", "begin", "siblings"} => run[r].todo = run[r].elems /\ run[r].k = 1
    /\ \A w \in run[r].elems, k \in 1 .. LastTrigger :
         Behind(run[r], w, k) /\ ~run[r].missed => <<r, w, k>> \in track.ids
\* what is listed when it is through is all there is;
ClosedIsListed ==
  owner \in Runs /\ ~track.st.firing /\ ~track.st.missed /\ track.ids # {} =>
    \A w \in run[owner].elems, k \in 1 .. LastTrigger : <<owner, w, k>> \in track.ids
\* and whoever decides to complete the order does so on the map of a deployed run.
DeployedBy(q, st) == Deployed(q) /\ \A p \in st.good : p[1] = q /\ Succeeded(p)
DecidedIsDeployed ==
  \A x \in Procs : settle[x].pc # "idle" => \E q \in Runs : DeployedBy(q, settle[x].decided)

DeployInv ==
  /\ NothingAhead
  /\ SuccessIsReported
  /\ TrackingIsOwners
  /\ WorkerOwns
  /\ WalkedIsListed
  /\ ClosedIsListed
  /\ DecidedIsDeployed

DeployInvUnlessDisturbed == Undisturbed => DeployInv

\* What has succeeded stays so, unless it is fired again.
SuccessKept == \A p \in Pids : Succeeded(p) => Succeeded(p)'

LEMMA PidParts ==
  ASSUME NEW p \in Pids
  PROVE  /\ p[1] \in Runs /\ p[2] \in Rows /\ p[3] \in 1 .. LastTrigger
         /\ p = <<p[1], p[2], p[3]>>
  BY DEF Pids

LEMMA RunPid ==
  ASSUME NEW r \in Runs, NEW w \in Rows, NEW k \in 1 .. LastTrigger
  PROVE  <<r, w, k>> \in Pids
  BY DEF Pids

\* A run that has pipelines has started to fire.
LEMMA DeployedHasFired ==
  ASSUME Typed, NothingAhead, NEW x \in Procs, settle[x].pc # "idle", NEW q \in Runs,
         DeployedBy(q, settle[x].decided)
  PROVE  run[q].pc \notin {"idle", "decide", "begin", "siblings"}
<1>1. Clean(settle[x].decided) /\ settle[x].decided.good \subseteq Pids
  BY DEF Typed, GoodSettle, SettleRecord, StatusMap
<1>2. PICK p \in settle[x].decided.good : TRUE
  BY <1>1 DEF Clean
<1>3. p \in Pids /\ p[1] = q /\ ci[p] # "none"
  BY <1>1, <1>2 DEF DeployedBy, Succeeded
<1> QED
  BY <1>3 DEF NothingAhead, Ahead

\* A decision stands while its run covers the same elements.
LEMMA DecisionsStand ==
  ASSUME Typed, NothingAhead, DecidedIsDeployed, SuccessKept,
         \A q \in Runs : \/ run'[q].elems = run[q].elems
                         \/ run[q].pc \in {"idle", "decide", "begin", "siblings"},
         \A x \in Procs : settle'[x].pc # "idle" =>
           \/ settle[x].pc # "idle" /\ settle'[x].decided = settle[x].decided
           \/ \E q \in Runs : DeployedBy(q, settle[x].decided)'
  PROVE  DecidedIsDeployed'
<1> SUFFICES ASSUME NEW x \in Procs, settle[x].pc # "idle", settle'[x].decided = settle[x].decided
             PROVE  \E q \in Runs : DeployedBy(q, settle[x].decided)'
  BY DEF DecidedIsDeployed
<1>1. PICK q \in Runs : DeployedBy(q, settle[x].decided)
  BY DEF DecidedIsDeployed
<1>2. run'[q].elems = run[q].elems
  BY <1>1, DeployedHasFired
<1>3. settle[x].decided.good \subseteq Pids /\ run[q].elems \subseteq Rows
  BY DEF Typed, GoodSettle, SettleRecord, StatusMap, GoodRun, RunRecord
<1>4. Deployed(q)'
  BY <1>1, <1>2, <1>3, RunPid DEF DeployedBy, Deployed, SuccessKept
<1>5. \A p \in settle[x].decided.good : p[1] = q /\ Succeeded(p)'
  BY <1>1, <1>3 DEF DeployedBy, SuccessKept
<1> QED
  BY <1>4, <1>5 DEF DeployedBy

\* A step of one run that leaves the tracking and the callbacks alone.
LEMMA RunWalks ==
  ASSUME Typed, DeployInv, NEW r \in Runs, NEW R, run' = [run EXCEPT ![r] = R],
         track' = track, owner' = owner, hnd' = hnd, SuccessKept,
         \A x \in Procs : settle'[x].pc # "idle" =>
           settle[x].pc # "idle" /\ settle'[x].decided = settle[x].decided,
         \A p \in Pids : IF p[1] = r THEN Ahead(R, p) => ci'[p] = "none" ELSE ci'[p] = ci[p],
         Works(R) => Works(run[r]), Opens(R) => Opens(run[r]),
         \A p \in R.started \union R.elem : p[1] = r,
         R.elems = run[r].elems \/ run[r].pc = "siblings",
         R.pc \in {"decide", "begin", "siblings"} => R.todo = R.elems /\ R.k = 1,
         \A w \in R.elems, k \in 1 .. LastTrigger :
           Behind(R, w, k) /\ ~R.missed =>
             w \in run[r].elems /\ Behind(run[r], w, k) /\ ~run[r].missed
  PROVE  DeployInv'
<1>1. run'[r] = R /\ \A q \in Runs \ {r} : run'[q] = run[q]
  BY DEF Typed
<1>2. NothingAhead'
  <2> SUFFICES ASSUME NEW p \in Pids, Ahead(run'[p[1]], p) PROVE ci'[p] = "none"
    BY DEF NothingAhead
  <2> QED
    BY <1>1, PidParts DEF DeployInv, NothingAhead
<1>3. SuccessIsReported'
  <2>1. track.st.good \subseteq Pids /\ \A h \in Handlers : \A e \in hnd[h] : e.p \in Pids
    BY DEF Typed, TrackingOf, StatusMap, Events
  <2> QED
    BY <2>1 DEF DeployInv, SuccessIsReported, SuccessKept
<1>4. TrackingIsOwners'
  BY DEF DeployInv, TrackingIsOwners
<1>5. WorkerOwns'
  BY <1>1 DEF DeployInv, WorkerOwns
<1>6. WalkedIsListed'
  <2> SUFFICES ASSUME NEW q \in Runs
               PROVE  /\ run'[q].pc \in {"decide", "begin", "siblings"} =>
                           run'[q].todo = run'[q].elems /\ run'[q].k = 1
                      /\ \A w \in run'[q].elems, k \in 1 .. LastTrigger :
                           Behind(run'[q], w, k) /\ ~run'[q].missed => <<q, w, k>> \in track'.ids
    BY DEF WalkedIsListed
  <2>1. CASE q = r
    BY <1>1, <2>1 DEF DeployInv, WalkedIsListed
  <2>2. CASE q # r
    BY <1>1, <2>2 DEF DeployInv, WalkedIsListed
  <2> QED
    BY <2>1, <2>2
<1>7. ClosedIsListed'
  <2>1. run[r].pc = "siblings" => owner = r /\ track.st.firing
    BY DEF DeployInv, WorkerOwns, Works, Opens
  <2> QED
    BY <1>1, <2>1 DEF DeployInv, ClosedIsListed
<1>8. DecidedIsDeployed'
  BY <1>1, DecisionsStand DEF DeployInv
<1> QED
  BY <1>2, <1>3, <1>4, <1>5, <1>6, <1>7, <1>8 DEF DeployInv

\* A run that is given up, or has done what it had to do with the tracking.
LEMMA RunLeaves ==
  ASSUME Typed, DeployInv, NEW r \in Runs, NEW pc, Goto(r, pc),
         pc \in {"clear", "settling", "undo", "requeue", "done"},
         Works(run[r]) \/ pc = "done", pc = "clear" => Opens(run[r]),
         track' = track, owner' = owner, hnd' = hnd, ci' = ci,
         \A x \in Procs : settle'[x].pc # "idle" =>
           settle[x].pc # "idle" /\ settle'[x].decided = settle[x].decided
  PROVE  DeployInv'
<1> DEFINE R == [run[r] EXCEPT !.pc = pc]
<1>1. run[r] \in RunRecord
  BY DEF Typed, GoodRun
<1>2. /\ R.pc = pc /\ R.started = run[r].started /\ R.elem = run[r].elem
      /\ R.elems = run[r].elems
  BY <1>1 DEF RunRecord
<1>3. run' = [run EXCEPT ![r] = R]
  BY DEF Goto
<1> HIDE DEF R
<1>4. SuccessKept
  BY DEF SuccessKept, Succeeded
<1>5. /\ \A p \in Pids : ~Ahead(R, p)
      /\ \A w, k : ~Behind(R, w, k)
  BY <1>2 DEF Ahead, Behind
<1>6. \A p \in Pids : IF p[1] = r THEN Ahead(R, p) => ci'[p] = "none" ELSE ci'[p] = ci[p]
  BY <1>5
<1>7. /\ Works(R) => Works(run[r])
      /\ Opens(R) => Opens(run[r])
      /\ \A p \in R.started \union R.elem : p[1] = r
      /\ R.pc \in {"decide", "begin", "siblings"} => R.todo = R.elems /\ R.k = 1
  BY <1>2 DEF Works, Opens, DeployInv, WorkerOwns
<1> QED
  BY <1>2, <1>3, <1>4, <1>5, <1>6, <1>7, RunWalks

\* The walk over the elements and their triggers.
LEMMA RunFires ==
  ASSUME Typed, DeployInv, NEW r \in Runs,
         \/ ApproveDeploysNow(r) \/ InsertElement(r) \/ RetrySiblings(r) \/ TriggerStarts(r)
         \/ TriggerFails(r) \/ ElementFired(r) \/ RewriteElement(r)
  PROVE  DeployInv'
<1>0. /\ run[r] \in RunRecord /\ HasWork(run[r])
      /\ \A p \in run[r].started \union run[r].elem : p[1] = r
      /\ run[r].pc \in {"decide", "begin", "siblings"} =>
           run[r].todo = run[r].elems /\ run[r].k = 1
      /\ \A p \in Pids : p[1] = r /\ Ahead(run[r], p) => ci[p] = "none"
  BY DEF Typed, GoodRun, DeployInv, WorkerOwns, WalkedIsListed, NothingAhead
<1>1. /\ track' = track /\ owner' = owner /\ hnd' = hnd /\ settle' = settle
      /\ ~TriggerStarts(r) => ci' = ci
      /\ \A x \in Procs : settle'[x].pc # "idle" =>
           settle[x].pc # "idle" /\ settle'[x].decided = settle[x].decided
  BY DEF ApproveDeploysNow, InsertElement, RetrySiblings, TriggerStarts, TriggerFails,
     ElementFired, RewriteElement, orderVars, procVars, history
<1>2. ci' = ci => SuccessKept
  BY DEF SuccessKept, Succeeded
<1>3. CASE ApproveDeploysNow(r)
  <2> DEFINE R == [run[r] EXCEPT !.pc = "begin"]
  <2>1. /\ R.pc = "begin" /\ R.started = run[r].started /\ R.elem = run[r].elem
        /\ R.elems = run[r].elems /\ R.todo = run[r].todo /\ R.k = run[r].k
        /\ run' = [run EXCEPT ![r] = R] /\ run[r].pc = "decide"
    BY <1>0, <1>3 DEF ApproveDeploysNow, At, Goto, RunRecord
  <2> HIDE DEF R
  <2>2. ci' = ci
    BY <1>1, <1>3 DEF ApproveDeploysNow, history
  <2>3. \A p \in Pids : IF p[1] = r THEN Ahead(R, p) => ci'[p] = "none" ELSE ci'[p] = ci[p]
    BY <1>0, <2>1, <2>2 DEF Ahead
  <2>4. /\ Works(R) => Works(run[r])
        /\ Opens(R) => Opens(run[r])
        /\ \A w, k : ~Behind(R, w, k)
    BY <2>1 DEF Works, Opens, Behind
  <2>20. \A w \in R.elems, k \in 1 .. LastTrigger :
           Behind(R, w, k) /\ ~R.missed =>
             w \in run[r].elems /\ Behind(run[r], w, k) /\ ~run[r].missed
    BY <2>1, <2>4
  <2>21. /\ \A p \in R.started \union R.elem : p[1] = r
         /\ R.elems = run[r].elems \/ run[r].pc = "siblings"
         /\ R.pc \in {"decide", "begin", "siblings"} => R.todo = R.elems /\ R.k = 1
    BY <1>0, <2>1, <2>2, <2>3
  <2> QED
    BY <1>0, <1>1, <1>2, <2>1, <2>2, <2>3, <2>4, <2>20, <2>21, RunWalks
<1>4. CASE InsertElement(r)
  <2> DEFINE R == [run[r] EXCEPT !.pc = "fire", !.k = 1, !.elem = {}]
  <2>1. /\ R.pc = "fire" /\ R.started = run[r].started /\ R.elem = {}
        /\ R.elems = run[r].elems /\ R.todo = run[r].todo /\ R.k = 1 /\ R.missed = run[r].missed
        /\ run' = [run EXCEPT ![r] = R] /\ run[r].pc = "insert"
    BY <1>0, <1>4 DEF InsertElement, At, RunRecord
  <2> HIDE DEF R
  <2>2. ci' = ci
    BY <1>4 DEF InsertElement
  <2>3. \A p \in Pids : IF p[1] = r THEN Ahead(R, p) => ci'[p] = "none" ELSE ci'[p] = ci[p]
    BY <1>0, <2>1, <2>2 DEF Ahead
  <2>4. /\ Works(R) => Works(run[r])
        /\ Opens(R) => Opens(run[r])
    BY <2>1 DEF Works, Opens
  <2>5. \A w \in R.elems, k \in 1 .. LastTrigger : Behind(R, w, k) => Behind(run[r], w, k)
    BY <2>1 DEF Behind
  <2>20. \A w \in R.elems, k \in 1 .. LastTrigger :
           Behind(R, w, k) /\ ~R.missed =>
             w \in run[r].elems /\ Behind(run[r], w, k) /\ ~run[r].missed
    BY <2>1, <2>5
  <2>21. /\ \A p \in R.started \union R.elem : p[1] = r
         /\ R.elems = run[r].elems \/ run[r].pc = "siblings"
         /\ R.pc \in {"decide", "begin", "siblings"} => R.todo = R.elems /\ R.k = 1
    BY <1>0, <2>1, <2>2, <2>3
  <2> QED
    BY <1>0, <1>1, <1>2, <2>1, <2>2, <2>3, <2>4, <2>5, <2>20, <2>21, RunWalks
<1>5. CASE RetrySiblings(r)
  <2> DEFINE covered == IF Existing # {} THEN Existing ELSE run[r].elems
             R == [run[r] EXCEPT !.pc = "fire", !.elems = covered, !.todo = covered]
  <2>1. /\ R.pc = "fire" /\ R.started = run[r].started /\ R.elem = run[r].elem
        /\ R.elems = R.todo /\ R.k = 1
        /\ run' = [run EXCEPT ![r] = R] /\ run[r].pc = "siblings"
    BY <1>0, <1>5 DEF RetrySiblings, At, RunRecord
  <2> HIDE DEF R
  <2>2. ci' = ci
    BY <1>5 DEF RetrySiblings
  <2>3. \A p \in Pids : IF p[1] = r THEN Ahead(R, p) => ci'[p] = "none" ELSE ci'[p] = ci[p]
    BY <1>0, <2>1, <2>2 DEF Ahead
  <2>4. /\ Works(R) => Works(run[r])
        /\ Opens(R) => Opens(run[r])
    BY <2>1 DEF Works, Opens
  <2>5. \A w \in R.elems, k \in 1 .. LastTrigger : ~Behind(R, w, k)
    BY <2>1 DEF Behind
  <2>20. \A w \in R.elems, k \in 1 .. LastTrigger :
           Behind(R, w, k) /\ ~R.missed =>
             w \in run[r].elems /\ Behind(run[r], w, k) /\ ~run[r].missed
    BY <2>1, <2>5
  <2>21. /\ \A p \in R.started \union R.elem : p[1] = r
         /\ R.elems = run[r].elems \/ run[r].pc = "siblings"
         /\ R.pc \in {"decide", "begin", "siblings"} => R.todo = R.elems /\ R.k = 1
    BY <1>0, <2>1, <2>2, <2>3
  <2> QED
    BY <1>0, <1>1, <1>2, <2>1, <2>2, <2>3, <2>4, <2>5, <2>20, <2>21, RunWalks
<1>6. CASE TriggerStarts(r)
  <2> DEFINE p0 == CurrentPid(r)
             R == [run[r] EXCEPT !.pc = "record", !.elem = run[r].elem \union {p0}]
  <2>1. /\ R.pc = "record" /\ R.started = run[r].started /\ R.elem = run[r].elem \union {p0}
        /\ R.elems = run[r].elems /\ R.todo = run[r].todo /\ R.k = run[r].k
        /\ R.missed = run[r].missed
        /\ run' = [run EXCEPT ![r] = R] /\ run[r].pc = "fire"
    BY <1>0, <1>6 DEF TriggerStarts, At, RunRecord
  <2> HIDE DEF R
  <2>2. run[r].todo # {} /\ run[r].k <= LastTrigger /\ run[r].k \in Nat
    BY <1>0, <1>6 DEF TriggerStarts, At, HasWork, RunRecord
  <2>3. /\ p0 \in Pids /\ p0[1] = r /\ p0[2] = FirstOf(run[r].todo) /\ p0[3] = run[r].k
        /\ p0[2] \in run[r].todo
    BY <2>2, CurrentPidTyped, CurrentRowTyped DEF CurrentPid, CurrentRow
  <2>4. ci[p0] = "none"
    BY <1>0, <2>1, <2>3 DEF Ahead
  <2>5. ci' = [ci EXCEPT ![p0] = "running"]
    BY <1>6 DEF TriggerStarts
  <2> HIDE DEF p0
  <2>6. SuccessKept
    BY <2>4, <2>5 DEF SuccessKept, Succeeded, Typed
  <2>7. ASSUME NEW p \in Pids
        PROVE  IF p[1] = r THEN Ahead(R, p) => ci'[p] = "none" ELSE ci'[p] = ci[p]
    <3>1. p[3] \in Nat
      BY PidParts, RunAssumption DEF LastTrigger
    <3>2. Ahead(R, p) => Ahead(run[r], p) /\ p # p0
      BY <2>1, <2>2, <2>3, <3>1 DEF Ahead
    <3> QED
      BY <1>0, <2>3, <2>5, <3>2 DEF Typed
  <2>8. /\ Works(R) => Works(run[r])
        /\ Opens(R) => Opens(run[r])
    BY <2>1 DEF Works, Opens
  <2>9. \A w \in R.elems, k \in 1 .. LastTrigger : Behind(R, w, k) => Behind(run[r], w, k)
    BY <2>1 DEF Behind
  <2>20. \A w \in R.elems, k \in 1 .. LastTrigger :
           Behind(R, w, k) /\ ~R.missed =>
             w \in run[r].elems /\ Behind(run[r], w, k) /\ ~run[r].missed
    BY <2>1, <2>9
  <2>21. /\ \A p \in R.started \union R.elem : p[1] = r
         /\ R.elems = run[r].elems \/ run[r].pc = "siblings"
         /\ R.pc \in {"decide", "begin", "siblings"} => R.todo = R.elems /\ R.k = 1
    BY <1>0, <2>1, <2>2, <2>3
  <2> QED
    BY <1>0, <1>1, <2>1, <2>3, <2>6, <2>7, <2>8, <2>9, <2>20, <2>21, RunWalks
<1>7. CASE TriggerFails(r)
  <2> DEFINE R == [run[r] EXCEPT !.k = run[r].k + 1, !.missed = TRUE]
  <2>1. /\ R.pc = "fire" /\ R.started = run[r].started /\ R.elem = run[r].elem
        /\ R.elems = run[r].elems /\ R.todo = run[r].todo /\ R.k = run[r].k + 1 /\ R.missed
        /\ run' = [run EXCEPT ![r] = R] /\ run[r].pc = "fire" /\ run[r].k \in Nat
    BY <1>0, <1>7 DEF TriggerFails, At, RunRecord
  <2> HIDE DEF R
  <2>2. ci' = ci
    BY <1>7 DEF TriggerFails
  <2>3. ASSUME NEW p \in Pids, Ahead(R, p)
        PROVE  Ahead(run[r], p)
    <3>1. p[3] \in Nat
      BY PidParts, RunAssumption DEF LastTrigger
    <3> QED
      BY <2>1, <2>3, <3>1 DEF Ahead
  <2>4. \A p \in Pids : IF p[1] = r THEN Ahead(R, p) => ci'[p] = "none" ELSE ci'[p] = ci[p]
    BY <1>0, <2>2, <2>3
  <2>5. /\ Works(R) => Works(run[r])
        /\ Opens(R) => Opens(run[r])
    BY <2>1 DEF Works, Opens
  <2>20. \A w \in R.elems, k \in 1 .. LastTrigger :
           Behind(R, w, k) /\ ~R.missed =>
             w \in run[r].elems /\ Behind(run[r], w, k) /\ ~run[r].missed
    BY <2>1
  <2>21. /\ \A p \in R.started \union R.elem : p[1] = r
         /\ R.elems = run[r].elems \/ run[r].pc = "siblings"
         /\ R.pc \in {"decide", "begin", "siblings"} => R.todo = R.elems /\ R.k = 1
    BY <1>0, <2>1, <2>2, <2>3
  <2> QED
    BY <1>0, <1>1, <1>2, <2>1, <2>2, <2>4, <2>5, <2>20, <2>21, RunWalks
<1>8. CASE ElementFired(r)
  <2> DEFINE w0 == CurrentRow(r)
             all == run[r].started \union run[r].elem
             next == AfterElement(r, all)
             left == IF next = "rewrite" THEN run[r].elems ELSE run[r].todo \ {w0}
             R == [run[r] EXCEPT !.pc = next, !.started = all, !.k = 1, !.elem = {}, !.todo = left]
  <2>1. /\ R.pc = next /\ R.started = all /\ R.elem = {} /\ R.elems = run[r].elems
        /\ R.todo = left /\ R.k = 1 /\ R.missed = run[r].missed
        /\ run' = [run EXCEPT ![r] = R] /\ run[r].pc = "fire" /\ run[r].k \in Nat
        /\ run[r].k > LastTrigger
    BY <1>0, <1>8 DEF ElementFired, At, RunRecord
  <2>2. /\ next \in {"insert", "fire", "purge", "release", "close", "rewrite"}
        /\ next \in {"close", "rewrite"} => run[r].todo \ {w0} = {}
    BY DEF AfterElement
  <2>3. next \in {"insert", "fire"} => left = run[r].todo \ {w0}
    OBVIOUS
  <2>4. w0 = FirstOf(run[r].todo)
    BY DEF CurrentRow
  <2> HIDE DEF R, next, left, w0
  <2>5. ci' = ci
    BY <1>8 DEF ElementFired
  <2>6. \A p \in Pids : Ahead(R, p) => Ahead(run[r], p)
    BY <2>1, <2>2, <2>3, <2>4 DEF Ahead
  <2>7. \A p \in Pids : IF p[1] = r THEN Ahead(R, p) => ci'[p] = "none" ELSE ci'[p] = ci[p]
    BY <1>0, <2>5, <2>6
  <2>8. /\ Works(R) => Works(run[r])
        /\ Opens(R) => Opens(run[r])
    BY <2>1 DEF Works, Opens
  <2>9. ASSUME NEW w \in R.elems, NEW k \in 1 .. LastTrigger, Behind(R, w, k)
        PROVE  Behind(run[r], w, k)
    <3>1. k < run[r].k /\ ~(k < R.k)
      BY <2>1, RunAssumption DEF LastTrigger
    <3>2. w \notin run[r].todo \/ w = w0
      BY <2>1, <2>2, <2>3, <2>9, <3>1 DEF Behind
    <3> QED
      BY <2>1, <2>4, <3>1, <3>2 DEF Behind
  <2>20. \A w \in R.elems, k \in 1 .. LastTrigger :
           Behind(R, w, k) /\ ~R.missed =>
             w \in run[r].elems /\ Behind(run[r], w, k) /\ ~run[r].missed
    BY <2>1, <2>9
  <2>21. /\ \A p \in R.started \union R.elem : p[1] = r
         /\ R.elems = run[r].elems \/ run[r].pc = "siblings"
         /\ R.pc \in {"decide", "begin", "siblings"} => R.todo = R.elems /\ R.k = 1
    BY <1>0, <2>1, <2>2, <2>3
  <2> QED
    BY <1>0, <1>1, <1>2, <2>1, <2>2, <2>5, <2>7, <2>8, <2>9, <2>20, <2>21, RunWalks
<1>9. CASE RewriteElement(r)
  <2> DEFINE left == run[r].todo \ {CurrentRow(r)}
             next == IF left = {} THEN "close" ELSE "rewrite"
             R == [run[r] EXCEPT !.todo = left, !.pc = next]
  <2>1. /\ R.pc \in {"close", "rewrite"} /\ R.started = run[r].started /\ R.elem = run[r].elem
        /\ R.elems = run[r].elems /\ R.missed = run[r].missed
        /\ run' = [run EXCEPT ![r] = R] /\ run[r].pc = "rewrite"
    BY <1>0, <1>9 DEF RewriteElement, At, RunRecord
  <2> HIDE DEF R
  <2>2. ci' = ci
    BY <1>9 DEF RewriteElement
  <2>3. \A p \in Pids : IF p[1] = r THEN Ahead(R, p) => ci'[p] = "none" ELSE ci'[p] = ci[p]
    BY <2>1, <2>2 DEF Ahead
  <2>4. /\ Works(R) => Works(run[r])
        /\ Opens(R) => Opens(run[r])
        /\ \A w, k : Behind(run[r], w, k)
    BY <2>1 DEF Works, Opens, Behind
  <2>20. \A w \in R.elems, k \in 1 .. LastTrigger :
           Behind(R, w, k) /\ ~R.missed =>
             w \in run[r].elems /\ Behind(run[r], w, k) /\ ~run[r].missed
    BY <2>1, <2>4
  <2>21. /\ \A p \in R.started \union R.elem : p[1] = r
         /\ R.elems = run[r].elems \/ run[r].pc = "siblings"
         /\ R.pc \in {"decide", "begin", "siblings"} => R.todo = R.elems /\ R.k = 1
    BY <1>0, <2>1, <2>2, <2>3
  <2> QED
    BY <1>0, <1>1, <1>2, <2>1, <2>2, <2>3, <2>4, <2>20, <2>21, RunWalks
<1> QED
  BY <1>3, <1>4, <1>5, <1>6, <1>7, <1>8, <1>9

\* The tracking of a settled order lists every pipeline of its run, as a success.
LEMMA SettledIsDeployed ==
  ASSUME Typed, NEW t \in TrackingOf(Pids), IsSettled(t), NEW q \in Runs,
         \A p \in t.st.good : p[1] = q /\ Succeeded(p),
         \A w \in run[q].elems, k \in 1 .. LastTrigger : <<q, w, k>> \in t.ids
  PROVE  DeployedBy(q, t.st)
  BY DEF DeployedBy, Deployed, IsSettled

\* A claim that finds every other request over.
LEMMA ClaimsDeploy ==
  ASSUME Typed, OwnerInv, DeployInv, Undisturbed', NEW r \in Runs, Claims(r)
  PROVE  DeployInv'
<1>0. PICK kind, pc, elems :
        /\ Starting(r, kind, pc, elems)
        /\ \/ pc \in {"decide", "begin"} /\ track' = track /\ owner' = owner
           \/ pc = "siblings" /\ track' = Opened /\ owner' = r
        /\ UNCHANGED <<ci, hnd, settle>>
  <2>1. CASE PlaceDirect(r) \/ ApproveClaim(r) \/ WindowClaim(r)
    BY <2>1 DEF PlaceDirect, ApproveClaim, WindowClaim, procVars
  <2>2. CASE RetryClaim(r)
    BY <2>2 DEF RetryClaim, procVars
  <2> QED
    BY <2>1, <2>2 DEF Claims
<1>1. /\ run'[r].pc = pc /\ run'[r].elems = elems /\ run'[r].todo = elems /\ run'[r].k = 1
      /\ run'[r].started = {} /\ run'[r].elem = {}
      /\ \A q \in Runs : q # r => run'[q] = run[q]
      /\ run[r].pc = "idle"
  BY <1>0 DEF Starting, IsNext, FreshRun, Typed
<1>2. /\ \A q \in Runs : Over(q)
      /\ \A h \in Handlers : hnd[h] = {}
  BY <1>0 DEF Starting, Undisturbed
<1>3. owner # r
  BY <1>1 DEF OwnerInv, OwnerHasBegun
<1>4. SuccessKept
  BY <1>0 DEF SuccessKept, Succeeded
<1>5. /\ Opened.ids = {} /\ Opened.st.good = {} /\ Opened.st.firing
  BY DEF Opened, NoStatus
<1>6. NothingAhead'
  <2> SUFFICES ASSUME NEW p \in Pids, Ahead(run'[p[1]], p) PROVE ci'[p] = "none"
    BY DEF NothingAhead
  <2>1. Ahead(run[p[1]], p)
    BY <1>1, PidParts DEF Ahead
  <2> QED
    BY <1>0, <2>1 DEF DeployInv, NothingAhead
<1>7. SuccessIsReported'
  <2>1. \A p \in track'.st.good : p \in track.st.good
    BY <1>0, <1>5
  <2> QED
    BY <1>0, <1>2, <2>1 DEF DeployInv, SuccessIsReported, Succeeded
<1>8. TrackingIsOwners'
  BY <1>0, <1>2, <1>5 DEF DeployInv, TrackingIsOwners
<1>9. WorkerOwns'
  <2>1. \A q \in Runs : q # r => ~Works(run'[q]) /\ ~Opens(run'[q])
    BY <1>1, <1>2 DEF Works, Opens, Over
  <2>2. /\ Works(run'[r]) => owner' = r
        /\ Opens(run'[r]) => track'.st.firing
    BY <1>0, <1>1, <1>5 DEF Works, Opens
  <2> QED
    BY <1>1, <2>1, <2>2 DEF DeployInv, WorkerOwns
<1>10. WalkedIsListed'
  <2>1. \A q \in Runs : \A w, k : ~Behind(run'[q], w, k)
    BY <1>0, <1>1, <1>2 DEF Behind, Over
  <2>2. \A q \in Runs : run'[q].pc \in {"decide", "begin", "siblings"} =>
                          run'[q].todo = run'[q].elems /\ run'[q].k = 1
    BY <1>1 DEF DeployInv, WalkedIsListed
  <2> QED
    BY <2>1, <2>2 DEF WalkedIsListed
<1>11. ClosedIsListed'
  BY <1>0, <1>1, <1>3, <1>5 DEF DeployInv, ClosedIsListed
<1>12. DecidedIsDeployed'
  <2>1. \A q \in Runs : run'[q].elems = run[q].elems
                          \/ run[q].pc \in {"idle", "decide", "begin", "siblings"}
    BY <1>1
  <2>2. \A x \in Procs : settle'[x].pc # "idle" =>
          settle[x].pc # "idle" /\ settle'[x].decided = settle[x].decided
    BY <1>0
  <2> QED
    BY <1>4, <2>1, <2>2, DecisionsStand DEF DeployInv
<1> QED
  BY <1>6, <1>7, <1>8, <1>9, <1>10, <1>11, <1>12 DEF DeployInv

\* Opening the tracking finds nothing fired and nobody else at work.
LEMMA OpeningDeploys ==
  ASSUME Typed, WaitInv, DeployInv, NEW r \in Runs, BeginOrderTriggerRun(r)
  PROVE  DeployInv'
<1>1. /\ status = "provisioning" /\ ~AnyFired
      /\ \A q \in Runs : q # r => Over(q)
  BY DEF WaitInv, UndoersAreUntouched, UntouchedIsAlone, Undoable, BeginOrderTriggerRun, At
<1>2. /\ \A p \in Pids : ci[p] = "none"
      /\ \A h \in Handlers : hnd[h] = {}
      /\ \A x \in Procs : settle[x].pc = "idle"
  BY <1>1 DEF WaitInv, DecisionsFollowPipelines, AnyFired
<1>3. /\ track' = Opened /\ owner' = r /\ UNCHANGED <<ci, hnd, settle>>
  BY <1>1 DEF BeginOrderTriggerRun, procVars
<1>4. /\ run[r].pc = "begin" /\ run'[r].pc = "insert" /\ run'[r].todo = run[r].todo
      /\ run'[r].elems = run[r].elems /\ run'[r].missed = run[r].missed
      /\ run'[r].started = run[r].started /\ run'[r].elem = run[r].elem
      /\ \A q \in Runs : q # r => run'[q] = run[q]
  BY DEF BeginOrderTriggerRun, At, Goto, Typed, GoodRun, RunRecord
<1>5. /\ Opened.ids = {} /\ Opened.st.good = {} /\ Opened.st.firing
  BY DEF Opened, NoStatus
<1>6. NothingAhead' /\ SuccessIsReported' /\ TrackingIsOwners' /\ ClosedIsListed' /\ DecidedIsDeployed'
  BY <1>2, <1>3, <1>5 DEF NothingAhead, SuccessIsReported, TrackingIsOwners, ClosedIsListed,
     DecidedIsDeployed
<1>7. WorkerOwns'
  <2>1. \A q \in Runs : q # r => ~Works(run'[q]) /\ ~Opens(run'[q])
    BY <1>1, <1>4 DEF Works, Opens, Over
  <2> QED
    BY <1>3, <1>4, <1>5, <2>1 DEF DeployInv, WorkerOwns
<1>8. WalkedIsListed'
  <2>1. \A q \in Runs : \A w, k : q # r => ~Behind(run'[q], w, k)
    BY <1>1, <1>4 DEF Behind, Over
  <2>2. \A w \in run'[r].elems, k \in 1 .. LastTrigger : ~Behind(run'[r], w, k)
    BY <1>4 DEF Behind, DeployInv, WalkedIsListed
  <2>3. \A q \in Runs : run'[q].pc \in {"decide", "begin", "siblings"} =>
                          run'[q].todo = run'[q].elems /\ run'[q].k = 1
    BY <1>4 DEF DeployInv, WalkedIsListed
  <2> QED
    BY <2>1, <2>2, <2>3 DEF WalkedIsListed
<1> QED
  BY <1>6, <1>7, <1>8 DEF DeployInv

\* Recording the id of a trigger, or giving the tracking up.
LEMMA TrackingDeploys ==
  ASSUME Typed, OwnerInv, DeployInv, Undisturbed, NEW r \in Runs,
         RecordOrderPipelineId(r) \/ ClearOrderTriggerRun(r) \/ ReleaseRetryClaim(r)
  PROVE  DeployInv'
<1>0. /\ run[r] \in RunRecord /\ HasWork(run[r]) /\ run[r].pc \in {"record", "clear", "release"}
      /\ run'[r].elems = run[r].elems /\ run'[r].missed = run[r].missed
      /\ run'[r].started = run[r].started /\ run'[r].elem = run[r].elem
      /\ run'[r].todo = run[r].todo
      /\ \A q \in Runs : q # r => run'[q] = run[q]
      /\ owner' = owner /\ UNCHANGED <<ci, hnd, settle>>
  <2>1. run[r] \in RunRecord /\ HasWork(run[r])
    BY DEF Typed, GoodRun
  <2>2. CASE RecordOrderPipelineId(r)
    BY <2>1, <2>2 DEF RecordOrderPipelineId, At, Typed, RunRecord, procVars, history
  <2>3. CASE ClearOrderTriggerRun(r) \/ ReleaseRetryClaim(r)
    BY <2>1, <2>3 DEF ClearOrderTriggerRun, ReleaseRetryClaim, At, Goto, Typed, RunRecord, procVars,
       history
  <2> QED
    BY <2>2, <2>3
<1>1. owner = r /\ track.st.firing
  BY <1>0 DEF DeployInv, WorkerOwns, Works, Opens
<1>2. \A q \in Runs : q # r => Over(q)
  BY <1>0 DEF OwnerInv, AtMostOneRun, Undisturbed, Over
<1>3. SuccessKept
  BY <1>0 DEF SuccessKept, Succeeded
<1>4. \/ /\ RecordOrderPipelineId(r) /\ run[r].pc = "record" /\ run'[r].pc = "fire"
         /\ track'.ids = track.ids \union {CurrentPid(r)} /\ track'.st = track.st
         /\ run'[r].k = run[r].k + 1
      \/ track' = Cleared /\ run'[r].pc \in {"undo", "done"}
  <2>1. CASE RecordOrderPipelineId(r)
    <3>1. AppendOne(track, CurrentPid(r)).ids = track.ids \union {CurrentPid(r)}
      BY DEF AppendOne, Typed, TrackingOf
    <3>2. AppendOne(track, CurrentPid(r)).st = track.st
      BY DEF AppendOne, Typed, TrackingOf
    <3>3. run[r].pc = "record" /\ run'[r].pc = "fire" /\ run'[r].k = run[r].k + 1
      BY <1>0, <2>1 DEF RecordOrderPipelineId, At, Typed, RunRecord
    <3> QED
      BY <2>1, <3>1, <3>2, <3>3 DEF RecordOrderPipelineId
  <2>2. CASE ClearOrderTriggerRun(r) \/ ReleaseRetryClaim(r)
    BY <1>0, <2>2 DEF ClearOrderTriggerRun, ReleaseRetryClaim, At, Goto, Typed, RunRecord
  <2> QED
    BY <2>1, <2>2
<1>5. Cleared.ids = {} /\ Cleared.st.good = {}
  BY DEF Cleared, NoStatus
<1>6. NothingAhead'
  <2> SUFFICES ASSUME NEW p \in Pids, Ahead(run'[p[1]], p) PROVE ci'[p] = "none"
    BY DEF NothingAhead
  <2>1. p[1] \in Runs /\ p[3] \in Nat /\ run[r].k \in Nat
    BY <1>0, PidParts, RunAssumption DEF LastTrigger, RunRecord
  <2>2. Ahead(run[p[1]], p)
    <3>1. CASE p[1] # r
      BY <1>0, <2>1, <3>1
    <3>2. CASE p[1] = r
      BY <1>0, <1>4, <2>1, <3>2 DEF Ahead
    <3> QED
      BY <3>1, <3>2
  <2> QED
    BY <1>0, <2>2 DEF DeployInv, NothingAhead
<1>7. SuccessIsReported'
  <2>1. \A p \in track'.st.good : p \in track.st.good
    BY <1>4, <1>5
  <2> QED
    BY <1>0, <2>1 DEF DeployInv, SuccessIsReported, Succeeded
<1>8. TrackingIsOwners'
  <2>1. \A p \in track'.ids \union track'.st.good :
          p \in track.ids \union track.st.good \/ p = CurrentPid(r)
    BY <1>4, <1>5
  <2> QED
    BY <1>0, <1>1, <2>1 DEF DeployInv, TrackingIsOwners, CurrentPid
<1>9. WorkerOwns'
  <2>1. \A q \in Runs : q # r => ~Works(run'[q]) /\ ~Opens(run'[q])
    BY <1>0, <1>2 DEF Works, Opens, Over
  <2>2. Opens(run'[r]) => track'.st.firing
    BY <1>1, <1>4 DEF Opens
  <2> QED
    BY <1>0, <1>1, <2>1, <2>2 DEF DeployInv, WorkerOwns
<1>10. WalkedIsListed'
  <2>1. \A q \in Runs : \A w, k : q # r => ~Behind(run'[q], w, k)
    BY <1>0, <1>2 DEF Behind, Over
  <2>2. ASSUME NEW w \in run'[r].elems, NEW k \in 1 .. LastTrigger,
               Behind(run'[r], w, k), ~run'[r].missed
        PROVE  <<r, w, k>> \in track'.ids
    <3>1. RecordOrderPipelineId(r) /\ run[r].k \in Nat /\ k \in Nat
      BY <1>0, <1>4, <2>2 DEF Behind, RunRecord
    <3>2. CASE Behind(run[r], w, k)
      BY <1>0, <1>4, <2>2, <3>1, <3>2 DEF DeployInv, WalkedIsListed, ClearOrderTriggerRun,
         ReleaseRetryClaim, At, Behind
    <3>3. CASE ~Behind(run[r], w, k)
      <4>1. w = FirstOf(run[r].todo) /\ k = run[r].k
        BY <1>0, <1>4, <2>2, <3>1, <3>3 DEF Behind
      <4> QED
        BY <1>4, <2>2, <4>1 DEF CurrentPid, CurrentRow, Behind
    <3> QED
      BY <3>2, <3>3
  <2>3. \A q \in Runs : run'[q].pc \in {"decide", "begin", "siblings"} =>
                          run'[q].todo = run'[q].elems /\ run'[q].k = 1
    BY <1>0, <1>4 DEF DeployInv, WalkedIsListed
  <2> QED
    BY <2>1, <2>2, <2>3 DEF WalkedIsListed
<1>11. ClosedIsListed'
  BY <1>1, <1>4, <1>5 DEF ClosedIsListed
<1>12. DecidedIsDeployed'
  <2>1. \A q \in Runs : run'[q].elems = run[q].elems
                          \/ run[q].pc \in {"idle", "decide", "begin", "siblings"}
    BY <1>0
  <2>2. \A x \in Procs : settle'[x].pc # "idle" =>
          settle[x].pc # "idle" /\ settle'[x].decided = settle[x].decided
    BY <1>0
  <2> QED
    BY <1>3, <2>1, <2>2, DecisionsStand DEF DeployInv
<1> QED
  BY <1>6, <1>7, <1>8, <1>9, <1>10, <1>11, <1>12 DEF DeployInv

\* Closing the trigger run lists all that was started, and may find it settled.
LEMMA ClosingDeploys ==
  ASSUME Typed, OwnerInv, DeployInv, Undisturbed, NEW r \in Runs, FinishOrderTriggerRun(r)
  PROVE  DeployInv'
<1> DEFINE t == Closed(track, run[r].started, run[r].missed)
<1>0. /\ run[r] \in RunRecord /\ run[r].pc = "close" /\ run'[r].pc \in {"settling", "done"}
      /\ run'[r].elems = run[r].elems /\ run'[r].missed = run[r].missed
      /\ run'[r].started = run[r].started /\ run'[r].elem = run[r].elem
      /\ \A q \in Runs : q # r => run'[q] = run[q]
      /\ owner' = owner /\ UNCHANGED <<ci, hnd>>
      /\ track' = t /\ settle' = [settle EXCEPT ![r] = Settling(t)]
  <2>1. run[r] \in RunRecord
    BY DEF Typed, GoodRun
  <2> QED
    BY <2>1 DEF FinishOrderTriggerRun, At, Goto, Typed, RunRecord, history
<1>1. owner = r
  BY <1>0 DEF DeployInv, WorkerOwns, Works
<1>2. \A q \in Runs : q # r => Over(q)
  BY <1>0 DEF OwnerInv, AtMostOneRun, Undisturbed, Over
<1>3. SuccessKept
  BY <1>0 DEF SuccessKept, Succeeded
<1>4. /\ t \in TrackingOf(Pids) /\ t.ids = track.ids \union run[r].started
      /\ t.st.good = track.st.good /\ t.st.missed = (track.st.missed \/ run[r].missed)
  <2>1. run[r].started \in SUBSET Pids /\ run[r].missed \in BOOLEAN /\ track \in TrackingOf(Pids)
    BY <1>0 DEF Typed, RunRecord
  <2>2. t \in TrackingOf(Pids)
    BY <2>1, TrackingTyped
  <2> QED
    BY <2>1, <2>2 DEF Closed, TrackingOf, StatusMap
<1> HIDE DEF t
<1>5. ~t.st.missed => \A w \in run[r].elems, k \in 1 .. LastTrigger : <<r, w, k>> \in t.ids
  BY <1>0, <1>4 DEF DeployInv, WalkedIsListed, Behind
<1>6. NothingAhead'
  <2> SUFFICES ASSUME NEW p \in Pids, Ahead(run'[p[1]], p) PROVE ci'[p] = "none"
    BY DEF NothingAhead
  <2>1. p[1] # r /\ p[1] \in Runs
    BY <1>0, PidParts DEF Ahead
  <2> QED
    BY <1>0, <2>1 DEF DeployInv, NothingAhead
<1>7. SuccessIsReported'
  BY <1>0, <1>4 DEF DeployInv, SuccessIsReported, Succeeded
<1>8. TrackingIsOwners'
  BY <1>0, <1>1, <1>4 DEF DeployInv, TrackingIsOwners, WorkerOwns
<1>9. WorkerOwns'
  <2>1. \A q \in Runs : q # r => ~Works(run'[q]) /\ ~Opens(run'[q])
    BY <1>0, <1>2 DEF Works, Opens, Over
  <2>2. ~Opens(run'[r])
    BY <1>0 DEF Opens
  <2> QED
    BY <1>0, <1>1, <2>1, <2>2 DEF DeployInv, WorkerOwns
<1>10. WalkedIsListed'
  <2>1. \A q \in Runs : \A w, k : ~Behind(run'[q], w, k)
    BY <1>0, <1>2 DEF Behind, Over
  <2>2. \A q \in Runs : run'[q].pc \in {"decide", "begin", "siblings"} =>
                          run'[q].todo = run'[q].elems /\ run'[q].k = 1
    BY <1>0 DEF DeployInv, WalkedIsListed
  <2> QED
    BY <2>1, <2>2 DEF WalkedIsListed
<1>11. ClosedIsListed'
  BY <1>0, <1>1, <1>5 DEF ClosedIsListed
<1>12. DecidedIsDeployed'
  <2>1. \A q \in Runs : run'[q].elems = run[q].elems
    BY <1>0
  <2>2. ASSUME NEW x \in Procs, settle'[x].pc # "idle"
        PROVE  \/ settle[x].pc # "idle" /\ settle'[x].decided = settle[x].decided
               \/ \E q \in Runs : DeployedBy(q, settle[x].decided)'
    <3>1. CASE x # r
      BY <1>0, <2>2, <3>1 DEF Typed
    <3>2. CASE x = r
      <4>1. settle'[r] = Settling(t)
        BY <1>0, <3>2 DEF Typed
      <4>2. IsSettled(t) /\ settle'[r].decided = t.st
        BY <2>2, <3>2, <4>1 DEF Settling, NotSettling
      <4>3. \A p \in t.st.good : p[1] = r /\ Succeeded(p)
        BY <1>1, <1>4 DEF DeployInv, SuccessIsReported, TrackingIsOwners
      <4>4. DeployedBy(r, t.st)
        BY <1>4, <1>5, <4>2, <4>3, SettledIsDeployed DEF IsSettled
      <4>5. (Deployed(r) /\ \A p \in t.st.good : p[1] = r /\ Succeeded(p)) =>
              DeployedBy(r, settle[x].decided)'
        BY <1>0, <3>2, <4>2 DEF DeployedBy, Deployed, Succeeded
      <4> QED
        BY <4>4, <4>5 DEF DeployedBy
    <3> QED
      BY <3>1, <3>2
  <2> QED
    BY <1>3, <2>1, <2>2, DecisionsStand DEF DeployInv
<1> QED
  BY <1>6, <1>7, <1>8, <1>9, <1>10, <1>11, <1>12 DEF DeployInv

\* A step that moves no run and opens or closes no tracking.
LEMMA RunsStand ==
  ASSUME Typed, DeployInv, run' = run, owner' = owner, SuccessKept,
         \A p \in Pids : ci[p] = "none" => ci'[p] = "none",
         track'.ids = track.ids, track'.st.firing = track.st.firing,
         track'.st.missed = track.st.missed,
         \A p \in track'.st.good : p[1] = owner /\ Succeeded(p)',
         \A h \in Handlers : \A e \in hnd'[h] :
           e.p[1] = owner /\ (e.verdict = "success" => Succeeded(e.p)'),
         \A x \in Procs : settle'[x].pc # "idle" =>
           \/ settle[x].pc # "idle" /\ settle'[x].decided = settle[x].decided
           \/ \E q \in Runs : DeployedBy(q, settle[x].decided)'
  PROVE  DeployInv'
<1>1. NothingAhead'
  BY PidParts DEF DeployInv, NothingAhead
<1>2. SuccessIsReported'
  BY DEF SuccessIsReported
<1>3. TrackingIsOwners'
  BY DEF DeployInv, TrackingIsOwners
<1>4. WorkerOwns' /\ WalkedIsListed' /\ ClosedIsListed'
  BY DEF DeployInv, WorkerOwns, WalkedIsListed, ClosedIsListed
<1>5. DecidedIsDeployed'
  BY DecisionsStand DEF DeployInv
<1> QED
  BY <1>1, <1>2, <1>3, <1>4, <1>5 DEF DeployInv

\* What a pipeline has posted of itself is so.
LEMMA VerdictsAreTrue ==
  ASSUME Typed, NEW p \in Pids, NEW v \in Verdicts
  PROVE  /\ Verdict(p, v) =>
              /\ SuccessKept /\ (v = "success" => Succeeded(p)')
              /\ \A q \in Pids : ci[q] = "none" => ci'[q] = "none"
         /\ v \in Posted(p) /\ v = "success" => Succeeded(p)
<1>1. Verdict(p, v) =>
        \E c \in CiStates :
          /\ ci' = [ci EXCEPT ![p] = c] /\ ci[p] # "none"
          /\ v = "success" => c \in {"success", "recovered"}
          /\ Succeeded(p) => c = "relapsed"
  <2> SUFFICES ASSUME Verdict(p, v)
               PROVE  \E c \in CiStates :
                        /\ ci' = [ci EXCEPT ![p] = c] /\ ci[p] # "none"
                        /\ v = "success" => c \in {"success", "recovered"}
                        /\ Succeeded(p) => c = "relapsed"
    OBVIOUS
  <2>1. CASE ci[p] = "running" /\ v \in Verdicts /\ ci' = [ci EXCEPT ![p] = v]
    BY <2>1 DEF Verdicts, CiStates, Succeeded
  <2>2. CASE ci[p] = "success" /\ v = "failed" /\ ci' = [ci EXCEPT ![p] = "relapsed"]
    BY <2>2 DEF CiStates
  <2>3. CASE ci[p] = "failed" /\ v = "success" /\ ci' = [ci EXCEPT ![p] = "recovered"]
    BY <2>3 DEF CiStates, Succeeded
  <2> QED
    BY <2>1, <2>2, <2>3 DEF Verdict
<1>2. ASSUME NEW c \in CiStates, ci' = [ci EXCEPT ![p] = c], ci[p] # "none",
             v = "success" => c \in {"success", "recovered"},
             Succeeded(p) => c = "relapsed"
      PROVE  /\ SuccessKept /\ (v = "success" => Succeeded(p)')
             /\ \A q \in Pids : ci[q] = "none" => ci'[q] = "none"
  BY <1>2 DEF SuccessKept, Succeeded, Typed
<1>3. v \in Posted(p) /\ v = "success" => Succeeded(p)
  BY DEF Posted, Succeeded, Verdicts
<1> QED
  BY <1>1, <1>2, <1>3

\* Callbacks, and those that do not get through.
LEMMA HandlersDeploy ==
  ASSUME Typed, DeployInv, NEW h \in Handlers, HandlerStep(h) \/ HandlerDies(h)
  PROVE  DeployInv'
<1>0. /\ \A p \in track.ids \union track.st.good : p[1] = owner
      /\ \A p \in track.st.good : p \in Pids /\ Succeeded(p)
      /\ \A g \in Handlers : \A e \in hnd[g] :
           e \in Events /\ e.p \in Pids /\ e.p[1] = owner /\ (e.verdict = "success" => Succeeded(e.p))
  <2>1. track.st.good \subseteq Pids /\ \A g \in Handlers : hnd[g] \subseteq Events
    BY DEF Typed, TrackingOf, StatusMap
  <2> QED
    BY <2>1 DEF DeployInv, TrackingIsOwners, SuccessIsReported, Events
<1>1. UNCHANGED ci => SuccessKept /\ \A p \in Pids : ci[p] = "none" => ci'[p] = "none"
  BY DEF SuccessKept, Succeeded
<1>2. ASSUME NEW p \in Pids, NEW v \in Verdicts, Receives(h, p, v), SuccessKept,
             v = "success" => Succeeded(p)',
             \A q \in Pids : ci[q] = "none" => ci'[q] = "none",
             run' = run, owner' = owner, track' = track, settle' = settle
      PROVE  DeployInv'
  <2>1. \A g \in Handlers : \A e \in hnd'[g] :
          \/ e \in hnd[g]
          \/ e.p = p /\ e.verdict = v /\ p \in track.ids
    BY <1>2 DEF Receives, Typed
  <2>2. \A g \in Handlers : \A e \in hnd'[g] :
          e.p[1] = owner /\ (e.verdict = "success" => Succeeded(e.p)')
    BY <1>0, <1>2, <2>1 DEF SuccessKept
  <2>3. \A q \in track'.st.good : q[1] = owner /\ Succeeded(q)'
    BY <1>0, <1>2 DEF SuccessKept
  <2> QED
    BY <1>2, <2>2, <2>3, RunsStand
<1>3. CASE CallbackArrives(h)
  <2>1. PICK p \in Pids, v \in Verdicts : Verdict(p, v) /\ Receives(h, p, v)
    BY <1>3 DEF CallbackArrives
  <2>2. run' = run /\ owner' = owner /\ track' = track /\ settle' = settle
    BY <1>3 DEF CallbackArrives, orderVars, history
  <2> QED
    BY <1>2, <2>1, <2>2, VerdictsAreTrue
<1>4. CASE CallbackRepeated(h)
  <2>1. PICK p \in Pids : \E v \in Posted(p) : Receives(h, p, v)
    BY <1>4 DEF CallbackRepeated
  <2>2. PICK v \in Posted(p) : Receives(h, p, v)
    BY <2>1
  <2>3. run' = run /\ owner' = owner /\ track' = track /\ settle' = settle /\ ci' = ci
    BY <1>4 DEF CallbackRepeated, orderVars, history
  <2>4. v \in Verdicts
    BY <2>2 DEF Posted, Verdicts
  <2>5. v = "success" => Succeeded(p)'
    BY <2>2, <2>3, <2>4, VerdictsAreTrue DEF Succeeded
  <2> QED
    BY <1>1, <1>2, <2>2, <2>3, <2>4, <2>5
<1>5. CASE MergeSuccessEvent(h)
  <2>1. PICK e \in hnd[h] :
          /\ e.verdict = "success"
          /\ \/ track' = MergeSuccess(track, e.p) /\ settle' = [settle EXCEPT ![h] = Settling(track')]
             \/ UNCHANGED <<track, settle>>
    BY <1>5 DEF MergeSuccessEvent
  <2>2. /\ run' = run /\ owner' = owner /\ ci' = ci /\ SuccessKept
        /\ \A g \in Handlers : \A f \in hnd'[g] : f \in hnd[g]
    BY <1>1, <1>5 DEF MergeSuccessEvent, history, Typed
  <2>3. /\ track' \in TrackingOf(Pids)
        /\ track'.ids = track.ids /\ track'.st.firing = track.st.firing
        /\ track'.st.missed = track.st.missed
        /\ \A p \in track'.st.good : p = e.p \/ p \in track.st.good
    <3>1. track \in TrackingOf(Pids) /\ e.p \in Pids
      BY <1>0 DEF Typed
    <3>2. /\ MergeSuccess(track, e.p).ids = track.ids
          /\ MergeSuccess(track, e.p).st =
               [track.st EXCEPT !.good = track.st.good \union {e.p}, !.bad = track.st.bad \ {e.p}]
      BY <3>1 DEF MergeSuccess, TrackingOf
    <3>3. /\ MergeSuccess(track, e.p).st.firing = track.st.firing
          /\ MergeSuccess(track, e.p).st.missed = track.st.missed
          /\ MergeSuccess(track, e.p).st.good = track.st.good \union {e.p}
      BY <3>1, <3>2 DEF TrackingOf, StatusMap
    <3>4. MergeSuccess(track, e.p) \in TrackingOf(Pids)
      BY <3>1, TrackingTyped
    <3> QED
      BY <2>1, <3>1, <3>2, <3>3, <3>4
  <2>4. \A p \in track'.st.good : p[1] = owner /\ Succeeded(p) /\ Succeeded(p)'
    BY <1>0, <2>1, <2>2, <2>3 DEF Succeeded
  <2>5. ASSUME NEW x \in Procs, settle'[x].pc # "idle"
        PROVE  \/ settle[x].pc # "idle" /\ settle'[x].decided = settle[x].decided
               \/ \E q \in Runs : DeployedBy(q, settle[x].decided)'
    <3>1. CASE settle'[x] = settle[x]
      BY <2>5, <3>1
    <3>2. CASE settle'[x] # settle[x]
      <4>1. settle'[x] = Settling(track')
        BY <2>1, <3>2 DEF Typed
      <4>2. IsSettled(track') /\ settle'[x].decided = track'.st
        BY <2>5, <4>1 DEF Settling, NotSettling
      <4>3. /\ track.ids # {} /\ ~track.st.firing /\ ~track.st.missed
            /\ track.ids \subseteq Pids
        BY <2>3, <4>2 DEF IsSettled, Typed, TrackingOf
      <4>4. owner \in Runs
        BY <1>0, <4>3, PidParts
      <4>5. \A w \in run[owner].elems, k \in 1 .. LastTrigger : <<owner, w, k>> \in track'.ids
        BY <2>3, <4>3, <4>4 DEF DeployInv, ClosedIsListed
      <4>6. DeployedBy(owner, track'.st)
        BY <2>3, <2>4, <4>2, <4>4, <4>5, SettledIsDeployed
      <4>7. (Deployed(owner) /\ \A p \in track'.st.good : p[1] = owner /\ Succeeded(p)) =>
              DeployedBy(owner, settle[x].decided)'
        BY <2>2, <4>2 DEF DeployedBy, Deployed, Succeeded
      <4> QED
        BY <2>2, <4>4, <4>6, <4>7 DEF DeployedBy
    <3> QED
      BY <3>1, <3>2
  <2>6. \A g \in Handlers : \A f \in hnd'[g] :
          f.p[1] = owner /\ (f.verdict = "success" => Succeeded(f.p)')
    BY <1>0, <2>2 DEF Succeeded
  <2> QED
    BY <1>1, <2>2, <2>3, <2>4, <2>5, <2>6, RunsStand
<1>6. CASE MergeFailureEvent(h)
  <2>1. PICK e \in hnd[h] :
          track' = MergeFailure(track, e.p) \/ track' = track
    BY <1>6 DEF MergeFailureEvent, orderVars
  <2>2. /\ run' = run /\ owner' = owner /\ ci' = ci /\ SuccessKept /\ settle' = settle
        /\ \A g \in Handlers : \A f \in hnd'[g] : f \in hnd[g]
    BY <1>1, <1>6 DEF MergeFailureEvent, history, Typed
  <2>3. /\ track'.ids = track.ids /\ track'.st.firing = track.st.firing
        /\ track'.st.missed = track.st.missed
        /\ \A p \in track'.st.good : p \in track.st.good
    <3>1. track \in TrackingOf(Pids)
      BY DEF Typed
    <3>2. /\ MergeFailure(track, e.p).ids = track.ids
          /\ MergeFailure(track, e.p).st =
               [track.st EXCEPT !.bad = track.st.bad \union {e.p}, !.good = track.st.good \ {e.p}]
      BY <3>1 DEF MergeFailure, TrackingOf
    <3>3. /\ MergeFailure(track, e.p).st.firing = track.st.firing
          /\ MergeFailure(track, e.p).st.missed = track.st.missed
          /\ MergeFailure(track, e.p).st.good = track.st.good \ {e.p}
      BY <3>1, <3>2 DEF TrackingOf, StatusMap
    <3> QED
      BY <2>1, <3>2, <3>3
  <2>4. \A p \in track'.st.good : p[1] = owner /\ Succeeded(p)'
    BY <1>0, <2>2, <2>3 DEF Succeeded
  <2>5. \A g \in Handlers : \A f \in hnd'[g] :
          f.p[1] = owner /\ (f.verdict = "success" => Succeeded(f.p)')
    BY <1>0, <2>2 DEF Succeeded
  <2> QED
    BY <1>1, <2>2, <2>3, <2>4, <2>5, RunsStand
<1>7. CASE HandlerDies(h)
  <2>1. /\ run' = run /\ owner' = owner /\ ci' = ci /\ SuccessKept /\ track' = track
        /\ \A g \in Handlers : \A f \in hnd'[g] : f \in hnd[g]
        /\ \A x \in Procs : settle'[x].pc # "idle" => settle'[x] = settle[x]
    BY <1>1, <1>7 DEF HandlerDies, orderVars, history, Typed, NotSettling
  <2>2. \A p \in track'.st.good : p[1] = owner /\ Succeeded(p)'
    BY <1>0, <2>1 DEF Succeeded
  <2>3. \A g \in Handlers : \A f \in hnd'[g] :
          f.p[1] = owner /\ (f.verdict = "success" => Succeeded(f.p)')
    BY <1>0, <2>1 DEF Succeeded
  <2>4. \A x \in Procs : settle'[x].pc # "idle" =>
          settle[x].pc # "idle" /\ settle'[x].decided = settle[x].decided
    BY <2>1
  <2> QED
    BY <1>1, <2>1, <2>2, <2>3, <2>4, RunsStand
<1> QED
  BY <1>3, <1>4, <1>5, <1>6, <1>7 DEF HandlerStep

\* Whoever settles moves only himself.
LEMMA SettlingDeploys ==
  ASSUME Typed, OwnerInv, DeployInv, NEW x \in Procs, SettleStep(x)
  PROVE  DeployInv'
<1>0. /\ track' = track /\ owner' = owner /\ hnd' = hnd /\ ci' = ci /\ SuccessKept
      /\ settle[x].pc # "idle"
  BY DEF SettleStep, SettleReads, SettleRecordsOutputs, SettleSwaps, orderVars, history,
     SuccessKept, Succeeded
<1>1. \A y \in Procs : settle'[y].pc # "idle" =>
        settle[y].pc # "idle" /\ settle'[y].decided = settle[y].decided
  <2>1. \A y \in Procs : settle[y] \in SettleRecord
    BY DEF Typed, GoodSettle
  <2>2. CASE SettleReads(x)
    BY <2>1, <2>2 DEF SettleReads, SettleRecord, Typed
  <2>3. CASE SettleRecordsOutputs(x)
    BY <2>1, <2>3 DEF SettleRecordsOutputs, SettleRecord, Typed
  <2>4. CASE SettleSwaps(x)
    BY <2>4 DEF SettleSwaps, LeaveSettling, NotSettling, Typed
  <2> QED
    BY <2>2, <2>3, <2>4 DEF SettleStep
<1>2. CASE x \in Runs /\ SettleSwaps(x)
  <2>1. run[x].pc = "settling"
    BY <1>0, <1>2 DEF OwnerInv, RunsSettleLast
  <2>2. Goto(x, "done")
    BY <1>2 DEF SettleSwaps, LeaveSettling, Goto
  <2> QED
    BY <1>0, <1>1, <1>2, <2>2, RunLeaves
<1>3. CASE ~(x \in Runs /\ SettleSwaps(x))
  <2>1. run' = run
    BY <1>3 DEF SettleStep, SettleReads, SettleRecordsOutputs, SettleSwaps, LeaveSettling
  <2>2. /\ \A p \in track'.st.good : p[1] = owner /\ Succeeded(p)'
        /\ \A h \in Handlers : \A e \in hnd'[h] :
             e.p[1] = owner /\ (e.verdict = "success" => Succeeded(e.p)')
    BY <1>0 DEF DeployInv, TrackingIsOwners, SuccessIsReported, Succeeded
  <2> QED
    BY <1>0, <1>1, <2>1, <2>2, RunsStand
<1> QED
  BY <1>2, <1>3

LEMMA OthersDeploy ==
  ASSUME Typed, DeployInv,
         PlacePending \/ RejectOrder \/ CallbackLost \/ WriteOffReads \/ WriteOffWrites
           \/ UNCHANGED vars
  PROVE  DeployInv'
<1>1. run' = run /\ owner' = owner /\ track' = track /\ hnd' = hnd /\ settle' = settle
  BY DEF PlacePending, RejectOrder, CallbackLost, WriteOffReads, WriteOffWrites, orderVars, procVars,
     history, vars
<1>2. SuccessKept /\ \A p \in Pids : ci[p] = "none" => ci'[p] = "none"
  <2>1. CASE CallbackLost
    BY <2>1, VerdictsAreTrue DEF CallbackLost
  <2>2. CASE UNCHANGED ci
    BY <2>2 DEF SuccessKept, Succeeded
  <2> QED
    BY <2>1, <2>2 DEF PlacePending, RejectOrder, WriteOffReads, WriteOffWrites, vars
<1>3. /\ \A p \in track'.st.good : p[1] = owner /\ Succeeded(p)'
      /\ \A h \in Handlers : \A e \in hnd'[h] :
           e.p[1] = owner /\ (e.verdict = "success" => Succeeded(e.p)')
  <2>1. track.st.good \subseteq Pids /\ \A h \in Handlers : hnd[h] \subseteq Events
    BY DEF Typed, TrackingOf, StatusMap
  <2>2. \A h \in Handlers : \A e \in hnd[h] : e.p \in Pids
    BY <2>1 DEF Events
  <2> QED
    BY <1>1, <1>2, <2>1, <2>2 DEF DeployInv, TrackingIsOwners, SuccessIsReported, SuccessKept
<1>4. \A x \in Procs : settle'[x].pc # "idle" =>
        settle[x].pc # "idle" /\ settle'[x].decided = settle[x].decided
  BY <1>1
<1> QED
  BY <1>1, <1>2, <1>3, <1>4, RunsStand

\* The rest of what a run does, and its death.
LEMMA LeavingDeploys ==
  ASSUME Typed, DeployInv, NEW r \in Runs,
         \/ ApproveWaits(r) \/ PurgeElements(r) \/ UndoClaim(r) \/ AnythingStarted(r)
         \/ Requeue(r) \/ RunDies(r)
  PROVE  DeployInv'
<1>1. /\ track' = track /\ owner' = owner /\ hnd' = hnd /\ ci' = ci
      /\ \A x \in Procs : settle'[x].pc # "idle" =>
           settle[x].pc # "idle" /\ settle'[x].decided = settle[x].decided
  <2>1. CASE RunDies(r)
    BY <2>1 DEF RunDies, orderVars, history, NotSettling, Typed
  <2>2. CASE ~RunDies(r)
    BY <2>2 DEF ApproveWaits, PurgeElements, UndoClaim, AnythingStarted, Requeue, orderVars,
       procVars, history
  <2> QED
    BY <2>1, <2>2
<1>2. CASE ApproveWaits(r) \/ UndoClaim(r) \/ Requeue(r) \/ RunDies(r)
  <2>1. Goto(r, "done")
    BY <1>2 DEF ApproveWaits, UndoClaim, Requeue, RunDies
  <2> QED
    BY <1>1, <2>1, RunLeaves
<1>3. CASE PurgeElements(r)
  <2>1. Goto(r, "clear") /\ Works(run[r]) /\ Opens(run[r])
    BY <1>3 DEF PurgeElements, At, Works, Opens
  <2> QED
    BY <1>1, <2>1, RunLeaves
<1>4. CASE AnythingStarted(r)
  <2>1. Works(run[r]) /\ (Goto(r, "requeue") \/ Goto(r, "done"))
    BY <1>4 DEF AnythingStarted, At, Works
  <2> QED
    BY <1>1, <2>1, RunLeaves
<1> QED
  BY <1>2, <1>3, <1>4

\* Disturbances are remembered.
LEMMA DisturbanceStays ==
  ASSUME Typed, [Next]_vars, Undisturbed'
  PROVE  Undisturbed /\ ~DbFault
<1>1. ~DbFault
  BY DEF DbFault, Undisturbed, Typed
<1>2. ASSUME NEW r \in Runs, Claims(r) PROVE Undisturbed
  <2>1. UNCHANGED faults /\ stale \subseteq stale'
    BY <1>2 DEF Claims, PlaceDirect, ApproveClaim, WindowClaim, RetryClaim, Starting
  <2> QED
    BY <2>1 DEF Undisturbed
<1>3. ASSUME NEW r \in Runs, RunStep(r) PROVE Undisturbed
  BY <1>3 DEF RunStep, ApproveDeploysNow, ApproveWaits, BeginOrderTriggerRun, InsertElement,
     RetrySiblings, TriggerStarts, TriggerFails, RecordOrderPipelineId, ElementFired, PurgeElements,
     ClearOrderTriggerRun, ReleaseRetryClaim, RewriteElement, FinishOrderTriggerRun, UndoClaim,
     AnythingStarted, Requeue, history, Undisturbed
<1>4. ASSUME NEW r \in Runs, RunFaults(r) PROVE Undisturbed
  <2>1. RunDies(r)
    BY <1>1, <1>4 DEF RunFaults, ApproveCannotDecide, ApproveAbandoned, RecordLost, ElementThrows,
       RunThrows
  <2> QED
    BY <2>1 DEF RunDies, Death, Typed, history, Undisturbed
<1>5. ASSUME NEW h \in Handlers, HandlerStep(h) \/ HandlerDies(h) PROVE Undisturbed
  BY <1>5 DEF HandlerStep, CallbackArrives, CallbackRepeated, MergeSuccessEvent, MergeFailureEvent,
     HandlerDies, Death, Typed, history, Undisturbed
<1>6. ASSUME NEW x \in Procs, SettleStep(x) \/ SettleThrows(x) \/ CompletionUnaudited(x)
      PROVE  Undisturbed
  BY <1>1, <1>6 DEF SettleStep, SettleReads, SettleRecordsOutputs, SettleSwaps, SettleThrows,
     CompletionUnaudited, history, Undisturbed
<1>7. CASE PlacePending \/ RejectOrder \/ CallbackLost \/ WriteOffReads \/ WriteOffWrites
             \/ UNCHANGED vars
  <2>1. UNCHANGED <<faults, stale>>
    BY <1>7 DEF PlacePending, RejectOrder, CallbackLost, WriteOffReads, WriteOffWrites, history, vars
  <2> QED
    BY <1>1, <2>1 DEF Undisturbed
<1> QED
  BY <1>1, <1>2, <1>3, <1>4, <1>5, <1>6, <1>7 DEF Next

LEMMA InitDeploys == Init => DeployInv
<1> SUFFICES ASSUME Init PROVE DeployInv
  OBVIOUS
<1>1. /\ \A p \in Pids : ci[p] = "none"
      /\ track.ids = {} /\ track.st.good = {}
      /\ \A h \in Handlers : hnd[h] = {}
      /\ \A x \in Procs : settle[x].pc = "idle"
      /\ \A r \in Runs : run[r].pc = "idle" /\ run[r].started = {} /\ run[r].elem = {}
      /\ owner \notin Runs
  BY RunAssumption DEF Init, Cleared, NoStatus, NotSettling, FreshRun, Runs
<1> QED
  BY <1>1 DEF DeployInv, NothingAhead, SuccessIsReported, TrackingIsOwners, WorkerOwns,
     WalkedIsListed, ClosedIsListed, DecidedIsDeployed, Works, Opens, Behind

LEMMA NextDeploys ==
  Typed /\ OwnerInv /\ WaitInvUnlessFailed /\ DeployInvUnlessDisturbed /\ [Next]_vars =>
    DeployInvUnlessDisturbed'
<1> SUFFICES ASSUME Typed, OwnerInv, WaitInvUnlessFailed, DeployInvUnlessDisturbed, [Next]_vars,
                    Undisturbed'
             PROVE  DeployInv'
  BY DEF DeployInvUnlessDisturbed
<1>1. Undisturbed /\ ~DbFault
  BY DisturbanceStays
<1>2. DeployInv /\ WaitInv
  BY <1>1 DEF DeployInvUnlessDisturbed, WaitInvUnlessFailed, Undisturbed
<1>3. ASSUME NEW r \in Runs, Claims(r) PROVE DeployInv'
  BY <1>2, <1>3, ClaimsDeploy
<1>4. ASSUME NEW r \in Runs, RunStep(r) PROVE DeployInv'
  BY <1>1, <1>2, <1>4, RunFires, OpeningDeploys, TrackingDeploys, ClosingDeploys, LeavingDeploys
     DEF RunStep
<1>5. ASSUME NEW r \in Runs, RunFaults(r) PROVE DeployInv'
  <2>1. RunDies(r)
    BY <1>1, <1>5 DEF RunFaults, ApproveCannotDecide, ApproveAbandoned, RecordLost, ElementThrows,
       RunThrows
  <2> QED
    BY <1>2, <2>1, LeavingDeploys
<1>6. ASSUME NEW h \in Handlers, HandlerStep(h) \/ HandlerDies(h) PROVE DeployInv'
  BY <1>2, <1>6, HandlersDeploy
<1>7. ASSUME NEW x \in Procs, SettleStep(x) PROVE DeployInv'
  BY <1>2, <1>7, SettlingDeploys
<1>8. ASSUME NEW x \in Procs, SettleThrows(x) \/ CompletionUnaudited(x) PROVE FALSE
  BY <1>1, <1>8 DEF SettleThrows, CompletionUnaudited
<1>9. CASE PlacePending \/ RejectOrder \/ CallbackLost \/ WriteOffReads \/ WriteOffWrites
             \/ UNCHANGED vars
  BY <1>2, <1>9, OthersDeploy
<1> QED
  BY <1>3, <1>4, <1>5, <1>6, <1>7, <1>8, <1>9 DEF Next

\* Who completes the order found its map as it was when he decided: the map of
\* the run that owns the tracking.
LEMMA CompletedIsDeployed ==
  Typed /\ DeployInvUnlessDisturbed /\ [Next]_vars =>
    [stale = {} /\ faults.db = 0 => CompletesDeployed]_vars
<1> SUFFICES ASSUME Typed, DeployInv, [Next]_vars, Completes
             PROVE  owner \in Runs /\ Deployed(owner)
  BY DEF DeployInvUnlessDisturbed, Undisturbed, CompletesDeployed
<1>1. PICK x \in Procs : settle[x].pc = "swap" /\ SwapMatches(x)
  <2>1. ASSUME NEW r \in Runs, Claims(r) \/ RunStep(r) \/ RunFaults(r)
        PROVE  FALSE
    BY <2>1 DEF Completes, Claims, PlaceDirect, ApproveClaim, WindowClaim, RetryClaim, RunStep,
       ApproveDeploysNow, ApproveWaits, BeginOrderTriggerRun, InsertElement, RetrySiblings,
       TriggerStarts, TriggerFails, RecordOrderPipelineId, ElementFired, PurgeElements,
       ClearOrderTriggerRun, ReleaseRetryClaim, RewriteElement, FinishOrderTriggerRun, UndoClaim,
       AnythingStarted, Requeue, RunFaults, ApproveCannotDecide, ApproveAbandoned, RecordLost,
       ElementThrows, RunThrows, RunDies, orderVars
  <2>2. ASSUME NEW h \in Handlers, HandlerStep(h) \/ HandlerDies(h)
        PROVE  FALSE
    BY <2>2 DEF Completes, HandlerStep, CallbackArrives, CallbackRepeated, MergeSuccessEvent,
       MergeFailureEvent, HandlerDies, orderVars
  <2>3. ASSUME NEW y \in Procs, SettleReads(y) \/ SettleRecordsOutputs(y) \/ SettleThrows(y)
        PROVE  FALSE
    BY <2>3 DEF Completes, SettleReads, SettleRecordsOutputs, SettleThrows, orderVars
  <2>4. ASSUME NEW y \in Procs, SettleSwaps(y) \/ CompletionUnaudited(y)
        PROVE  settle[y].pc = "swap" /\ SwapMatches(y)
    BY <2>4 DEF Completes, SettleSwaps, CompletionUnaudited
  <2>5. CASE PlacePending \/ RejectOrder \/ CallbackLost \/ WriteOffReads \/ WriteOffWrites
               \/ UNCHANGED vars
    BY <2>5 DEF Completes, PlacePending, RejectOrder, CallbackLost, WriteOffReads, WriteOffWrites,
       orderVars, vars
  <2> QED
    BY <2>1, <2>2, <2>3, <2>4, <2>5 DEF Next, SettleStep
<1>2. track.st = settle[x].decided /\ Clean(track.st)
  BY <1>1, CleanSwap DEF SwapMatches
<1>3. PICK q \in Runs : DeployedBy(q, settle[x].decided)
  BY <1>1 DEF DeployInv, DecidedIsDeployed
<1>4. PICK p \in track.st.good : TRUE
  BY <1>2 DEF Clean
<1>5. p[1] = q /\ p[1] = owner
  BY <1>2, <1>3, <1>4 DEF DeployedBy, DeployInv, TrackingIsOwners
<1> QED
  BY <1>3, <1>5 DEF DeployedBy

\* An order is completed only when every trigger of every element of the run it
\* was waiting for was fired and has succeeded, as long as no statement failed
\* and no run claimed the order under a run that fired or a callback still to be
\* merged: the rule of isSettled, the 'triggering' entry and the compare-and-swap
\* together, for every number of runs, elements, triggers and callbacks, however
\* these overtake, repeat or miss each other, and whatever dies.
THEOREM CompletedOrdersAreDeployed == Spec => EveryElementDeployed
<1>1. Init => WaitInvUnlessFailed /\ DeployInvUnlessDisturbed
  BY InitWaits, InitDeploys DEF WaitInvUnlessFailed, DeployInvUnlessDisturbed
<1>2. Spec => []OwnerInv
  BY InitOwner, NextOwner, AlwaysTyped, PTL DEF Spec
<1>3. Spec => []WaitInvUnlessFailed
  BY <1>1, NextWaits, AlwaysTyped, PTL DEF Spec
<1>4. Spec => []DeployInvUnlessDisturbed
  BY <1>1, <1>2, <1>3, NextDeploys, AlwaysTyped, PTL DEF Spec
<1> QED
  BY <1>4, CompletedIsDeployed, AlwaysTyped, PTL DEF Spec, EveryElementDeployed

=============================================================================
