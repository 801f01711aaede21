------------------------------ MODULE OrderRun ------------------------------
(***************************************************************************)
(* One order, from its submission to its verdict: the claims that start a  *)
(* provisioning run (approval, direct order, released window, retry), the  *)
(* fan-out that inserts the elements and fires their CI triggers, the      *)
(* callbacks that report the pipelines back, the settling of the order,    *)
(* and root's write-off.                                                   *)
(*                                                                         *)
(* Every database statement, CI call and log read is an action of its own: *)
(* between two of them any other request may run.  Orders do not share     *)
(* rows or pipeline ids, so one order is the whole state of interest.      *)
(***************************************************************************)
EXTENDS Naturals, FiniteSets, PipelineTracking

CONSTANTS
  MaxRuns,        \* requests that may claim the order; bounds the model
  Handlers,       \* callback requests being served at the same time
  Quantity,       \* elements the order asks for
  Webhooks,       \* product webhooks of the offering
  Stacks,         \* pipeline stacks of the offering
  Kinds,          \* the requests of interest, a subset of AllKinds
  SecondVerdicts, \* verdicts CI may revise: "relapse", "recover"
  EarlyCallbacks, \* a callback may overtake the write that records its id
  Unreliable,     \* callbacks may be lost or delivered twice
  MaxDbFaults,    \* database statements that may fail; bounds the model
  MaxDeaths       \* requests that may die half way; bounds the model

AllKinds == {"approve", "direct", "window", "retry"}

ASSUME RunAssumption ==
  /\ MaxRuns \in Nat \ {0}
  /\ Quantity \in Nat \ {0}
  /\ Webhooks \in Nat
  /\ Stacks \in Nat
  /\ Kinds \subseteq AllKinds
  /\ SecondVerdicts \subseteq {"relapse", "recover"}
  /\ EarlyCallbacks \in BOOLEAN
  /\ Unreliable \in BOOLEAN
  /\ MaxDbFaults \in Nat
  /\ MaxDeaths \in Nat

Runs == 1 .. MaxRuns

ASSUME HandlersAreNotRuns == Handlers \intersect Runs = {}

\* An element row is named by the run that inserted it and its sequence; a
\* pipeline by the run that started it, the element and the trigger fired.
Rows == Runs \X (1 .. Quantity)
LastTrigger == Webhooks + Stacks
Pids == Runs \X Rows \X (1 .. LastTrigger)
Verdicts == {"success", "failed"}
Events == [p : Pids, verdict : Verdicts]
Procs == Runs \union Handlers

OrderStatuses ==
  {"none", "pending", "scheduled", "provisioning", "completed", "failed", "rejected"}

VARIABLES
  status,   \* orders.status; "none" before the order is placed
  track,    \* orders.pipeline_id and orders.pipeline_status
  rows,     \* the element rows of the order
  ci,       \* what CI made of each pipeline
  run,      \* the requests that claim the order
  hnd,      \* the matched event a handler still has to write, if any
  settle,   \* each process inside settleOrderIfComplete
  writeOff, \* markOrderFailed has read the order and will write
  faults,   \* failures that have happened
  owner,    \* history: the run that last opened the tracking (0: none)
  stale     \* history: who still had a write of the tracking to make when
            \* some run claimed the order

orderVars == <<status, track>>
procVars == <<hnd, settle, writeOff>>
history == <<owner, stale>>
vars == <<orderVars, rows, ci, run, procVars, faults, history>>

-----------------------------------------------------------------------------
(* Helpers                                                                 *)

RunPcs ==
  {"idle", "decide", "begin", "insert", "fire", "record", "purge", "clear",
   "siblings", "rewrite", "close", "settling", "release", "undo", "requeue",
   "done"}
SettlePcs == {"idle", "read", "write", "swap"}
CiStates == {"none", "running", "success", "failed", "relapsed", "recovered"}

FreshRun ==
  [pc |-> "idle", kind |-> "approve", elems |-> {}, todo |-> {},
   k |-> 1, elem |-> {}, started |-> {}, missed |-> FALSE]

NotSettling ==
  [pc |-> "idle", left |-> {}, snap |-> [w \in Rows |-> {}], decided |-> NoStatus]

Provisions(r) == run[r].kind # "retry"

\* Elements are walked in order of sequence, then of row id.
Precedes(v, w) == v[2] < w[2] \/ (v[2] = w[2] /\ v[1] <= w[1])
FirstOf(W) == CHOOSE w \in W : \A v \in W : Precedes(w, v)
CurrentRow(r) == FirstOf(run[r].todo)
CurrentPid(r) == <<r, CurrentRow(r), run[r].k>>

Existing == {w \in Rows : rows[w].exists}
Over(r) == run[r].pc \in {"idle", "done"}
Succeeded(p) == ci[p] \in {"success", "relapsed", "recovered"}

\* Requests start in the order of their numbers.
IsNext(r) ==
  /\ run[r].pc = "idle"
  /\ \A q \in Runs : q < r => run[q].pc # "idle"

At(r, pc) == run[r].pc = pc
Goto(r, pc) == run' = [run EXCEPT ![r].pc = pc]

OwnRows(r) == {r} \X (1 .. Quantity)

Starting(r, kind, pc, elems) ==
  /\ kind \in Kinds
  /\ IsNext(r)
  /\ stale' = stale \union {w \in {"run", "callback"} :
                 \/ w = "run" /\ \E q \in Runs : ~Over(q)
                 \/ w = "callback" /\ \E h \in Handlers : hnd[h] # {}}
  /\ run' = [run EXCEPT ![r] = [FreshRun EXCEPT !.pc = pc, !.kind = kind,
                                    !.elems = elems, !.todo = elems]]

DbFault == /\ faults.db < MaxDbFaults
           /\ faults' = [faults EXCEPT !.db = @ + 1]
Death == /\ faults.death < MaxDeaths
         /\ faults' = [faults EXCEPT !.death = @ + 1]

\* isSettled is asked of the row a write returned; only then is anything read.
Settling(t) ==
  IF IsSettled(t) THEN [NotSettling EXCEPT !.pc = "read", !.decided = t.st]
  ELSE NotSettling

-----------------------------------------------------------------------------
(* Placing the order and deciding on it                                    *)

Init ==
  /\ status = "none"
  /\ track = Cleared
  /\ rows = [w \in Rows |-> [exists |-> FALSE, ids |-> {}, outputs |-> {}]]
  /\ ci = [p \in Pids |-> "none"]
  /\ run = [r \in Runs |-> FreshRun]
  /\ hnd = [h \in Handlers |-> {}]
  /\ settle = [x \in Procs |-> NotSettling]
  /\ writeOff = FALSE
  /\ faults = [db |-> 0, death |-> 0]
  /\ owner = 0
  /\ stale = {}

\* A project manager's order waits for an approver.
PlacePending ==
  /\ status = "none"
  /\ status' = "pending"
  /\ UNCHANGED <<track, rows, ci, run, procVars, faults, history>>

\* An admin's order is inserted as 'provisioning' and started by the same request.
PlaceDirect(r) ==
  /\ status = "none"
  /\ Starting(r, "direct", "begin", OwnRows(r))
  /\ status' = "provisioning"
  /\ UNCHANGED <<track, rows, ci, procVars, faults, owner>>

RejectOrder ==
  /\ status = "pending"
  /\ status' = "rejected"
  /\ UNCHANGED <<track, rows, ci, run, procVars, faults, history>>

\* approveOrder's claim: pending -> provisioning, for one caller only.
ApproveClaim(r) ==
  /\ status = "pending"
  /\ Starting(r, "approve", "decide", OwnRows(r))
  /\ status' = "provisioning"
  /\ UNCHANGED <<track, rows, ci, procVars, faults, owner>>

\* The deployment window is open (or the environment has no policy).
ApproveDeploysNow(r) ==
  /\ At(r, "decide")
  /\ Goto(r, "begin")
  /\ UNCHANGED <<orderVars, rows, ci, procVars, faults, history>>

\* It is not: the order is queued, by its id alone.
ApproveWaits(r) ==
  /\ At(r, "decide")
  /\ Goto(r, "done")
  /\ status' = "scheduled"
  /\ UNCHANGED <<track, rows, ci, procVars, faults, history>>

\* The policy cannot be read: the claim is undone.
ApproveCannotDecide(r) ==
  /\ At(r, "decide")
  /\ DbFault
  /\ Goto(r, "done")
  /\ status' = "pending"
  /\ UNCHANGED <<track, rows, ci, procVars, history>>

\* The reads between the decision and the fan-out are outside both catches.
ApproveAbandoned(r) ==
  /\ At(r, "decide")
  /\ DbFault
  /\ Goto(r, "done")
  /\ UNCHANGED <<orderVars, rows, ci, procVars, history>>

\* The sweep and root's "deploy now" make the same claim on a queued order.
WindowClaim(r) ==
  /\ status = "scheduled"
  /\ Starting(r, "window", "begin", OwnRows(r))
  /\ status' = "provisioning"
  /\ UNCHANGED <<track, rows, ci, procVars, faults, owner>>

\* retryProvisioning's claim opens the tracking in the same statement.  It is
\* asked for one element of the order, so the order must have one.
RetryClaim(r) ==
  /\ status = "failed"
  /\ \E w \in Existing : Starting(r, "retry", "siblings", {w})
  /\ status' = "provisioning"
  /\ track' = Opened
  /\ owner' = r
  /\ UNCHANGED <<rows, ci, procVars, faults>>

-----------------------------------------------------------------------------
(* The fan-out                                                             *)

\* beginOrderTriggerRun writes only an order that is still 'provisioning'.
BeginOrderTriggerRun(r) ==
  /\ At(r, "begin")
  /\ Goto(r, "insert")
  /\ IF status = "provisioning"
       THEN track' = Opened /\ owner' = r
       ELSE UNCHANGED <<track, owner>>
  /\ UNCHANGED <<status, rows, ci, procVars, faults, stale>>

InsertElement(r) ==
  /\ At(r, "insert")
  /\ rows' = [rows EXCEPT ![CurrentRow(r)].exists = TRUE]
  /\ run' = [run EXCEPT ![r] = [@ EXCEPT !.pc = "fire", !.k = 1, !.elem = {}]]
  /\ UNCHANGED <<orderVars, ci, procVars, faults, history>>

\* The elements a retry covers: all those of the order, or the one it was
\* asked for when none is found.
RetrySiblings(r) ==
  /\ At(r, "siblings")
  /\ LET covered == IF Existing # {} THEN Existing ELSE run[r].elems IN
       run' = [run EXCEPT ![r] = [@ EXCEPT !.pc = "fire", !.elems = covered, !.todo = covered]]
  /\ UNCHANGED <<orderVars, rows, ci, procVars, faults, history>>

\* triggerPipeline returned an id.
TriggerStarts(r) ==
  /\ At(r, "fire")
  /\ run[r].k <= LastTrigger
  /\ LET p == CurrentPid(r) IN
       /\ ci' = [ci EXCEPT ![p] = "running"]
       /\ run' = [run EXCEPT ![r] = [@ EXCEPT !.pc = "record", !.elem = run[r].elem \union {p}]]
  /\ UNCHANGED <<orderVars, rows, procVars, faults, history>>

\* triggerPipeline threw: the failure is collected, the next trigger is tried.
TriggerFails(r) ==
  /\ At(r, "fire")
  /\ run[r].k <= LastTrigger
  /\ run' = [run EXCEPT ![r] = [@ EXCEPT !.k = run[r].k + 1, !.missed = TRUE]]
  /\ UNCHANGED <<orderVars, rows, ci, procVars, faults, history>>

\* Mutant: the counter is advanced before the id is recorded.
RecordNextTrigger(r) ==
  /\ At(r, "record")
  /\ track' = AppendOne(track, <<r, CurrentRow(r), run[r].k + 1>>)
  /\ run' = [run EXCEPT ![r] = [@ EXCEPT !.pc = "fire", !.k = run[r].k + 1]]
  /\ UNCHANGED <<status, rows, ci, procVars, faults, history>>

\* recordOrderPipelineId: by the order's id alone, whatever its status.
RecordOrderPipelineId(r) ==
  /\ At(r, "record")
  /\ track' = AppendOne(track, CurrentPid(r))
  /\ run' = [run EXCEPT ![r] = [@ EXCEPT !.pc = "fire", !.k = run[r].k + 1]]
  /\ UNCHANGED <<status, rows, ci, procVars, faults, history>>

\* reportStarted swallows a failed write.
RecordLost(r) ==
  /\ At(r, "record")
  /\ DbFault
  /\ run' = [run EXCEPT ![r] = [@ EXCEPT !.pc = "fire", !.k = run[r].k + 1]]
  /\ UNCHANGED <<orderVars, rows, ci, procVars, history>>

\* Where the loop over the elements goes once the current one is left.
AfterElement(r, started) ==
  LET left == run[r].todo \ {CurrentRow(r)} IN
  CASE left # {} -> IF Provisions(r) THEN "insert" ELSE "fire"
    [] left = {} /\ started = {} -> IF Provisions(r) THEN "purge" ELSE "release"
    [] OTHER -> IF Provisions(r) THEN "close" ELSE "rewrite"

\* Every trigger of the element was tried.  A provisioning run stores the ids
\* on the element row; a retry keeps them until all elements are done.
ElementFired(r) ==
  /\ At(r, "fire")
  /\ run[r].k > LastTrigger
  /\ LET w == CurrentRow(r)
         started == run[r].started \union run[r].elem
     IN /\ rows' = IF Provisions(r) /\ run[r].elem # {}
                     THEN [rows EXCEPT ![w].ids = run[r].elem] ELSE rows
        /\ run' = [run EXCEPT ![r] = [@ EXCEPT !.pc = AfterElement(r, started),
                     !.started = started, !.k = 1, !.elem = {},
                     !.todo = IF AfterElement(r, started) = "rewrite"
                                   THEN run[r].elems ELSE run[r].todo \ {w}]]
  /\ UNCHANGED <<orderVars, ci, procVars, faults, history>>

\* A read before the webhooks or before the stacks fails: the element is given
\* up, with the ids its webhooks may already have returned.
ElementThrows(r) ==
  /\ At(r, "fire")
  /\ run[r].k \in {1, Webhooks + 1}
  /\ DbFault
  /\ LET next == AfterElement(r, run[r].started) IN
       run' = [run EXCEPT ![r] = [@ EXCEPT !.missed = TRUE, !.k = 1, !.elem = {},
                 !.pc = IF ~Provisions(r) /\ run[r].started = {} THEN "release" ELSE next,
                 !.todo = IF next = "rewrite" THEN run[r].elems
                             ELSE run[r].todo \ {CurrentRow(r)}]]
  /\ UNCHANGED <<orderVars, rows, ci, procVars, history>>

\* Mutant: the rows of a run that started nothing stay.
KeepElements(r) ==
  /\ At(r, "purge")
  /\ Goto(r, "clear")
  /\ UNCHANGED <<orderVars, rows, ci, procVars, faults, history>>

\* Nothing started: the rows the run inserted are deleted,
PurgeElements(r) ==
  /\ At(r, "purge")
  /\ Goto(r, "clear")
  /\ rows' = [w \in Rows |-> IF w \in OwnRows(r)
                               THEN [exists |-> FALSE, ids |-> {}, outputs |-> {}]
                               ELSE rows[w]]
  /\ UNCHANGED <<orderVars, ci, procVars, faults, history>>

\* the tracking is cleared, and the caller's catch runs.
ClearOrderTriggerRun(r) ==
  /\ At(r, "clear")
  /\ Goto(r, "undo")
  /\ track' = Cleared
  /\ UNCHANGED <<status, rows, ci, procVars, faults, history>>

\* A retry that started nothing hands the order back to 'failed'.
ReleaseRetryClaim(r) ==
  /\ At(r, "release")
  /\ Goto(r, "done")
  /\ status' = "failed"
  /\ track' = Cleared
  /\ UNCHANGED <<rows, ci, procVars, faults, history>>

\* Each element gets the pipelines this retry started for it, and loses its outputs.
RewriteElement(r) ==
  /\ At(r, "rewrite")
  /\ LET w == CurrentRow(r)
         left == run[r].todo \ {w}
         mine == {p \in run[r].started : p[2] = w}
     IN /\ rows' = IF rows[w].exists
                     THEN [rows EXCEPT ![w] = [@ EXCEPT !.ids = mine, !.outputs = {}]] ELSE rows
        /\ run' = [run EXCEPT ![r] = [@ EXCEPT !.todo = left,
                     !.pc = IF left = {} THEN "close" ELSE "rewrite"]]
  /\ UNCHANGED <<orderVars, ci, procVars, faults, history>>

\* Mutant: closing a trigger run does not ask whether the order is complete.
FinishWithoutAsking(r) ==
  /\ At(r, "close")
  /\ track' = Closed(track, run[r].started, run[r].missed)
  /\ Goto(r, "done")
  /\ UNCHANGED <<status, rows, ci, procVars, faults, history>>

\* finishOrderTriggerRun: by id alone; then the question the callbacks were refused.
FinishOrderTriggerRun(r) ==
  /\ At(r, "close")
  /\ LET t == Closed(track, run[r].started, run[r].missed) IN
       /\ track' = t
       /\ settle' = [settle EXCEPT ![r] = Settling(t)]
       /\ Goto(r, IF IsSettled(t) THEN "settling" ELSE "done")
  /\ UNCHANGED <<status, rows, ci, hnd, writeOff, faults, history>>

-----------------------------------------------------------------------------
(* CI and the callback handler                                             *)

\* handlePipelineEvent selects the order by status and listed id; an event
\* that matches nothing is answered and gone.
Free(h) == hnd[h] = {} /\ settle[h].pc = "idle"
Receives(h, p, v) ==
  /\ Free(h)
  /\ hnd' = IF status = "provisioning" /\ p \in track.ids
              THEN [hnd EXCEPT ![h] = {[p |-> p, verdict |-> v]}] ELSE hnd

\* The id was returned but recordOrderPipelineId has not been executed yet.
Unrecorded(p) == At(p[1], "record") /\ p = CurrentPid(p[1])

\* CI's verdict on a pipeline; jobs re-run in CI revise an earlier one.
Verdict(p, v) ==
  \/ /\ ci[p] = "running"
     /\ EarlyCallbacks \/ ~Unrecorded(p)
     /\ v \in Verdicts
     /\ ci' = [ci EXCEPT ![p] = v]
  \/ /\ ci[p] = "success" /\ v = "failed" /\ "relapse" \in SecondVerdicts
     /\ ci' = [ci EXCEPT ![p] = "relapsed"]
  \/ /\ ci[p] = "failed" /\ v = "success" /\ "recover" \in SecondVerdicts
     /\ ci' = [ci EXCEPT ![p] = "recovered"]

Posted(p) ==
  CASE ci[p] \in {"success", "failed"} -> {ci[p]}
    [] ci[p] \in {"relapsed", "recovered"} -> Verdicts
    [] OTHER -> {}

CallbackArrives(h) ==
  /\ \E p \in Pids, v \in Verdicts : Verdict(p, v) /\ Receives(h, p, v)
  /\ UNCHANGED <<orderVars, rows, run, settle, writeOff, faults, history>>

\* A callback sent earlier arrives again, or late.
CallbackRepeated(h) ==
  /\ Unreliable
  /\ \E p \in Pids : \E v \in Posted(p) : Receives(h, p, v)
  /\ UNCHANGED <<orderVars, rows, ci, run, settle, writeOff, faults, history>>

\* CI posts once: nobody sees a callback that does not get through.
CallbackLost ==
  /\ Unreliable
  /\ \E p \in Pids, v \in Verdicts : Verdict(p, v)
  /\ UNCHANGED <<orderVars, rows, run, procVars, faults, history>>

\* The guarded merge of a success, and the decision on the row it returned.
MergeSuccessEvent(h) ==
  /\ \E e \in hnd[h] :
       /\ e.verdict = "success"
       /\ IF status = "provisioning"
            THEN /\ track' = MergeSuccess(track, e.p)
                 /\ settle' = [settle EXCEPT ![h] = Settling(track')]
            ELSE UNCHANGED <<track, settle>>
  /\ hnd' = [hnd EXCEPT ![h] = {}]
  /\ UNCHANGED <<status, rows, ci, run, writeOff, faults, history>>

\* One failed or canceled pipeline fails the order, if it is still provisioning.
MergeFailureEvent(h) ==
  /\ \E e \in hnd[h] :
       /\ e.verdict = "failed"
       /\ IF status = "provisioning"
            THEN status' = "failed" /\ track' = MergeFailure(track, e.p)
            ELSE UNCHANGED orderVars
  /\ hnd' = [hnd EXCEPT ![h] = {}]
  /\ UNCHANGED <<rows, ci, run, settle, writeOff, faults, history>>

-----------------------------------------------------------------------------
(* settleOrderIfComplete, inside a handler or at the end of a run          *)

LeaveSettling(x, next) ==
  /\ settle' = [settle EXCEPT ![x] = NotSettling]
  /\ run' = IF x \in Runs THEN [run EXCEPT ![x].pc = next] ELSE run

SettleReads(x) ==
  /\ settle[x].pc = "read"
  /\ settle' = [settle EXCEPT ![x] = [@ EXCEPT !.pc = IF Existing = {} THEN "swap" ELSE "write",
                  !.left = Existing, !.snap = [w \in Rows |-> rows[w].ids]]]
  /\ UNCHANGED <<orderVars, rows, ci, run, hnd, writeOff, faults, history>>

\* Mutant: outputs are read from the order's pipelines instead of the element's.
SettleRecordsOrderPipelines(x) ==
  /\ settle[x].pc = "write"
  /\ LET w == FirstOf(settle[x].left)
         left == settle[x].left \ {w}
     IN /\ settle' = [settle EXCEPT ![x] = [@ EXCEPT !.left = left,
                        !.pc = IF left = {} THEN "swap" ELSE "write"]]
        /\ rows' = [rows EXCEPT ![w].outputs = track.ids]
  /\ UNCHANGED <<orderVars, ci, run, hnd, writeOff, faults, history>>

\* One element's outputs, from the logs of the pipelines its row listed; a log
\* that cannot be read, or declares none, leaves the stored outputs alone.
SettleRecordsOutputs(x) ==
  /\ settle[x].pc = "write"
  /\ LET w == FirstOf(settle[x].left)
         left == settle[x].left \ {w}
         source == settle[x].snap[w]
     IN /\ settle' = [settle EXCEPT ![x] = [@ EXCEPT !.left = left,
                        !.pc = IF left = {} THEN "swap" ELSE "write"]]
        /\ \/ rows' = rows
           \/ /\ rows[w].exists /\ source # {}
              /\ rows' = [rows EXCEPT ![w].outputs = source]
  /\ UNCHANGED <<orderVars, ci, run, hnd, writeOff, faults, history>>

\* Mutant: the swap compares the status alone.
SwapOnStatus(x) == status = "provisioning"

\* The compare-and-swap on the status and on the map that was decided on; the
\* audit entry and the mail follow it.
SwapMatches(x) == status = "provisioning" /\ track.st = settle[x].decided

SettleSwaps(x) ==
  /\ settle[x].pc = "swap"
  /\ status' = IF SwapMatches(x) THEN "completed" ELSE status
  /\ LeaveSettling(x, "done")
  /\ UNCHANGED <<track, rows, ci, hnd, writeOff, faults, history>>

-----------------------------------------------------------------------------
(* Undoing a run that threw, and writing an order off                      *)

\* approveOrder and createPreparedOrder: by id, whatever the order has become.
UndoClaim(r) ==
  /\ At(r, "undo")
  /\ run[r].kind \in {"approve", "direct"}
  /\ Goto(r, "done")
  /\ status' = IF run[r].kind = "approve" THEN "pending" ELSE "failed"
  /\ UNCHANGED <<track, rows, ci, procVars, faults, history>>

\* The window paths first ask anythingStarted.
AnythingStarted(r) ==
  /\ At(r, "undo")
  /\ run[r].kind = "window"
  /\ Goto(r, IF track.ids = {} THEN "requeue" ELSE "done")
  /\ UNCHANGED <<orderVars, rows, ci, procVars, faults, history>>

Requeue(r) ==
  /\ At(r, "requeue")
  /\ Goto(r, "done")
  /\ status' = "scheduled"
  /\ UNCHANGED <<track, rows, ci, procVars, faults, history>>

\* STUCK_ORDER_SILENCE_MS without a write: no request is firing triggers, for
\* it would write the order at each of them, and its calls time out long before.
WriteOffReads ==
  /\ status = "provisioning"
  /\ \A r \in Runs : Over(r) \/ At(r, "settling")
  /\ ~writeOff
  /\ writeOff' = TRUE
  /\ UNCHANGED <<orderVars, rows, ci, run, hnd, settle, faults, history>>

\* Mutant: the write-off no longer asks for 'provisioning'.
WriteOffBlindly ==
  /\ writeOff
  /\ writeOff' = FALSE
  /\ status' = "failed"
  /\ UNCHANGED <<track, rows, ci, run, hnd, settle, faults, history>>

WriteOffWrites ==
  /\ writeOff
  /\ writeOff' = FALSE
  /\ status' = IF status = "provisioning" THEN "failed" ELSE status
  /\ UNCHANGED <<track, rows, ci, run, hnd, settle, faults, history>>

-----------------------------------------------------------------------------
(* Failures                                                                *)

\* A statement of the run fails: the error leaves provisionOrderElements and
\* is caught by the caller, or leaves retryProvisioning, which catches nothing.
RunThrows(r) ==
  /\ \/ run[r].pc \in {"begin", "insert", "purge", "clear", "siblings", "rewrite",
                       "close", "release", "undo", "requeue"}
     \/ /\ At(r, "fire") /\ run[r].k > LastTrigger /\ Provisions(r)
        /\ run[r].elem # {} \/ Stacks > 0
  /\ DbFault
  /\ Goto(r, IF Provisions(r) /\ run[r].pc \notin {"undo", "requeue"} THEN "undo" ELSE "done")
  /\ UNCHANGED <<orderVars, rows, ci, procVars, history>>

AfterThrow(x) == IF x \in Runs /\ Provisions(x) THEN "undo" ELSE "done"

SettleThrows(x) ==
  /\ settle[x].pc # "idle"
  /\ DbFault
  /\ LeaveSettling(x, AfterThrow(x))
  /\ UNCHANGED <<orderVars, rows, ci, hnd, writeOff, history>>

\* The audit entry of a completion cannot be written: the order is completed,
\* and the caller sees an error.
CompletionUnaudited(x) ==
  /\ settle[x].pc = "swap"
  /\ SwapMatches(x)
  /\ DbFault
  /\ status' = "completed"
  /\ LeaveSettling(x, AfterThrow(x))
  /\ UNCHANGED <<track, rows, ci, hnd, writeOff, history>>

\* The process serving the request dies between two of its steps.
RunDies(r) ==
  /\ ~Over(r)
  /\ Death
  /\ Goto(r, "done")
  /\ settle' = [settle EXCEPT ![r] = NotSettling]
  /\ UNCHANGED <<orderVars, rows, ci, hnd, writeOff, history>>

HandlerDies(h) ==
  /\ ~Free(h)
  /\ Death
  /\ hnd' = [hnd EXCEPT ![h] = {}]
  /\ settle' = [settle EXCEPT ![h] = NotSettling]
  /\ UNCHANGED <<orderVars, rows, ci, run, writeOff, history>>

-----------------------------------------------------------------------------

Claims(r) ==
  PlaceDirect(r) \/ ApproveClaim(r) \/ WindowClaim(r) \/ RetryClaim(r)

RunStep(r) ==
  \/ ApproveDeploysNow(r) \/ ApproveWaits(r)
  \/ BeginOrderTriggerRun(r) \/ InsertElement(r) \/ RetrySiblings(r)
  \/ TriggerStarts(r) \/ TriggerFails(r) \/ RecordOrderPipelineId(r)
  \/ ElementFired(r) \/ PurgeElements(r) \/ ClearOrderTriggerRun(r)
  \/ ReleaseRetryClaim(r) \/ RewriteElement(r) \/ FinishOrderTriggerRun(r)
  \/ UndoClaim(r) \/ AnythingStarted(r) \/ Requeue(r)

RunFaults(r) ==
  \/ ApproveCannotDecide(r) \/ ApproveAbandoned(r) \/ RecordLost(r)
  \/ ElementThrows(r) \/ RunThrows(r) \/ RunDies(r)

HandlerStep(h) ==
  \/ CallbackArrives(h) \/ CallbackRepeated(h)
  \/ MergeSuccessEvent(h) \/ MergeFailureEvent(h)

SettleStep(x) == SettleReads(x) \/ SettleRecordsOutputs(x) \/ SettleSwaps(x)

Next ==
  \/ PlacePending \/ RejectOrder
  \/ \E r \in Runs : Claims(r) \/ RunStep(r) \/ RunFaults(r)
  \/ \E h \in Handlers : HandlerStep(h) \/ HandlerDies(h)
  \/ \E x \in Procs : SettleStep(x) \/ SettleThrows(x) \/ CompletionUnaudited(x)
  \/ CallbackLost
  \/ WriteOffReads \/ WriteOffWrites

Spec == Init /\ [][Next]_vars

-----------------------------------------------------------------------------
(* Properties                                                              *)

RowRecord == [exists : BOOLEAN, ids : SUBSET Pids, outputs : SUBSET Pids]
RunRecord ==
  [pc : RunPcs, kind : AllKinds, elems : SUBSET Rows, todo : SUBSET Rows,
   k : Nat, elem : SUBSET Pids, started : SUBSET Pids, missed : BOOLEAN]
SettleRecord ==
  [pc : SettlePcs, left : SUBSET Rows, snap : [Rows -> SUBSET Pids],
   decided : StatusMap(Pids)]

\* The type invariant: every column, request and process holds what the code
\* can put there.
TypeOK ==
  /\ status \in OrderStatuses
  /\ track \in TrackingOf(Pids)
  /\ rows \in [Rows -> RowRecord]
  /\ ci \in [Pids -> CiStates]
  /\ run \in [Runs -> RunRecord]
  /\ hnd \in [Handlers -> SUBSET Events]
  /\ settle \in [Procs -> SettleRecord]
  /\ writeOff \in BOOLEAN
  /\ faults \in [db : Nat, death : Nat]
  /\ owner \in Runs \union {0}
  /\ stale \subseteq {"run", "callback"}

Completes == status # "completed" /\ status' = "completed"

\* An order becomes 'completed' only in a step that finds its map free of
\* failures, of the 'triggering' entry and of sentinels: the decision taken on
\* an earlier snapshot is not applied to a row that changed since (settle.ts).
CompletionIsClean ==
  [][Completes => /\ track.st.good # {} /\ track.st.bad = {}
                  /\ ~track.st.firing /\ ~track.st.missed]_vars

Deployed(r) ==
  \A w \in run[r].elems, k \in 1 .. LastTrigger : Succeeded(<<r, w, k>>)

\* An order becomes 'completed' only when every trigger of every element of the
\* run it was waiting for has been fired and has reported success: a success
\* that arrives while siblings are still being fired cannot complete it.  This
\* is promised as long as no statement failed and no run claimed the order
\* under an earlier run that was still firing or a callback still to be merged.
CompletesDeployed == Completes => owner \in Runs /\ Deployed(owner)
EveryElementDeployed ==
  [][stale = {} /\ faults.db = 0 => CompletesDeployed]_vars

\* The same of an order that no two runs ever fired for at the same time: a
\* caller that decided on an earlier run's successes does not complete the
\* order while a retry is deploying it (settle.ts, the compare-and-swap).
NoCompletionByEarlierRun ==
  [][stale \subseteq {"callback"} => CompletesDeployed]_vars

\* As long as no database statement failed, an order that waits for an approver
\* or for its window has no element rows and no pipeline: releasing a claim
\* leaves nothing for the next claim to deploy a second time.
Blank == Existing = {} /\ \A p \in Pids : ci[p] = "none"
QueuedOrderIsBlank ==
  faults.db = 0 /\ status \in {"pending", "scheduled"} => Blank

\* An approval that is undone, even by an error, leaves nothing running: the
\* order goes back to 'pending' only if nothing was provisioned (approvals.ts).
UndoneApprovalIsBlank ==
  [][status # "pending" /\ status' = "pending" /\ status # "none" => Blank]_vars

\* A released window puts its order back to 'scheduled' only when it started no
\* pipeline, so that the next sweep does not deploy it twice (windowPolicy.ts).
RequeuedOrderIsBlank ==
  [][\A r \in Runs : Requeue(r) => \A p \in Pids : p[1] = r => ci[p] = "none"]_vars

\* An element's outputs come from its own pipelines, whoever wrote them and
\* however many elements the order has.
NoForeignOutputs == \A w \in Rows : \A p \in rows[w].outputs : p[2] = w

\* While the run that opened the tracking is still firing, the order it is
\* provisioning keeps the 'triggering' entry that refuses completion.
Firing(r) == run[r].pc \in {"insert", "siblings", "fire", "record", "rewrite", "close"}
HoldsTriggering ==
  status = "provisioning" /\ owner \in Runs /\ Firing(owner) => track.st.firing

\* A run takes ownership of the tracking fields: nobody else ends its trigger
\* run (pipelineTracking.ts, beginOrderTriggerRun).
OwnerHoldsTriggering == "run" \notin stale => HoldsTriggering

-----------------------------------------------------------------------------
(* Liveness                                                                *)

\* The backend executes a request to its end, and CI ends every pipeline.
Fairness ==
  /\ \A r \in Runs : WF_vars(RunStep(r))
  /\ \A x \in Procs : WF_vars(SettleStep(x))
  /\ \A h \in Handlers : WF_vars(HandlerStep(h))

FairSpec == Spec /\ Fairness

\* A claimed order does not stay 'provisioning' for ever: it is completed,
\* fails or is handed back, unless a trigger could not be started (the sentinel
\* then waits for root's write-off) or a stale writer disturbed the run.
VerdictReached ==
  (status = "provisioning" /\ stale = {})
    ~> (status # "provisioning" \/ track.st.missed \/ stale # {})

-----------------------------------------------------------------------------
(* What an order promises to its users, without runs, rows or callbacks    *)

Lifecycle == INSTANCE OrderLifecycle
               WITH fired <- \E p \in Pids : ci[p] # "none", overlap <- "run" \in stale
LifecycleSpec == Lifecycle!Spec

=============================================================================
