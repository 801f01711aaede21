------------------------------ MODULE Teardown ------------------------------
(***************************************************************************)
(* The elements of one order after they were provisioned: the requests     *)
(* that tear them down (the Decommission button, the scheduled sweep, the  *)
(* deletion of the project), the destroy callbacks that report back, and   *)
(* the retry of a failed order, which deploys the same elements again.     *)
(*                                                                         *)
(* Every database statement and CI call is an action of its own.  How the  *)
(* order itself reaches a verdict is OrderRun's subject: here it is failed *)
(* or completed by a callback, and an element has one apply per attempt.   *)
(***************************************************************************)
EXTENDS Naturals, FiniteSets, PipelineTracking

CONSTANTS
  Elements,     \* the element rows of the order
  MaxTears,     \* requests that may tear down; bounds the model
  MaxRetries,   \* retries of the order; bounds the model
  Webhooks,     \* product webhooks of the offering
  Stacks,       \* pipeline stacks of the offering
  Handlers,     \* callback requests being served at the same time
  Kinds,        \* the teardown requests of interest, a subset of AllKinds
  EarlyFailure, \* the order may fail while a retry is still firing
  MaxDbFaults,  \* database statements that may fail; bounds the model
  MaxDeaths     \* requests that may die half way; bounds the model

AllKinds == {"button", "sweep", "project"}

ASSUME TeardownAssumption ==
  /\ MaxTears \in Nat \ {0}
  /\ MaxRetries \in Nat
  /\ Webhooks \in Nat
  /\ Stacks \in Nat
  /\ Webhooks + Stacks > 0
  /\ Kinds \subseteq AllKinds
  /\ EarlyFailure \in BOOLEAN
  /\ MaxDbFaults \in Nat
  /\ MaxDeaths \in Nat

\* Requests are numbered; 0 is the run that provisioned the elements.
Tears == 1 .. MaxTears
Retries == MaxTears + 1 .. MaxTears + MaxRetries
Attempts == {0} \union Retries
LastTrigger == Webhooks + Stacks

ASSUME HandlersAreNotTears == Handlers \intersect Tears = {}

\* A pipeline is named by the request that started it, its element and trigger.
Pids == (Tears \union Attempts) \X Elements \X (1 .. LastTrigger)
ApplyOf(r, e) == <<r, e, 1>>
Procs == Tears \union Handlers

VARIABLES
  order,    \* orders.status
  attempt,  \* the run whose ids orders.pipeline_id lists
  est,      \* infrastructure_elements.status
  track,    \* infrastructure_elements.pipeline_id and .pipeline_status
  retired,  \* projects.retired_at is set
  ci,       \* what CI made of each pipeline
  tear,     \* the requests that tear elements down
  retry,    \* the requests that retry the order
  hnd,      \* the matched event a handler still has to write, if any
  settle,   \* each process inside settleElementIfComplete: the map it decided on
  faults,   \* failures that have happened
  holder,   \* history: the request that last claimed the element (0: none)
  stale     \* history: elements that were claimed or retried while a teardown,
            \* a callback or a retry still had a write of them to make

rowVars == <<order, attempt, est, track, retired>>
history == <<holder, stale>>
vars == <<rowVars, ci, tear, retry, hnd, settle, faults, history>>

-----------------------------------------------------------------------------
(* Helpers                                                                 *)

TearPcs ==
  {"idle", "claim", "read", "begin", "fire", "record", "unclaim", "restore",
   "putback", "close", "settling", "retire", "done"}
RetryPcs == {"idle", "siblings", "fire", "rewrite", "release", "done"}
ElementStatuses == {"active", "decommissioning", "decommissioned"}
OrderStatuses == {"provisioning", "completed", "failed"}
CiStates == {"none", "running", "success", "failed"}
NoSettling == {}

FreshTear ==
  [pc |-> "idle", project |-> FALSE, todo |-> {}, e |-> {}, k |-> 1,
   started |-> {}, missed |-> FALSE, previous |-> Cleared, blocked |-> FALSE]
FreshRetry == 
  [pc |-> "idle", asked |-> {}, covers |-> {}, fallback |-> FALSE, todo |-> {},
   started |-> {}]

At(t, pc) == tear[t].pc = pc
Goto(t, pc) == tear' = [tear EXCEPT ![t].pc = pc]
IsNext(t) == At(t, "idle") /\ \A u \in Tears : u < t => ~At(u, "idle")
Holds(t, e) == e \in tear[t].e
Active == {e \in Elements : est[e] = "active"}
Undecided == order = "provisioning"

TearOver(t) == tear[t].pc \in {"idle", "done"}
RetryOver(r) == retry[r].pc \in {"idle", "done"}
Deploying(e) == \E r \in Retries : ~RetryOver(r) /\ e \in retry[r].covers

\* A teardown that has let go of e but not yet written it back, or a callback
\* already matched to e, will still write its row; so will a retry that deploys e.
Unfinished(e) ==
  \/ \E t \in Tears : Holds(t, e) /\ ~TearOver(t)
  \/ \E h \in Handlers : \/ \E ev \in hnd[h] : ev.p[2] = e
                         \/ \E s \in settle[h] : s.e = e

DbFault == /\ faults.db < MaxDbFaults
           /\ faults' = [faults EXCEPT !.db = @ + 1]
Death == /\ faults.death < MaxDeaths
         /\ faults' = [faults EXCEPT !.death = @ + 1]

Deciding(e, t) == IF IsSettled(t) THEN {[e |-> e, decided |-> t.st]} ELSE NoSettling

\* The request is through with its element: on to the next one, or to the end.
Left(t, failed) ==
  LET left == tear[t].todo \ tear[t].e IN
  [tear[t] EXCEPT !.todo = left, !.e = {}, !.k = 1, !.started = {}, !.missed = FALSE,
     !.previous = Cleared, !.blocked = tear[t].project /\ (@ \/ failed),
     !.pc = CASE left # {} -> "claim"
              [] left = {} /\ tear[t].project -> "retire"
              [] OTHER -> "done"]
Leave(t, failed) == tear' = [tear EXCEPT ![t] = Left(t, failed)]

\* An error left fireDestroyTriggers.  claimAndDestroy puts the element back;
\* deleteProject only notes the failure.
Thrown(t) ==
  IF tear[t].project THEN Left(t, TRUE) ELSE [tear[t] EXCEPT !.pc = "putback"]
Throw(t) == tear' = [tear EXCEPT ![t] = Thrown(t)]

-----------------------------------------------------------------------------
(* The order                                                               *)

\* The order was provisioned: at least one of its elements has a pipeline.
Init ==
  /\ order = "provisioning" /\ attempt = 0 /\ retired = FALSE
  /\ \E D \in (SUBSET Elements) \ {{}} :
       /\ track = [e \in Elements |->
                     [Cleared EXCEPT !.ids = IF e \in D THEN {ApplyOf(0, e)} ELSE {}]]
       /\ ci = [p \in Pids |->
                  IF \E e \in D : p = ApplyOf(0, e) THEN "running" ELSE "none"]
  /\ est = [e \in Elements |-> "active"]
  /\ tear = [t \in Tears |-> FreshTear]
  /\ retry = [r \in Retries |-> FreshRetry]
  /\ hnd = [h \in Handlers |-> {}]
  /\ settle = [x \in Procs |-> NoSettling]
  /\ faults = [db |-> 0, death |-> 0]
  /\ holder = [e \in Elements |-> 0]
  /\ stale = {}

Covered == IF attempt = 0 THEN Elements ELSE retry[attempt].covers

\* All pipelines of the attempt have reported success.
OrderCompletes ==
  /\ Undecided
  /\ \A r \in Retries : RetryOver(r)
  /\ \A e \in Covered : ci[ApplyOf(attempt, e)] # "none"
  /\ order' = "completed"
  /\ ci' = [p \in Pids |-> IF \E e \in Covered : p = ApplyOf(attempt, e)
                             THEN "success" ELSE ci[p]]
  /\ UNCHANGED <<attempt, est, track, retired, tear, retry, hnd, settle, faults, history>>

\* One pipeline has failed, whatever its siblings do; or root wrote the order off.
OrderFails ==
  /\ Undecided
  /\ EarlyFailure \/ \A r \in Retries : RetryOver(r)
  /\ order' = "failed"
  /\ UNCHANGED <<attempt, est, track, retired, ci, tear, retry, hnd, settle, faults, history>>

-----------------------------------------------------------------------------
(* Tearing down                                                            *)

Begins(t, kind, todo) ==
  /\ kind \in Kinds
  /\ IsNext(t)
  /\ tear' = [tear EXCEPT ![t].project = (kind = "project"), ![t].todo = todo,
                ![t].pc = IF todo = {} THEN "retire" ELSE "claim"]
  /\ UNCHANGED <<rowVars, ci, retry, hnd, settle, faults, history>>

\* decommissionInfra, for any element of the project.
DecommissionInfra(t) == \E e \in Elements : Begins(t, "button", {e})

\* The sweep reads the elements that are due: schedules are not modelled, so
\* any active elements may be, unless their order is provisioning.
SweepDueDecommissions(t) ==
  /\ ~Undecided
  /\ \E D \in (SUBSET Active) \ {{}} : Begins(t, "sweep", D)

\* deleteProject reads the active elements of the project, whatever their order.
DeleteProject(t) == Begins(t, "project", Active)

\* Mutant: no claim asks about the order.
ClaimsActive(t, e) == est[e] = "active"

\* The claim, active -> decommissioning.  claimAndDestroy also requires, in the
\* same statement, that the order is not being provisioned; deleteProject does not.
MayClaim(t, e) == est[e] = "active" /\ (tear[t].project \/ ~Undecided)

Claim(t) ==
  /\ At(t, "claim")
  /\ \E e \in tear[t].todo :
       /\ MayClaim(t, e)
       /\ est' = [est EXCEPT ![e] = "decommissioning"]
       /\ tear' = [tear EXCEPT ![t].e = {e}, ![t].pc = "read"]
       /\ holder' = [holder EXCEPT ![e] = t]
       /\ stale' = IF Unfinished(e) \/ Deploying(e) THEN stale \union {e} ELSE stale
  /\ UNCHANGED <<order, attempt, track, retired, ci, retry, hnd, settle, faults>>

\* Nothing was claimed: the element is skipped, which no caller counts as a failure
\* that would keep a project from being deleted.
ClaimRefused(t) ==
  /\ At(t, "claim")
  /\ \E e \in tear[t].todo :
       /\ ~MayClaim(t, e)
       /\ LET left == tear[t].todo \ {e} IN
            tear' = [tear EXCEPT ![t].todo = left,
                       ![t].pc = CASE left # {} -> "claim"
                                   [] left = {} /\ tear[t].project -> "retire"
                                   [] OTHER -> "done"]
  /\ UNCHANGED <<rowVars, ci, retry, hnd, settle, faults, history>>

\* beginElementTriggerRun reads the tracking it is about to replace,
BeginReads(t) ==
  /\ At(t, "read")
  /\ \E e \in tear[t].e :
       tear' = [tear EXCEPT ![t].previous = track[e], ![t].pc = "begin"]
  /\ UNCHANGED <<rowVars, ci, retry, hnd, settle, faults, history>>

\* and opens the run, if the element is still 'decommissioning'.
BeginElementTriggerRun(t) ==
  /\ At(t, "begin")
  /\ \E e \in tear[t].e :
       track' = IF est[e] = "decommissioning" THEN [track EXCEPT ![e] = Opened] ELSE track
  /\ Goto(t, "fire")
  /\ UNCHANGED <<order, attempt, est, retired, ci, retry, hnd, settle, faults, history>>

\* Mutant: one trigger that does not start is enough to give the element back.
AfterTriggerGivesUp(t, started, missed) ==
  CASE tear[t].k < LastTrigger -> "fire"
    [] tear[t].k = LastTrigger /\ missed -> "unclaim"
    [] OTHER -> "close"

\* The pc once trigger k has been tried, given what started and what did not.
AfterTrigger(t, started, missed) ==
  CASE tear[t].k < LastTrigger -> "fire"
    [] tear[t].k = LastTrigger /\ started = {} /\ missed -> "unclaim"
    [] OTHER -> "close"

DestroyStarts(t) ==
  /\ At(t, "fire")
  /\ \E e \in tear[t].e :
       LET p == <<t, e, tear[t].k>> IN
         /\ ci' = [ci EXCEPT ![p] = "running"]
         /\ tear' = [tear EXCEPT ![t].started = @ \union {p}, ![t].pc = "record"]
  /\ UNCHANGED <<rowVars, retry, hnd, settle, faults, history>>

\* The CI call threw: collected, and the next trigger is tried.
DestroyFails(t) ==
  /\ At(t, "fire")
  /\ tear' = [tear EXCEPT ![t].missed = TRUE, ![t].k = @ + 1,
                ![t].pc = AfterTrigger(t, tear[t].started, TRUE)]
  /\ UNCHANGED <<rowVars, ci, retry, hnd, settle, faults, history>>

\* Mutant: the counter is advanced before the id is recorded.
RecordNextTrigger(t) ==
  /\ At(t, "record")
  /\ \E e \in tear[t].e : track' = [track EXCEPT ![e] = AppendOne(@, <<t, e, tear[t].k + 1>>)]
  /\ tear' = [tear EXCEPT ![t].k = @ + 1,
                ![t].pc = AfterTrigger(t, tear[t].started, tear[t].missed)]
  /\ UNCHANGED <<order, attempt, est, retired, ci, retry, hnd, settle, faults, history>>

\* By the element's id alone.
RecordElementPipelineId(t) ==
  /\ At(t, "record")
  /\ \E e \in tear[t].e : track' = [track EXCEPT ![e] = AppendOne(@, <<t, e, tear[t].k>>)]
  /\ tear' = [tear EXCEPT ![t].k = @ + 1,
                ![t].pc = AfterTrigger(t, tear[t].started, tear[t].missed)]
  /\ UNCHANGED <<order, attempt, est, retired, ci, retry, hnd, settle, faults, history>>

\* reportStarted swallows a failed write.
RecordLost(t) ==
  /\ At(t, "record")
  /\ DbFault
  /\ tear' = [tear EXCEPT ![t].k = @ + 1,
                ![t].pc = AfterTrigger(t, tear[t].started, tear[t].missed)]
  /\ UNCHANGED <<rowVars, ci, retry, hnd, settle, history>>

\* No destroy started: the element is 'active' again, by id,
Unclaim(t) ==
  /\ At(t, "unclaim")
  /\ \E e \in tear[t].e : est' = [est EXCEPT ![e] = "active"]
  /\ Goto(t, "restore")
  /\ UNCHANGED <<order, attempt, track, retired, ci, retry, hnd, settle, faults, history>>

\* and in a statement of its own gets its provisioning run's tracking back.
RestoreElementTriggerRun(t) ==
  /\ At(t, "restore")
  /\ \E e \in tear[t].e : track' = [track EXCEPT ![e] = tear[t].previous]
  /\ Leave(t, TRUE)
  /\ UNCHANGED <<order, attempt, est, retired, ci, retry, hnd, settle, faults, history>>

\* Mutant: closing a trigger run does not ask whether the teardown is complete.
FinishWithoutAsking(t) ==
  /\ At(t, "close")
  /\ \E e \in tear[t].e :
       track' = [track EXCEPT ![e] = Closed(@, tear[t].started, tear[t].missed)]
  /\ Leave(t, tear[t].missed)
  /\ UNCHANGED <<order, attempt, est, retired, ci, retry, hnd, settle, faults, history>>

\* finishElementTriggerRun, and the question the callbacks were refused.
FinishElementTriggerRun(t) ==
  /\ At(t, "close")
  /\ \E e \in tear[t].e :
       LET new == Closed(track[e], tear[t].started, tear[t].missed) IN
         /\ track' = [track EXCEPT ![e] = new]
         /\ settle' = [settle EXCEPT ![t] = Deciding(e, new)]
         /\ IF IsSettled(new) THEN Goto(t, "settling") ELSE Leave(t, tear[t].missed)
  /\ UNCHANGED <<order, attempt, est, retired, ci, retry, hnd, faults, history>>

\* The catch of claimAndDestroy: the status alone, by id.
PutBack(t) ==
  /\ At(t, "putback")
  /\ \E e \in tear[t].e : est' = [est EXCEPT ![e] = "active"]
  /\ Leave(t, TRUE)
  /\ UNCHANGED <<order, attempt, track, retired, ci, retry, hnd, settle, faults, history>>

\* A project with orders is retired, unless a destroy of this request failed to start.
RetireProject(t) ==
  /\ At(t, "retire")
  /\ retired' = (retired \/ ~tear[t].blocked)
  /\ Goto(t, "done")
  /\ UNCHANGED <<order, attempt, est, track, ci, retry, hnd, settle, faults, history>>

-----------------------------------------------------------------------------
(* Destroy callbacks                                                       *)

Free(h) == hnd[h] = {} /\ settle[h] = NoSettling

\* The id was returned but recordElementPipelineId has not been executed yet.
Unrecorded(p) == \E t \in Tears : At(t, "record") /\ p \in {<<t, e, tear[t].k>> : e \in tear[t].e}

\* CI posts the verdict of a destroy; the handler selects the element by status
\* and listed id, and an event that matches nothing is gone.
CallbackArrives(h) ==
  /\ Free(h)
  /\ \E p \in Pids, v \in {"success", "failed"} :
       /\ p[1] \in Tears /\ ci[p] = "running" /\ ~Unrecorded(p)
       /\ ci' = [ci EXCEPT ![p] = v]
       /\ hnd' = IF est[p[2]] = "decommissioning" /\ p \in track[p[2]].ids
                   THEN [hnd EXCEPT ![h] = {[p |-> p, verdict |-> v]}] ELSE hnd
  /\ UNCHANGED <<rowVars, tear, retry, settle, faults, history>>

MergeSuccessEvent(h) ==
  /\ \E ev \in hnd[h] :
       LET e == ev.p[2] IN
         /\ ev.verdict = "success"
         /\ IF est[e] = "decommissioning"
              THEN /\ track' = [track EXCEPT ![e] = MergeSuccess(@, ev.p)]
                   /\ settle' = [settle EXCEPT ![h] = Deciding(e, MergeSuccess(track[e], ev.p))]
              ELSE UNCHANGED <<track, settle>>
  /\ hnd' = [hnd EXCEPT ![h] = {}]
  /\ UNCHANGED <<order, attempt, est, retired, ci, tear, retry, faults, history>>

\* The element deliberately stays 'decommissioning'.
MergeFailureEvent(h) ==
  /\ \E ev \in hnd[h] :
       LET e == ev.p[2] IN
         /\ ev.verdict = "failed"
         /\ track' = IF est[e] = "decommissioning"
                       THEN [track EXCEPT ![e] = MergeFailure(@, ev.p)] ELSE track
  /\ hnd' = [hnd EXCEPT ![h] = {}]
  /\ UNCHANGED <<order, attempt, est, retired, ci, tear, retry, settle, faults, history>>

\* The compare-and-swap of settleElementIfComplete.
SwapMatches(s) == est[s.e] = "decommissioning" /\ track[s.e].st = s.decided

Swapped(x) ==
  est' = [e \in Elements |-> IF \E s \in settle[x] : s.e = e /\ SwapMatches(s)
                               THEN "decommissioned" ELSE est[e]]

SettleSwaps(x) ==
  /\ settle[x] # NoSettling
  /\ Swapped(x)
  /\ settle' = [settle EXCEPT ![x] = NoSettling]
  /\ IF x \in Tears THEN Leave(x, tear[x].missed) ELSE UNCHANGED tear
  /\ UNCHANGED <<order, attempt, track, retired, ci, retry, hnd, faults, history>>

-----------------------------------------------------------------------------
(* Retrying the order                                                      *)

\* The claim of retryProvisioning, asked for one of the elements whatever its status.
RetryClaim(r) ==
  /\ order = "failed"
  /\ retry[r].pc = "idle" /\ \A q \in Retries : q < r => retry[q].pc # "idle"
  /\ \E e \in Elements :
       retry' = [retry EXCEPT ![r].pc = "siblings", ![r].asked = {e}]
  /\ order' = "provisioning"
  /\ attempt' = r
  /\ UNCHANGED <<est, track, retired, ci, tear, hnd, settle, faults, history>>

\* The active elements of the order, or the one asked for when there is none.
RetrySiblings(r) ==
  /\ retry[r].pc = "siblings"
  /\ LET covers == IF Active # {} THEN Active ELSE retry[r].asked IN
       /\ retry' = [retry EXCEPT ![r].pc = "fire", ![r].asked = {}, ![r].covers = covers,
                     ![r].fallback = (Active = {}), ![r].todo = covers]
       /\ stale' = stale \union {e \in covers : Unfinished(e)}
  /\ UNCHANGED <<rowVars, ci, tear, hnd, settle, faults, holder>>

RetryMoves(r, e, started) ==
  LET left == retry[r].todo \ {e} IN
  retry' = [retry EXCEPT ![r].started = started,
              ![r].todo = IF left = {} THEN retry[r].covers ELSE left,
              ![r].pc = CASE left # {} -> "fire"
                          [] left = {} /\ started = {} -> "release"
                          [] OTHER -> "rewrite"]

\* The triggers of one element start, or none does.
ApplyStarts(r) ==
  /\ retry[r].pc = "fire"
  /\ \E e \in retry[r].todo :
       /\ ci' = [ci EXCEPT ![ApplyOf(r, e)] = "running"]
       /\ RetryMoves(r, e, retry[r].started \union {ApplyOf(r, e)})
  /\ UNCHANGED <<rowVars, tear, hnd, settle, faults, history>>

ApplyFails(r) ==
  /\ retry[r].pc = "fire"
  /\ \E e \in retry[r].todo : RetryMoves(r, e, retry[r].started)
  /\ UNCHANGED <<rowVars, ci, tear, hnd, settle, faults, history>>

\* Every covered element is written back to 'active', by id, with its own ids.
RewriteElement(r) ==
  /\ retry[r].pc = "rewrite"
  /\ \E e \in retry[r].todo :
       LET left == retry[r].todo \ {e} IN
         /\ est' = [est EXCEPT ![e] = "active"]
         /\ track' = [track EXCEPT ![e] = [Cleared EXCEPT !.ids =
                                             {p \in retry[r].started : p[2] = e}]]
         /\ retry' = [retry EXCEPT ![r].todo = left,
                        ![r].started = IF left = {} THEN {} ELSE @,
                        ![r].pc = IF left = {} THEN "done" ELSE "rewrite"]
  /\ UNCHANGED <<order, attempt, retired, ci, tear, hnd, settle, faults, history>>

ReleaseRetryClaim(r) ==
  /\ retry[r].pc = "release"
  /\ order' = "failed"
  /\ retry' = [retry EXCEPT ![r].pc = "done"]
  /\ UNCHANGED <<attempt, est, track, retired, ci, tear, hnd, settle, faults, history>>

-----------------------------------------------------------------------------
(* Failures                                                                *)

\* A statement of fireDestroyTriggers fails, or one of the reads it makes
\* before the webhooks (k = 1) and before the stacks.
TearThrows(t) ==
  /\ \/ tear[t].pc \in {"read", "begin", "unclaim", "restore", "close"}
     \/ At(t, "fire") /\ tear[t].k \in {1, Webhooks + 1}
  /\ DbFault
  /\ Throw(t)
  /\ UNCHANGED <<rowVars, ci, retry, hnd, settle, history>>

\* The swap was made, or not, and the statement after it fails.
SettleThrows(x) ==
  /\ settle[x] # NoSettling
  /\ DbFault
  /\ Swapped(x) \/ UNCHANGED est
  /\ settle' = [settle EXCEPT ![x] = NoSettling]
  /\ IF x \in Tears THEN Throw(x) ELSE UNCHANGED tear
  /\ UNCHANGED <<order, attempt, track, retired, ci, retry, hnd, history>>

PutBackFails(t) ==
  /\ At(t, "putback")
  /\ DbFault
  /\ Leave(t, TRUE)
  /\ UNCHANGED <<rowVars, ci, retry, hnd, settle, history>>

\* The process serving the request dies between two of its steps.
TearDies(t) ==
  /\ ~TearOver(t)
  /\ Death
  /\ tear' = [tear EXCEPT ![t] = [FreshTear EXCEPT !.pc = "done"]]
  /\ settle' = [settle EXCEPT ![t] = NoSettling]
  /\ UNCHANGED <<rowVars, ci, retry, hnd, history>>

-----------------------------------------------------------------------------

Requests(t) == DecommissionInfra(t) \/ SweepDueDecommissions(t) \/ DeleteProject(t)

TearStep(t) ==
  \/ Claim(t) \/ ClaimRefused(t)
  \/ BeginReads(t) \/ BeginElementTriggerRun(t)
  \/ DestroyStarts(t) \/ DestroyFails(t) \/ RecordElementPipelineId(t)
  \/ Unclaim(t) \/ RestoreElementTriggerRun(t) \/ FinishElementTriggerRun(t)
  \/ PutBack(t) \/ RetireProject(t)

TearFaults(t) == RecordLost(t) \/ TearThrows(t) \/ PutBackFails(t) \/ TearDies(t)

HandlerStep(h) == CallbackArrives(h) \/ MergeSuccessEvent(h) \/ MergeFailureEvent(h)

RetryStep(r) ==
  RetrySiblings(r) \/ ApplyStarts(r) \/ ApplyFails(r) \/ RewriteElement(r) \/ ReleaseRetryClaim(r)

Next ==
  \/ OrderCompletes \/ OrderFails
  \/ \E t \in Tears : Requests(t) \/ TearStep(t) \/ TearFaults(t)
  \/ \E h \in Handlers : HandlerStep(h)
  \/ \E x \in Procs : SettleSwaps(x) \/ SettleThrows(x)
  \/ \E r \in Retries : RetryClaim(r) \/ RetryStep(r)

Spec == Init /\ [][Next]_vars

-----------------------------------------------------------------------------
(* Properties                                                              *)

\* The type invariant: every column, request and callback holds what the code
\* can put there.
TypeOK ==
  /\ order \in OrderStatuses
  /\ attempt \in Attempts
  /\ est \in [Elements -> ElementStatuses]
  /\ track \in [Elements -> TrackingOf(Pids)]
  /\ retired \in BOOLEAN
  /\ ci \in [Pids -> CiStates]
  /\ tear \in [Tears -> [pc : TearPcs, project : BOOLEAN, todo : SUBSET Elements,
                         e : SUBSET Elements, k : Nat, started : SUBSET Pids,
                         missed : BOOLEAN, previous : TrackingOf(Pids), blocked : BOOLEAN]]
  /\ retry \in [Retries -> [pc : RetryPcs, asked : SUBSET Elements, covers : SUBSET Elements,
                            fallback : BOOLEAN, todo : SUBSET Elements, started : SUBSET Pids]]
  /\ hnd \in [Handlers -> SUBSET [p : Pids, verdict : {"success", "failed"}]]
  /\ settle \in [Procs -> SUBSET [e : Elements, decided : StatusMap(Pids)]]
  /\ faults \in [db : Nat, death : Nat]
  /\ holder \in [Elements -> Tears \union {0}]
  /\ stale \subseteq Elements

Decommissions(e) == est[e] # "decommissioned" /\ est'[e] = "decommissioned"
Destroyed(e) ==
  holder[e] \in Tears /\ \A k \in 1 .. LastTrigger : ci[<<holder[e], e, k>>] = "success"

\* An element becomes 'decommissioned' only when the teardown that claimed it
\* fired every destroy trigger and each has reported success: not while siblings
\* are still being fired, and not when one could not be started.  This is so
\* unless the element was claimed or deployed again under somebody who still had
\* to write it.
DecommissionedIsDestroyed ==
  [][\A e \in Elements : Decommissions(e) /\ e \notin stale => Destroyed(e)]_vars

\* The same of any element: once it is claimed nobody but its teardown writes
\* its tracking (pipelineTracking.ts, beginElementTriggerRun).
ClaimedTrackingIsOwn ==
  [][\A e \in Elements : Decommissions(e) => Destroyed(e)]_vars

\* While a retry deploys the active elements of an order, no teardown is firing
\* at one of them and no destroy of one is running, and the other way round: the
\* two would write the same Terraform state (orderNotProvisioning, and the filter
\* of retryProvisioning).  A retry that found no active element deploys the one it
\* was asked for, and from then on nothing of the kind is promised.
FellBack == \E r \in Retries : retry[r].fallback
DestroyRunning(e) == \E t \in Tears, k \in 1 .. LastTrigger : ci[<<t, e, k>>] = "running"
Tearing(e) ==
  \E t \in Tears : Holds(t, e) /\ tear[t].pc \in {"read", "begin", "fire", "record", "close"}
NoDestroyDuringApply ==
  faults.db = 0 /\ ~FellBack =>
    \A r \in Retries : ~RetryOver(r) =>
      \A e \in retry[r].covers : ~Tearing(e) /\ ~DestroyRunning(e)

\* A project is retired only when every destroy trigger of each of its elements
\* was started, or is just being fired: otherwise infrastructure goes on running
\* that no screen shows any more (projects.ts, deleteProject).
Fired(e, k) == \E t \in Tears : ci[<<t, e, k>>] # "none"
RetiredProjectLeaksNothing ==
  [][~retired /\ retired' =>
       \A e \in Elements :
         (\E t \in Tears : Holds(t, e)) \/ \A k \in 1 .. LastTrigger : Fired(e, k)]_vars

\* An element is 'active' again only when no destroy was started since it was claimed:
\* the catch that writes it back says that the "destroy pipeline could not be started"
\* (infrastructure.ts, claimAndDestroy).
FiredAt(e) ==
  holder[e] \in Tears /\ \E k \in 1 .. LastTrigger : ci[<<holder[e], e, k>>] # "none"
PutBackIsUntouched ==
  [][\A e \in Elements : est[e] # "active" /\ est'[e] = "active" => ~FiredAt(e)]_vars

-----------------------------------------------------------------------------
(* Liveness                                                                *)

\* The backend executes a request to its end, and CI ends every destroy.
Fairness ==
  /\ \A t \in Tears : WF_vars(TearStep(t))
  /\ \A x \in Procs : WF_vars(SettleSwaps(x))
  /\ \A h \in Handlers : WF_vars(HandlerStep(h))

FairSpec == Spec /\ Fairness

\* A claimed element does not stay 'decommissioning' without a trace: it is
\* decommissioned, put back, or its map names what failed.
Undisturbed(e) == faults.db = 0 /\ faults.death = 0 /\ e \notin stale
TeardownEnds ==
  \A e \in Elements :
    (est[e] = "decommissioning" /\ Undisturbed(e))
      ~> \/ est[e] # "decommissioning"
         \/ track[e].st.missed \/ track[e].st.bad # {}
         \/ ~Undisturbed(e)

-----------------------------------------------------------------------------
(* What a teardown promises about an element, without requests or callbacks *)

\* Each element goes the ways of ElementLifecycle, whatever requests, callbacks and
\* retries of the code do to its row: claimed while active, decommissioned only
\* after a destroy of this claim was started, and given back only if none was, but
\* for an error, a retry that fell back, and a second writer.
Lifecycle == INSTANCE ElementLifecycle
               WITH state <- est, fired <- {e \in Elements : FiredAt(e)},
                    error <- faults.db > 0, fallback <- FellBack, overtaken <- stale
ElementLifecycleSpec == Lifecycle!Spec

=============================================================================
