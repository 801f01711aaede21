-------------------------- MODULE PipelineTracking --------------------------
(***************************************************************************)
(* The two columns `pipeline_id` and `pipeline_status` that an order and   *)
(* an infrastructure element both carry, and the operations the backend    *)
(* performs on them (services/pipelineTracking.ts, webhook/settle.ts).     *)
(*                                                                         *)
(* A tracking value is [ids, st]: `ids` is the set of listed pipelines     *)
(* (their order is only displayed), `st` the jsonb status map, by what its *)
(* readers tell apart:                                                     *)
(*   good    keys whose value is 'success'                                 *)
(*   bad     keys whose value is 'failed' or 'canceled'                    *)
(*   firing  the key 'triggering' is present                               *)
(*   missed  some key 'trigger-failed:i' is present                        *)
(***************************************************************************)
EXTENDS FiniteSets

StatusMap(P) ==
  [good : SUBSET P, bad : SUBSET P, firing : BOOLEAN, missed : BOOLEAN]

TrackingOf(P) == [ids : SUBSET P, st : StatusMap(P)]

NoStatus == [good |-> {}, bad |-> {}, firing |-> FALSE, missed |-> FALSE]

\* The value of both columns in a row that no run has touched, and the one
\* clearOrderTriggerRun writes.
Cleared == [ids |-> {}, st |-> NoStatus]

\* Mutant: opening a trigger run writes an empty map.
OpenedWithoutEntry == Cleared

\* What begin*TriggerRun writes: no ids, and only the 'triggering' entry.
Opened == [ids |-> {}, st |-> [NoStatus EXCEPT !.firing = TRUE]]

\* `pipeline_id || [id]`.
AppendOne(t, p) == [t EXCEPT !.ids = @ \union {p}]

\* The UPDATE of finish*TriggerRun: the ids not yet listed are appended, the
\* 'triggering' entry is replaced by one sentinel per trigger that failed.
Closed(t, started, missed) ==
  [t EXCEPT !.ids = t.ids \union started,
            !.st = [t.st EXCEPT !.firing = FALSE, !.missed = t.st.missed \/ missed]]

\* `pipeline_status || {id: 'success'}` and `|| {id: 'failed'}`: an entry
\* the map already holds for the pipeline is overwritten.
MergeSuccess(t, p) ==
  [t EXCEPT !.st = [t.st EXCEPT !.good = t.st.good \union {p}, !.bad = t.st.bad \ {p}]]

MergeFailure(t, p) ==
  [t EXCEPT !.st = [t.st EXCEPT !.bad = t.st.bad \union {p}, !.good = t.st.good \ {p}]]

\* Mutant: one success is enough.
AnySuccessSettles(t) ==
  t.ids # {} /\ t.st.good # {} /\ t.st.bad = {} /\ ~t.st.firing /\ ~t.st.missed

\* Every listed pipeline succeeded, at least one is listed, and the map holds
\* nothing but successes.
IsSettled(t) ==
  /\ t.ids # {}
  /\ t.ids \subseteq t.st.good
  /\ t.st.bad = {}
  /\ ~t.st.firing
  /\ ~t.st.missed
=============================================================================
