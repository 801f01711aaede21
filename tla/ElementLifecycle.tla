-------------------------- MODULE ElementLifecycle --------------------------
(***************************************************************************)
(* What a teardown promises about every element: it is claimed while it is *)
(* active, destroyed only when claimed, and given back only if nothing was *)
(* destroyed.  Three things take this away, and each is a step one can     *)
(* see: a statement failed, a retry fell back to an element that was not   *)
(* active, or the element was taken up under somebody who was still to     *)
(* write it.  Teardown implements it.                                      *)
(***************************************************************************)
CONSTANT Elements

VARIABLES
  state,     \* infrastructure_elements.status
  fired,     \* the elements a destroy was started for since they were claimed
  error,     \* a statement has failed
  fallback,  \* a retry deployed an element that was not active
  overtaken  \* the elements of which nothing is promised any more

vars == <<state, fired, error, fallback, overtaken>>

Stages == {"active", "decommissioning", "decommissioned"}

Init ==
  /\ state = [e \in Elements |-> "active"]
  /\ fired = {} /\ overtaken = {}
  /\ error = FALSE /\ fallback = FALSE

Becomes(e, from, to) == state[e] = from /\ state'[e] = to
FiredStays(e) == e \in fired' <=> e \in fired

Claim(e) == Becomes(e, "active", "decommissioning") /\ e \notin fired'

Fire(e) == Becomes(e, "decommissioning", "decommissioning") /\ e \in fired'

\* Given back, because nothing could be started.
Return(e) ==
  /\ Becomes(e, "decommissioning", "active") /\ FiredStays(e)
  /\ e \notin fired

Destroy(e) ==
  /\ Becomes(e, "decommissioning", "decommissioned") /\ FiredStays(e)
  /\ e \in fired

\* Active again although destroys were started or even have all ended: the one who
\* met an error, or a retry that fell back, writes the status by id alone.
Revive(e) == (error \/ fallback) /\ state'[e] = "active" /\ FiredStays(e)

Rest(e) == state'[e] = state[e] /\ FiredStays(e)

Step(e) == Claim(e) \/ Fire(e) \/ Return(e) \/ Destroy(e) \/ Revive(e) \/ Rest(e)

Next ==
  /\ state' \in [Elements -> Stages] /\ fired' \subseteq Elements
  /\ overtaken \subseteq overtaken' /\ (error => error') /\ (fallback => fallback')
  /\ \A e \in Elements \ overtaken : Step(e)

Spec == Init /\ [][Next]_vars
=============================================================================
