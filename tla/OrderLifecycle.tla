--------------------------- MODULE OrderLifecycle ---------------------------
(***************************************************************************)
(* What an order promises to the people who look at it: the statuses it    *)
(* goes through, that deploying it and queueing it exclude each other, and *)
(* what is lost once a retry takes up an order another request is still    *)
(* working on.  OrderRun implements it (its LifecycleSpec) as long as no   *)
(* database statement fails.                                               *)
(***************************************************************************)

VARIABLES
  status, \* orders.status; "none" before the order is placed
  fired,  \* some pipeline was ever started for the order
  overlap \* two requests have worked on the order at the same time

vars == <<status, fired, overlap>>

Init == status = "none" /\ fired = FALSE /\ overlap = FALSE

Place ==
  /\ status = "none"
  /\ status' \in {"pending", "provisioning"}
  /\ UNCHANGED <<fired, overlap>>

Reject ==
  /\ status = "pending"
  /\ status' = "rejected"
  /\ UNCHANGED <<fired, overlap>>

\* An approval or an opened window takes the order up, as the only request.
Claim ==
  /\ status \in {"pending", "scheduled"}
  /\ status' = "provisioning"
  /\ UNCHANGED <<fired, overlap>>

\* A retry takes it up, perhaps under the request that failed.
Retry ==
  /\ status = "failed"
  /\ status' = "provisioning"
  /\ overlap' \in {overlap, TRUE}
  /\ UNCHANGED fired

\* Only an order for which nothing was ever started goes back to wait.
HandBack ==
  /\ status = "provisioning"
  /\ ~fired
  /\ status' \in {"pending", "scheduled"}
  /\ UNCHANGED <<fired, overlap>>

\* A pipeline starts: the order was taken up and is not rejected or waiting.
Fire ==
  /\ status \in {"provisioning", "failed", "completed"}
  /\ fired' = TRUE
  /\ UNCHANGED <<status, overlap>>

Fail ==
  /\ status = "provisioning"
  /\ status' = "failed"
  /\ UNCHANGED <<fired, overlap>>

\* 'completed' is said only of an order that deployed something,
Complete ==
  /\ status = "provisioning"
  /\ fired
  /\ status' = "completed"
  /\ UNCHANGED <<fired, overlap>>

\* and is final, unless a retry that started nothing hands back an order that
\* another request completed.
TakeBack ==
  /\ status = "completed"
  /\ overlap
  /\ status' = "failed"
  /\ UNCHANGED <<fired, overlap>>

Next ==
  Place \/ Reject \/ Claim \/ Retry \/ HandBack \/ Fire \/ Fail \/ Complete \/ TakeBack

Spec == Init /\ [][Next]_vars
=============================================================================
