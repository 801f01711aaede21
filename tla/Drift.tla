------------------------------- MODULE Drift -------------------------------
(***************************************************************************)
(* What scheduled plans find (services/driftReports.ts).  CI plans every   *)
(* state file and posts one report; a job that is retried posts it again,  *)
(* so reports arrive late, repeatedly and at the same time, while elements *)
(* are created, torn down and put back.  recordDriftReport is no           *)
(* transaction: every statement of it is a step of its own.                *)
(*                                                                         *)
(* A report's checkedAt is its number.  A state key is the element and the *)
(* step it was composed from, or an orphan that no element accounts for.   *)
(***************************************************************************)
EXTENDS Naturals, Sequences, FiniteSetsExt

CONSTANTS
  Elements,   \* infrastructure elements
  Steps,      \* steps of an element's stack, each with a state file
  Orphans,    \* state files no element has ever owned
  Requests,   \* recordings that may run at the same time
  Outcomes,   \* what a plan may conclude about a state file
  MaxReports  \* reports ever planned; bounds the model

ASSUME DriftAssumption ==
  /\ MaxReports \in Nat
  /\ Outcomes \subseteq {"clean", "locked", "error", "drifted"}
  /\ Orphans \intersect (Elements \X Steps) = {}

VARIABLES
  est,       \* an element: no row yet, a row, an active row
  refresh,   \* its four refresh columns
  unclaimed, \* unclaimed_states: the keys that have a row
  reportAt,  \* drift_report_state.last_report_at
  posted,    \* the reports CI has planned
  req,       \* the recordings being served
  applied    \* history: the reports written to an element

vars == <<est, refresh, unclaimed, reportAt, posted, req, applied>>

-----------------------------------------------------------------------------
Never == 0
Times == 1 .. MaxReports

\* composeStateKey
KeysOf(e) == {e} \X Steps
Keys == (Elements \X Steps) \union Orphans

\* The worst result an element takes: OUTCOME_RANK.
Rank == [clean |-> 0, locked |-> 1, error |-> 2, drifted |-> 3]

Reports ==
  [results : UNION {[K -> Outcomes] : K \in (SUBSET Keys) \ {{}}}, complete : BOOLEAN]

Blank == [at |-> Never, outcome |-> "none", drift |-> Never]

Idle == [pc |-> "idle"]
At(r, pc) == req[r].pc = pc

\* History: no other recording was served while this one runs, or one was.
Disturbed(r) == IF At(r, "idle") THEN req[r] ELSE [req[r] EXCEPT !.alone = FALSE]

Report(r) == posted[req[r].report]
Seen(r) == DOMAIN Report(r).results

\* Non-active owners count: 'nobody owns it' and 'its owner is on its way out' differ.
Owned(k) == \E e \in Elements : k \in KeysOf(e) /\ est[e] # "absent"

\* The elements a report has a result for, and can take one.
Reported(results) == {e \in Elements : est[e] = "active" /\ KeysOf(e) \intersect DOMAIN results # {}}

UnknownAtAll(results) == {k \in Keys : ~Owned(k)}

Unknown(results) == {k \in DOMAIN results : ~Owned(k)}

ResultsOf(results, e) == {results[k] : k \in KeysOf(e) \intersect DOMAIN results}

AggregateAny(results, e) == CHOOSE o \in ResultsOf(results, e) : TRUE

Aggregate(results, e) ==
  CHOOSE o \in ResultsOf(results, e) : \A p \in ResultsOf(results, e) : Rank[p] <= Rank[o]

-----------------------------------------------------------------------------
Init ==
  /\ est = [e \in Elements |-> "absent"]
  /\ refresh = [e \in Elements |-> Blank]
  /\ unclaimed = {}
  /\ reportAt = Never
  /\ posted = <<>>
  /\ req = [r \in Requests |-> Idle]
  /\ applied = [e \in Elements |-> {}]

\* What orders and teardowns do to an element.  "absent" is no row yet, "held" a row
\* that is being provisioned, being torn down or done.
ElementEdges == {<<"absent", "held">>, <<"held", "active">>, <<"active", "held">>}

ElementMoves(e) ==
  /\ \E to \in {"held", "active"} :
       /\ <<est[e], to>> \in ElementEdges
       /\ est' = [est EXCEPT ![e] = to]
  /\ UNCHANGED <<refresh, unclaimed, reportAt, posted, req, applied>>

Plan(report) ==
  /\ Len(posted) < MaxReports
  /\ posted' = Append(posted, report)
  /\ UNCHANGED <<est, refresh, unclaimed, reportAt, req, applied>>

-----------------------------------------------------------------------------
(* recordDriftReport                                                       *)

\* stateKeyOwners, and the report is partitioned.
Partition(r, n) ==
  LET results == posted[n].results
  IN /\ At(r, "idle")
     /\ req' = [q \in Requests |->
          IF q # r THEN Disturbed(q)
          ELSE [pc |-> "elements", report |-> n, todo |-> Reported(results),
                unknown |-> Unknown(results), upserts |-> Unknown(results),
                alone |-> \A p \in Requests \ {r} : At(p, "idle")]]
     /\ UNCHANGED <<est, refresh, unclaimed, reportAt, posted, applied>>

\* The four columns.  Only a clean report clears the drift.
Written(row, n, outcome) ==
  [at |-> n, outcome |-> outcome,
   drift |-> CASE outcome = "drifted" -> n
               [] outcome = "clean"   -> Never
               [] OTHER               -> row.drift]

MayAnnotateAnyTime(r, e) == est[e] = "active"

\* The WHERE of the update.
MayAnnotate(r, e) == est[e] = "active" /\ refresh[e].at < req[r].report

WriteElement(r, e) ==
  LET n == req[r].report
  IN /\ At(r, "elements")
     /\ e \in req[r].todo
     /\ IF MayAnnotate(r, e)
        THEN /\ refresh' = [refresh EXCEPT ![e] =
                  Written(refresh[e], n, Aggregate(Report(r).results, e))]
             /\ applied' = [applied EXCEPT ![e] = applied[e] \union {n}]
        ELSE UNCHANGED <<refresh, applied>>
     /\ req' = [req EXCEPT ![r].todo = req[r].todo \ {e}]
     /\ UNCHANGED <<est, unclaimed, reportAt, posted>>

\* One insert or update for each key nobody owned.
UpsertUnclaimed(r, k) ==
  /\ At(r, "elements") /\ req[r].todo = {}
  /\ k \in req[r].upserts
  /\ unclaimed' = unclaimed \union {k}
  /\ req' = [req EXCEPT ![r].upserts = req[r].upserts \ {k}]
  /\ UNCHANGED <<est, refresh, reportAt, posted, applied>>

\* The keys of the report that somebody owned stop being observations.
ForgetClaimed(r) ==
  /\ At(r, "elements") /\ req[r].todo = {} /\ req[r].upserts = {}
  /\ unclaimed' = unclaimed \ (Seen(r) \ req[r].unknown)
  /\ req' = [req EXCEPT ![r].pc = IF Report(r).complete THEN "reconcile" ELSE "state"]
  /\ UNCHANGED <<est, refresh, reportAt, posted, applied>>

ReconcileNothing(r) ==
  /\ At(r, "reconcile")
  /\ req' = [req EXCEPT ![r].pc = "state"]
  /\ UNCHANGED <<est, refresh, unclaimed, reportAt, posted, applied>>

\* A complete run's silence about a key removes it.
Reconcile(r) ==
  /\ At(r, "reconcile")
  /\ unclaimed' = unclaimed \intersect Seen(r)
  /\ req' = [req EXCEPT ![r].pc = "state"]
  /\ UNCHANGED <<est, refresh, reportAt, posted, applied>>

\* The row of the whole picture moves forward only; the recording is done.
WriteState(r) ==
  /\ At(r, "state")
  /\ reportAt' = IF reportAt < req[r].report THEN req[r].report ELSE reportAt
  /\ req' = [req EXCEPT ![r] = Idle]
  /\ UNCHANGED <<est, refresh, unclaimed, posted, applied>>

\* A statement throws or the process dies; CI's retry is a recording of its own.
Dies(r) ==
  /\ ~At(r, "idle")
  /\ req' = [req EXCEPT ![r] = Idle]
  /\ UNCHANGED <<est, refresh, unclaimed, reportAt, posted, applied>>

-----------------------------------------------------------------------------
Records(r) ==
  \/ \E n \in DOMAIN posted : Partition(r, n)
  \/ \E e \in Elements : WriteElement(r, e)
  \/ \E k \in Keys : UpsertUnclaimed(r, k)
  \/ ForgetClaimed(r) \/ Reconcile(r) \/ WriteState(r) \/ Dies(r)

Next ==
  \/ \E e \in Elements : ElementMoves(e)
  \/ \E report \in Reports : Plan(report)
  \/ \E r \in Requests : Records(r)

Spec == Init /\ [][Next]_vars

-----------------------------------------------------------------------------
(* Properties                                                              *)

ReqType ==
  [pc : {"idle"}]
  \union [pc : {"elements", "reconcile", "state"}, report : Times, todo : SUBSET Elements,
          unknown : SUBSET Keys, upserts : SUBSET Keys, alone : BOOLEAN]

\* Every variable has its type, and a recording writes what its report speaks of.
TypeOK ==
  /\ est \in [Elements -> {"absent", "held", "active"}]
  /\ refresh \in [Elements -> [at : Times \union {Never}, outcome : Outcomes \union {"none"},
                               drift : Times \union {Never}]]
  /\ unclaimed \subseteq Keys
  /\ reportAt \in Times \union {Never}
  /\ posted \in Seq(Reports) /\ Len(posted) <= MaxReports
  /\ req \in [Requests -> ReqType]
  /\ \A r \in Requests : ~At(r, "idle") =>
       /\ req[r].report \in DOMAIN posted
       /\ req[r].upserts \subseteq req[r].unknown /\ req[r].unknown \subseteq Seen(r)
       /\ \A e \in req[r].todo : ResultsOf(Report(r).results, e) # {}
  /\ applied \in [Elements -> SUBSET Times]

Finds(n, e, outcome) == outcome \in ResultsOf(posted[n].results, e)
Conclusive(n, e) == Finds(n, e, "drifted") \/ ResultsOf(posted[n].results, e) = {"clean"}

\* "Silence must not read as health": whatever arrives late, twice or in part, an
\* element reads clean only if the newest report written to it found every one of
\* its states clean, and it is marked as drifted exactly if the newest one that
\* settled the question found a drift in any of them.
ReadingIsTrue ==
  \A e \in Elements :
    LET settling == {n \in applied[e] : Conclusive(n, e)}
    IN /\ applied[e] # {} =>
            /\ refresh[e].at = Max(applied[e])
            /\ refresh[e].outcome = "clean" =>
                 ResultsOf(posted[refresh[e].at].results, e) = {"clean"}
       /\ refresh[e].drift =
            IF settling # {} /\ Finds(Max(settling), e, "drifted") THEN Max(settling) ELSE Never

\* "It may only move an element's refresh state forward in time": a late retry
\* changes nothing, on an element or on the row of the whole picture.
ReadingsMoveForward ==
  [][/\ \A e \in Elements :
          refresh'[e] # refresh[e] => refresh'[e].at > refresh[e].at
     /\ reportAt' >= reportAt]_vars

\* After a complete run that no other recording ran into, the observations are the
\* keys it saw and found unowned, whatever was registered or torn down meanwhile:
\* none of an earlier run is left, and none that is still nobody's is lost.
CompleteRunReconciles ==
  \A r \in Requests :
    (At(r, "state") /\ req[r].alone /\ Report(r).complete) =>
      /\ unclaimed = req[r].unknown
      /\ {k \in Seen(r) : ~Owned(k)} \subseteq unclaimed
=============================================================================
