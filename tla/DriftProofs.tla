----------------------------- MODULE DriftProofs -----------------------------
(***************************************************************************)
(* The properties of Drift, proved for any number of elements, state files,*)
(* concurrent recordings and reports.                                      *)
(***************************************************************************)
EXTENDS Drift, SequenceTheorems, TLAPS

Row == [at : Times \union {Never}, outcome : Outcomes \union {"none"},
        drift : Times \union {Never}]

Working ==
  [pc : {"elements", "reconcile", "state"}, report : Times, todo : SUBSET Elements,
   unknown : SUBSET Keys, upserts : SUBSET Keys, alone : BOOLEAN]

-----------------------------------------------------------------------------
(* The worst of a set of results                                           *)

LEMMA WorstExists ==
  ASSUME NEW S, S # {}, S \subseteq {"clean", "locked", "error", "drifted"}
  PROVE  \E o \in S : \A p \in S : Rank[p] <= Rank[o]
<1>1. /\ Rank["clean"] = 0 /\ Rank["locked"] = 1
      /\ Rank["error"] = 2 /\ Rank["drifted"] = 3
  BY DEF Rank
<1>2. \A p \in S : Rank[p] \in 0 .. 3
  BY <1>1
<1>3. CASE "drifted" \in S
  BY <1>1, <1>2, <1>3
<1>4. CASE "drifted" \notin S /\ "error" \in S
  BY <1>1, <1>2, <1>4
<1>5. CASE "drifted" \notin S /\ "error" \notin S /\ "locked" \in S
  BY <1>1, <1>2, <1>5
<1>6. CASE S = {"clean"}
  BY <1>1, <1>2, <1>6
<1> QED
  BY <1>3, <1>4, <1>5, <1>6

LEMMA AggregateIs ==
  ASSUME NEW results, NEW e, ResultsOf(results, e) # {}, ResultsOf(results, e) \subseteq Outcomes
  PROVE  LET S == ResultsOf(results, e)
             o == Aggregate(results, e)
         IN /\ o \in S
            /\ o = "clean" => S = {"clean"}
            /\ o = "drifted" <=> "drifted" \in S
<1> DEFINE S == ResultsOf(results, e)
           o == Aggregate(results, e)
<1>1. S \subseteq {"clean", "locked", "error", "drifted"}
  BY DriftAssumption
<1>2. o \in S /\ \A p \in S : Rank[p] <= Rank[o]
  BY <1>1, WorstExists DEF Aggregate
<1>3. /\ Rank["clean"] = 0 /\ Rank["locked"] = 1
      /\ Rank["error"] = 2 /\ Rank["drifted"] = 3
  BY DEF Rank
<1> HIDE DEF S, o
<1>4. o = "clean" => S = {"clean"}
  <2> SUFFICES ASSUME o = "clean" PROVE S = {"clean"}
    OBVIOUS
  <2>1. \A p \in S : p = "clean"
    BY <1>1, <1>2, <1>3
  <2> QED
    BY <1>2, <2>1
<1>5. "drifted" \in S => o = "drifted"
  BY <1>1, <1>2, <1>3
<1> QED
  BY <1>2, <1>4, <1>5 DEF S, o

-----------------------------------------------------------------------------
(* Types                                                                   *)

\* What TypeOK says of one recording.
Sound(r) ==
  ~At(r, "idle") =>
    /\ req[r].report \in DOMAIN posted
    /\ req[r].upserts \subseteq req[r].unknown /\ req[r].unknown \subseteq Seen(r)
    /\ \A e \in req[r].todo : ResultsOf(Report(r).results, e) # {}

LEMMA ReportTyped ==
  ASSUME TypeOK, NEW n \in DOMAIN posted
  PROVE  /\ n \in Times /\ posted[n] \in Reports
         /\ DOMAIN posted[n].results \subseteq Keys
         /\ \A k \in DOMAIN posted[n].results : posted[n].results[k] \in Outcomes
         /\ \A e \in Elements : ResultsOf(posted[n].results, e) \subseteq Outcomes
<1>1. posted \in Seq(Reports) /\ Len(posted) <= MaxReports
  BY DEF TypeOK
<1>2. posted[n] \in Reports /\ n \in Times
  BY <1>1, DriftAssumption DEF Times
<1>3. PICK K \in SUBSET Keys : posted[n].results \in [K -> Outcomes]
  BY <1>2 DEF Reports
<1> QED
  BY <1>2, <1>3 DEF ResultsOf

LEMMA ReqTyped ==
  ASSUME TypeOK, NEW r \in Requests, ~At(r, "idle")
  PROVE  req[r] \in Working /\ Sound(r)
<1>1. req[r] \in ReqType
  BY DEF TypeOK
<1>2. req[r] \in Working
  BY <1>1 DEF ReqType, Working, At
<1> QED
  BY <1>2 DEF TypeOK, Sound

LEMMA WorkingTyped == Working \subseteq ReqType /\ Idle \in ReqType
  BY DEF Working, ReqType, Idle

\* Being disturbed changes nothing but the history of being alone.
LEMMA DisturbedTyped ==
  ASSUME TypeOK, NEW r \in Requests
  PROVE  /\ Disturbed(r) \in ReqType
         /\ Disturbed(r).pc = req[r].pc
         /\ ~At(r, "idle") =>
              /\ Disturbed(r).report = req[r].report /\ Disturbed(r).todo = req[r].todo
              /\ Disturbed(r).unknown = req[r].unknown /\ Disturbed(r).upserts = req[r].upserts
              /\ ~Disturbed(r).alone
<1>1. CASE At(r, "idle")
  BY <1>1 DEF Disturbed, TypeOK
<1>2. CASE ~At(r, "idle")
  <2>1. req[r] \in Working
    BY <1>2, ReqTyped
  <2>2. Disturbed(r) = [req[r] EXCEPT !.alone = FALSE]
    BY <1>2 DEF Disturbed
  <2> QED
    BY <2>1, <2>2, WorkingTyped DEF Working
<1> QED
  BY <1>1, <1>2

LEMMA RefreshTyped ==
  ASSUME NEW row \in Row, NEW n \in Times, NEW outcome \in Outcomes
  PROVE  Written(row, n, outcome) \in Row
BY DEF Written, Row

\* A recording that moves on keeps its report and its shape.
LEMMA MovesTyped ==
  ASSUME TypeOK, NEW r \in Requests, ~At(r, "idle"),
         NEW work \in Working, req' = [req EXCEPT ![r] = work],
         work.report = req[r].report, work.unknown = req[r].unknown,
         work.upserts \subseteq req[r].upserts, work.todo \subseteq req[r].todo,
         posted' = posted
  PROVE  req' \in [Requests -> ReqType] /\ \A q \in Requests : Sound(q)'
<1>1. req' \in [Requests -> ReqType]
  BY WorkingTyped DEF TypeOK
<1>2. ASSUME NEW q \in Requests
      PROVE  Sound(q)'
  <2>1. Sound(q)
    BY ReqTyped DEF Sound
  <2>2. CASE q = r
    BY <2>1, <2>2 DEF Sound, TypeOK, Seen, Report
  <2>3. CASE q # r
    BY <2>1, <2>3 DEF Sound, TypeOK, Seen, Report, At
  <2> QED
    BY <2>2, <2>3
<1> QED
  BY <1>1, <1>2

LEMMA EndsTyped ==
  ASSUME TypeOK, NEW r \in Requests, req' = [req EXCEPT ![r] = Idle], posted' = posted
  PROVE  req' \in [Requests -> ReqType] /\ \A q \in Requests : Sound(q)'
<1>1. ASSUME NEW q \in Requests
      PROVE  Sound(q)'
  <2>1. Sound(q)
    BY ReqTyped DEF Sound
  <2> QED
    BY <2>1 DEF Sound, TypeOK, Seen, Report, At, Idle
<1> QED
  BY <1>1, WorkingTyped DEF TypeOK

\* The work each step of a recording leaves.
LEMMA StepTyped ==
  ASSUME TypeOK, NEW r \in Requests, ~At(r, "idle")
  PROVE  /\ \A e : [req[r] EXCEPT !.todo = req[r].todo \ {e}] \in Working
         /\ \A k : [req[r] EXCEPT !.upserts = req[r].upserts \ {k}] \in Working
         /\ \A pc \in {"reconcile", "state"} : [req[r] EXCEPT !.pc = pc] \in Working
BY ReqTyped DEF Working

LEMMA TypeStep == TypeOK /\ [Next]_vars => TypeOK'
<1> SUFFICES ASSUME TypeOK, [Next]_vars PROVE TypeOK'
  OBVIOUS
<1>1. CASE UNCHANGED vars
  BY <1>1 DEF TypeOK, vars, At, Seen, Report
<1>2. ASSUME req' \in [Requests -> ReqType], \A q \in Requests : Sound(q)',
             UNCHANGED <<est, posted>>, unclaimed' \subseteq Keys,
             reportAt' \in Times \union {Never},
             refresh' \in [Elements -> Row], applied' \in [Elements -> SUBSET Times]
      PROVE  TypeOK'
  BY <1>2 DEF TypeOK, Sound, Row
<1>3. /\ unclaimed \subseteq Keys /\ reportAt \in Times \union {Never}
      /\ refresh \in [Elements -> Row] /\ applied \in [Elements -> SUBSET Times]
  BY DEF TypeOK, Row
<1>4. ASSUME NEW e \in Elements, ElementMoves(e)
      PROVE  TypeOK'
  <2>1. req' \in [Requests -> ReqType]
    BY <1>4 DEF ElementMoves, TypeOK
  <2>2. ASSUME NEW q \in Requests
        PROVE  Sound(q)'
    BY <1>4, ReqTyped DEF ElementMoves, Sound, At, Seen, Report
  <2>3. est' \in [Elements -> {"absent", "held", "active"}]
    BY <1>4 DEF ElementMoves, TypeOK
  <2> QED
    BY <1>4, <2>1, <2>2, <2>3 DEF ElementMoves, TypeOK, Sound
<1>5. ASSUME NEW report \in Reports, Plan(report)
      PROVE  TypeOK'
  <2>1. /\ posted' \in Seq(Reports) /\ Len(posted') <= MaxReports
        /\ DOMAIN posted \subseteq DOMAIN posted'
        /\ \A n \in DOMAIN posted : posted'[n] = posted[n]
    BY <1>5, DriftAssumption DEF Plan, TypeOK
  <2>2. ASSUME NEW q \in Requests
        PROVE  Sound(q)'
    BY <1>5, <2>1, ReqTyped DEF Plan, Sound, At, Seen, Report
  <2> QED
    BY <1>5, <2>1, <2>2 DEF Plan, TypeOK, Sound
<1>6. ASSUME NEW r \in Requests, NEW n \in DOMAIN posted, Partition(r, n)
      PROVE  TypeOK'
  <2> DEFINE results == posted[n].results
             work == [pc |-> "elements", report |-> n, todo |-> Reported(results),
                      unknown |-> Unknown(results), upserts |-> Unknown(results),
                      alone |-> \A p \in Requests \ {r} : At(p, "idle")]
  <2>1. work \in Working
    BY ReportTyped DEF Working, Reported, Unknown
  <2>2. req' = [q \in Requests |-> IF q # r THEN Disturbed(q) ELSE work]
    BY <1>6 DEF Partition
  <2>3. req' \in [Requests -> ReqType]
    BY <2>1, <2>2, DisturbedTyped, WorkingTyped
  <2>4. \A e \in Reported(results) : ResultsOf(results, e) # {}
    BY DEF Reported, ResultsOf
  <2>5. Sound(r)'
    BY <1>6, <2>2, <2>4 DEF Partition, Sound, Seen, Report, Unknown
  <2>6. ASSUME NEW q \in Requests \ {r}
        PROVE  Sound(q)'
    BY <1>6, <2>2, DisturbedTyped, ReqTyped DEF Partition, Sound, At, Seen, Report
  <2> QED
    BY <1>2, <1>3, <1>6, <2>3, <2>5, <2>6 DEF Partition
<1>7. ASSUME NEW r \in Requests, NEW e \in Elements, WriteElement(r, e)
      PROVE  TypeOK'
  <2>1. ~At(r, "idle") /\ e \in req[r].todo
    BY <1>7 DEF WriteElement, At
  <2>2. req' \in [Requests -> ReqType] /\ \A q \in Requests : Sound(q)'
    <3> DEFINE work == [req[r] EXCEPT !.todo = req[r].todo \ {e}]
    <3>1. work \in Working /\ req' = [req EXCEPT ![r] = work]
      BY <1>7, <2>1, StepTyped DEF WriteElement
    <3>2. /\ work.report = req[r].report /\ work.unknown = req[r].unknown
          /\ work.upserts \subseteq req[r].upserts /\ work.todo \subseteq req[r].todo
      BY <2>1, ReqTyped DEF Working
    <3> HIDE DEF work
    <3> QED
      BY <1>7, <2>1, <3>1, <3>2, MovesTyped DEF WriteElement
  <2>3. req[r].report \in Times /\ Aggregate(Report(r).results, e) \in Outcomes
    <3>1. req[r].report \in DOMAIN posted /\ ResultsOf(Report(r).results, e) # {}
      BY <2>1, ReqTyped DEF Sound
    <3> QED
      BY <3>1, ReportTyped, AggregateIs DEF Report
  <2>4. Written(refresh[e], req[r].report, Aggregate(Report(r).results, e)) \in Row
    BY <1>3, <2>3, RefreshTyped
  <2>5. refresh' \in [Elements -> Row] /\ applied' \in [Elements -> SUBSET Times]
    BY <1>3, <1>7, <2>3, <2>4 DEF WriteElement
  <2> QED
    BY <1>2, <1>3, <1>7, <2>2, <2>5 DEF WriteElement
<1>8. ASSUME NEW r \in Requests, NEW k \in Keys, UpsertUnclaimed(r, k)
      PROVE  TypeOK'
  <2>1. ~At(r, "idle")
    BY <1>8 DEF UpsertUnclaimed, At
  <2> DEFINE work == [req[r] EXCEPT !.upserts = req[r].upserts \ {k}]
  <2>2. work \in Working /\ req' = [req EXCEPT ![r] = work]
    BY <1>8, <2>1, StepTyped DEF UpsertUnclaimed
  <2>3. /\ work.report = req[r].report /\ work.unknown = req[r].unknown
        /\ work.upserts \subseteq req[r].upserts /\ work.todo \subseteq req[r].todo
    BY <2>1, ReqTyped DEF Working
  <2> HIDE DEF work
  <2>4. req' \in [Requests -> ReqType] /\ \A q \in Requests : Sound(q)'
    BY <1>8, <2>1, <2>2, <2>3, MovesTyped DEF UpsertUnclaimed
  <2> QED
    BY <1>2, <1>3, <1>8, <2>4 DEF UpsertUnclaimed
<1>9. ASSUME NEW r \in Requests, ForgetClaimed(r) \/ Reconcile(r)
      PROVE  TypeOK'
  <2>1. ~At(r, "idle") /\ posted' = posted
    BY <1>9 DEF ForgetClaimed, Reconcile, At
  <2>2. PICK pc \in {"reconcile", "state"} : req' = [req EXCEPT ![r].pc = pc]
    BY <1>9 DEF ForgetClaimed, Reconcile
  <2> DEFINE work == [req[r] EXCEPT !.pc = pc]
  <2>3. work \in Working /\ req' = [req EXCEPT ![r] = work]
    BY <2>1, <2>2, StepTyped
  <2>4. /\ work.report = req[r].report /\ work.unknown = req[r].unknown
        /\ work.upserts \subseteq req[r].upserts /\ work.todo \subseteq req[r].todo
    BY <2>1, ReqTyped DEF Working
  <2> HIDE DEF work
  <2>5. req' \in [Requests -> ReqType] /\ \A q \in Requests : Sound(q)'
    BY <2>1, <2>3, <2>4, MovesTyped
  <2> QED
    BY <1>2, <1>3, <1>9, <2>5 DEF ForgetClaimed, Reconcile
<1>10. ASSUME NEW r \in Requests, WriteState(r) \/ Dies(r)
       PROVE  TypeOK'
  <2>1. req' \in [Requests -> ReqType] /\ \A q \in Requests : Sound(q)'
    BY <1>10, EndsTyped DEF WriteState, Dies
  <2>2. reportAt' \in Times \union {Never}
    BY <1>3, <1>10, ReqTyped DEF WriteState, Dies, At, Working
  <2> QED
    BY <1>2, <1>3, <1>10, <2>1, <2>2 DEF WriteState, Dies
<1> QED
  BY <1>1, <1>4, <1>5, <1>6, <1>7, <1>8, <1>9, <1>10 DEF Next, Records

\* Every element, observation, report and recording has its type.
THEOREM TypeCorrect == Spec => []TypeOK
<1>1. Init => TypeOK
  BY WorkingTyped, DriftAssumption DEF Init, TypeOK, At, Idle, Blank
<1> QED
  BY <1>1, TypeStep, PTL DEF Spec

-----------------------------------------------------------------------------
(* Late and repeated reports                                               *)

ReadingMoves ==
  /\ \A e \in Elements : refresh'[e] # refresh[e] => refresh'[e].at > refresh[e].at
  /\ reportAt' >= reportAt

\* What one step does to one element's columns.
LEMMA ElementStep ==
  ASSUME TypeOK, [Next]_vars, NEW e \in Elements
  PROVE  \/ refresh'[e] = refresh[e] /\ applied'[e] = applied[e]
         \/ \E r \in Requests :
              LET n == req[r].report
                  o == Aggregate(posted[n].results, e)
              IN /\ n \in DOMAIN posted /\ ResultsOf(posted[n].results, e) # {}
                 /\ est[e] = "active" /\ refresh[e].at < n
                 /\ refresh'[e] = Written(refresh[e], n, o)
                 /\ applied'[e] = applied[e] \union {n}
                 /\ posted' = posted
<1>1. CASE refresh' = refresh /\ applied' = applied
  BY <1>1
<1>2. ASSUME NEW r \in Requests, NEW x \in Elements, WriteElement(r, x)
      PROVE  \/ refresh'[e] = refresh[e] /\ applied'[e] = applied[e]
             \/ LET n == req[r].report
                    o == Aggregate(posted[n].results, e)
                IN /\ n \in DOMAIN posted /\ ResultsOf(posted[n].results, e) # {}
                   /\ est[e] = "active" /\ refresh[e].at < n
                   /\ refresh'[e] = Written(refresh[e], n, o)
                   /\ applied'[e] = applied[e] \union {n}
                   /\ posted' = posted
  <2>1. Sound(r) /\ ~At(r, "idle")
    BY <1>2, ReqTyped DEF WriteElement, At
  <2>2. CASE x = e /\ MayAnnotate(r, e)
    BY <1>2, <2>1, <2>2 DEF WriteElement, MayAnnotate, Sound, Report, TypeOK
  <2>3. CASE x # e \/ ~MayAnnotate(r, x)
    BY <1>2, <2>3 DEF WriteElement, TypeOK
  <2> QED
    BY <2>2, <2>3
<1> QED
  BY <1>1, <1>2
  DEF Next, Records, vars, ElementMoves, Plan, Partition, UpsertUnclaimed, ForgetClaimed,
      Reconcile, WriteState, Dies

LEMMA ForwardStep == TypeOK /\ [Next]_vars => ReadingMoves
<1> SUFFICES ASSUME TypeOK, [Next]_vars PROVE ReadingMoves
  OBVIOUS
<1>1. ASSUME NEW e \in Elements, refresh'[e] # refresh[e]
      PROVE  refresh'[e].at > refresh[e].at
  <2>1. PICK r \in Requests :
          /\ req[r].report \in DOMAIN posted
          /\ est[e] = "active" /\ refresh[e].at < req[r].report
          /\ refresh'[e] = Written(refresh[e], req[r].report,
                              Aggregate(posted[req[r].report].results, e))
    BY <1>1, ElementStep
  <2>2. refresh'[e].at = req[r].report
    BY <2>1 DEF Written
  <2>3. refresh[e].at \in Nat /\ req[r].report \in Nat
    BY <2>1, ReportTyped, DriftAssumption DEF TypeOK, Times, Never
  <2> QED
    BY <2>1, <2>2, <2>3
<1>2. reportAt' >= reportAt
  <2>1. reportAt \in Nat
    BY DriftAssumption DEF TypeOK, Times, Never
  <2>2. ASSUME NEW r \in Requests, WriteState(r)
        PROVE  reportAt' >= reportAt
    <3>1. req[r].report \in Nat
      BY <2>2, ReqTyped, DriftAssumption DEF WriteState, At, Working, Times
    <3> QED
      BY <2>1, <2>2, <3>1 DEF WriteState
  <2>3. CASE UNCHANGED reportAt
    BY <2>1, <2>3
  <2> QED
    BY <2>2, <2>3
    DEF Next, Records, vars, ElementMoves, Plan, Partition, WriteElement, UpsertUnclaimed,
        ForgetClaimed, Reconcile, Dies
<1> QED
  BY <1>1, <1>2 DEF ReadingMoves

\* A late or repeated report never moves a reading back, on an element or on the
\* row of the whole picture.
THEOREM NoReadingGoesBack == Spec => ReadingsMoveForward
<1>1. TypeOK /\ [Next]_vars => [ReadingMoves]_vars
  BY ForwardStep
<1> QED
  BY <1>1, TypeCorrect, PTL DEF Spec, ReadingsMoveForward, ReadingMoves

-----------------------------------------------------------------------------
(* A reading is true                                                       *)

Settling(e) == {n \in applied[e] : Conclusive(n, e)}
Mark(e) == IF Settling(e) # {} /\ Finds(Max(Settling(e)), e, "drifted")
           THEN Max(Settling(e)) ELSE Never

\* One element's part of ReadingIsTrue, with the newest report written to it named.
TrueOf(e) ==
  /\ applied[e] \subseteq DOMAIN posted
  /\ \A n \in applied[e] : n <= refresh[e].at
  /\ applied[e] # {} =>
       /\ refresh[e].at \in applied[e]
       /\ refresh[e].outcome = "clean" =>
            ResultsOf(posted[refresh[e].at].results, e) = {"clean"}
  /\ Settling(e) # {} => Max(Settling(e)) \in Settling(e)
  /\ refresh[e].drift = Mark(e)

LEMMA MaxIs ==
  ASSUME NEW S \in SUBSET Nat, NEW n \in S, \A m \in S : m <= n
  PROVE  Max(S) = n
<1>1. \A y \in S : n >= y
  OBVIOUS
<1>2. Max(S) \in S /\ \A y \in S : Max(S) >= y
  BY <1>1 DEF Max
<1>3. /\ n \in Nat /\ Max(S) \in Nat
      /\ Max(S) >= n /\ n >= Max(S)
  BY <1>1, <1>2
<1> QED
  BY <1>3

LEMMA TrueStep ==
  ASSUME TypeOK, [Next]_vars, NEW e \in Elements, TrueOf(e)
  PROVE  TrueOf(e)'
<1>1. applied[e] \subseteq DOMAIN posted
  BY DEF TrueOf
<1>2. CASE refresh'[e] = refresh[e] /\ applied'[e] = applied[e]
  <2>1. DOMAIN posted \subseteq DOMAIN posted' /\ \A n \in DOMAIN posted : posted'[n] = posted[n]
    <3>1. CASE posted' = posted
      BY <3>1
    <3>2. ASSUME NEW report, Plan(report)
          PROVE  /\ DOMAIN posted \subseteq DOMAIN posted'
                 /\ \A n \in DOMAIN posted : posted'[n] = posted[n]
      BY <3>2 DEF Plan, TypeOK
    <3> QED
      BY <3>1, <3>2
      DEF Next, Records, vars, ElementMoves, Partition, WriteElement, UpsertUnclaimed,
          ForgetClaimed, Reconcile, WriteState, Dies
  <2>2. \A n \in applied[e] : posted'[n] = posted[n]
    BY <1>1, <2>1
  <2>3. \A n \in applied[e] : Conclusive(n, e)' <=> Conclusive(n, e)
    BY <2>2 DEF Conclusive, Finds
  <2>4. Settling(e)' = Settling(e)
    BY <1>2, <2>3 DEF Settling
  <2>5. Max(Settling(e))' = Max(Settling(e))
    BY <2>4 DEF Max
  <2>6. Mark(e)' = Mark(e)
    <3>1. CASE Settling(e) = {}
      BY <2>4, <3>1 DEF Mark
    <3>2. CASE Settling(e) # {}
      <4>1. Max(Settling(e)) \in applied[e]
        BY <3>2 DEF TrueOf, Settling
      <4>2. Finds(Max(Settling(e)), e, "drifted")' <=> Finds(Max(Settling(e)), e, "drifted")
        BY <2>2, <2>5, <4>1 DEF Finds
      <4> QED
        BY <2>4, <2>5, <4>2 DEF Mark
    <3> QED
      BY <3>1, <3>2
  <2>7. applied[e] # {} => ResultsOf(posted[refresh[e].at].results, e)' =
                             ResultsOf(posted[refresh[e].at].results, e)
    BY <1>2, <2>2 DEF TrueOf
  <2> QED
    BY <1>2, <2>1, <2>4, <2>5, <2>6, <2>7 DEF TrueOf
<1>3. ASSUME NEW r \in Requests,
             LET n == req[r].report
                 o == Aggregate(posted[n].results, e)
             IN /\ n \in DOMAIN posted /\ ResultsOf(posted[n].results, e) # {}
                /\ est[e] = "active" /\ refresh[e].at < n
                /\ refresh'[e] = Written(refresh[e], n, o)
                /\ applied'[e] = applied[e] \union {n}
                /\ posted' = posted
      PROVE  TrueOf(e)'
  <2> DEFINE n == req[r].report
             o == Aggregate(posted[n].results, e)
             S == ResultsOf(posted[n].results, e)
  <2>1. /\ o = "clean" => S = {"clean"}
        /\ o = "drifted" <=> "drifted" \in S
    BY <1>3, ReportTyped, AggregateIs
  <2>2. /\ refresh'[e].at = n /\ refresh'[e].outcome = o
        /\ refresh'[e].drift = CASE o = "drifted" -> n
                                 [] o = "clean"   -> Never
                                 [] OTHER         -> refresh[e].drift
    BY <1>3 DEF Written
  <2>3. n \in Nat /\ applied[e] \in SUBSET Nat /\ refresh[e].at \in Nat
    BY <1>3, ReportTyped, DriftAssumption DEF TypeOK, Times, Never
  <2>4. \A m \in applied[e] : m < n
    BY <1>3, <2>3 DEF TrueOf
  <2>5. applied'[e] = applied[e] \union {n} /\ posted' = posted
    BY <1>3
  <2>6. \A m : (Conclusive(m, e)' <=> Conclusive(m, e)) /\ (Finds(m, e, "drifted")' <=> Finds(m, e, "drifted"))
    BY <2>5 DEF Conclusive, Finds
  <2>7. Conclusive(n, e) <=> o \in {"drifted", "clean"}
    <3>1. S = {"clean"} => o = "clean"
      BY <1>3, ReportTyped, AggregateIs
    <3> QED
      BY <2>1, <3>1 DEF Conclusive, Finds
  <2>8. Finds(n, e, "drifted") <=> o = "drifted"
    BY <2>1 DEF Finds
  <2>9. n \in DOMAIN posted
    BY <1>3
  <2> HIDE DEF n, o, S
  <2>10. /\ refresh'[e].drift = Mark(e)'
         /\ Settling(e)' # {} => Max(Settling(e))' \in Settling(e)'
    <3>1. CASE Conclusive(n, e)
      <4>1. Settling(e)' \in SUBSET Nat /\ n \in Settling(e)' /\ \A m \in Settling(e)' : m <= n
        BY <2>3, <2>4, <2>5, <2>6, <3>1 DEF Settling
      <4>2. Max(Settling(e))' = n
        BY <2>3, <4>1, MaxIs DEF Max
      <4>3. Mark(e)' = IF Finds(n, e, "drifted") THEN n ELSE Never
        BY <2>6, <4>1, <4>2 DEF Mark
      <4> QED
        BY <2>2, <2>7, <2>8, <3>1, <4>1, <4>2, <4>3
    <3>2. CASE ~Conclusive(n, e)
      <4>1. Settling(e)' = Settling(e)
        BY <2>5, <2>6, <3>2 DEF Settling
      <4>2. refresh'[e].drift = refresh[e].drift
        BY <2>2, <2>7, <3>2
      <4>3. Mark(e)' = Mark(e) /\ Max(Settling(e))' = Max(Settling(e))
        BY <2>6, <4>1 DEF Mark, Max
      <4> QED
        BY <4>1, <4>2, <4>3 DEF TrueOf
    <3> QED
      BY <3>1, <3>2
  <2>11. applied'[e] \subseteq DOMAIN posted' /\ \A m \in applied'[e] : m <= refresh'[e].at
    BY <1>1, <2>2, <2>3, <2>4, <2>5, <2>9
  <2>12. refresh'[e].at \in applied'[e]
    BY <2>2, <2>5
  <2>13. refresh'[e].outcome = "clean" => ResultsOf(posted[refresh[e].at].results, e)' = {"clean"}
    BY <2>1, <2>2, <2>5 DEF S, ResultsOf
  <2> QED
    BY <2>10, <2>11, <2>12, <2>13 DEF TrueOf
<1> QED
  BY <1>2, <1>3, ElementStep

\* Whatever arrives late, twice or in part: an element that reads clean was found
\* clean, and one is marked as drifted exactly if the newest conclusive report says so.
THEOREM SilenceIsNotHealth == Spec => []ReadingIsTrue
<1> DEFINE TruthInv == \A e \in Elements : TrueOf(e)
<1>1. Init => TruthInv
  BY DEF Init, TrueOf, Settling, Mark, Blank
<1>2. TypeOK /\ TruthInv /\ [Next]_vars => TruthInv'
  BY TrueStep
<1>3. TypeOK /\ TruthInv => ReadingIsTrue
  <2> SUFFICES ASSUME TypeOK, NEW e \in Elements, TrueOf(e), applied[e] # {}
               PROVE  refresh[e].at = Max(applied[e])
    BY DEF ReadingIsTrue, TrueOf, Settling, Mark
  <2>1. applied[e] \in SUBSET Nat
    BY DriftAssumption DEF TypeOK, Times
  <2> QED
    BY <2>1, MaxIs DEF TrueOf
<1> HIDE DEF TruthInv
<1> QED
  BY <1>1, <1>2, <1>3, TypeCorrect, PTL DEF Spec

-----------------------------------------------------------------------------
(* A complete run reconciles                                               *)

\* A recording that has been alone: the others are idle, no key has lost its owner
\* since the partition, and the observations follow its statements.
AloneOf(r) ==
  ~At(r, "idle") /\ req[r].alone =>
    /\ \A q \in Requests \ {r} : At(q, "idle")
    /\ {k \in Seen(r) : ~Owned(k)} \subseteq req[r].unknown
    /\ At(r, "elements") => req[r].unknown \ req[r].upserts \subseteq unclaimed
    /\ At(r, "reconcile") => unclaimed \intersect Seen(r) = req[r].unknown
    /\ At(r, "state") /\ Report(r).complete => unclaimed = req[r].unknown

LEMMA AloneStep ==
  ASSUME TypeOK, [Next]_vars, \A r \in Requests : AloneOf(r), NEW r \in Requests
  PROVE  AloneOf(r)'
<1> SUFFICES ASSUME ~At(r, "idle")', req'[r].alone
             PROVE  AloneOf(r)'
  BY DEF AloneOf
<1>1. ASSUME NEW e \in Elements, ElementMoves(e)
      PROVE  AloneOf(r)'
  <2>1. UNCHANGED <<req, posted, unclaimed>>
    BY <1>1 DEF ElementMoves
  <2>2. \A k \in Keys : Owned(k) => Owned(k)'
    BY <1>1 DEF ElementMoves, ElementEdges, Owned, TypeOK
  <2>3. ~At(r, "idle") /\ req[r].alone
    BY <2>1 DEF At
  <2>4. Seen(r)' = Seen(r) /\ Seen(r) \subseteq Keys
    <3>1. req[r].report \in DOMAIN posted /\ posted \in Seq(Reports)
      BY <2>3, ReqTyped DEF Sound, TypeOK
    <3>2. posted[req[r].report] \in Reports
      BY <3>1
    <3> QED
      BY <2>1, <3>2 DEF Seen, Report, Reports
  <2> QED
    BY <2>1, <2>2, <2>3, <2>4 DEF AloneOf, At, Report
<1>2. ASSUME NEW q \in Requests, NEW n \in DOMAIN posted, Partition(q, n), q # r
      PROVE  FALSE
  <2>1. req'[r] = Disturbed(r)
    BY <1>2 DEF Partition
  <2> QED
    BY <2>1, DisturbedTyped DEF At
<1>3. ASSUME NEW n \in DOMAIN posted, Partition(r, n)
      PROVE  AloneOf(r)'
  <2>1. /\ req'[r] = [pc |-> "elements", report |-> n, todo |-> Reported(posted[n].results),
                      unknown |-> Unknown(posted[n].results), upserts |-> Unknown(posted[n].results),
                      alone |-> \A p \in Requests \ {r} : At(p, "idle")]
        /\ UNCHANGED <<est, posted, unclaimed>>
        /\ \A q \in Requests \ {r} : req'[q] = Disturbed(q)
    BY <1>3 DEF Partition
  <2>2. \A q \in Requests \ {r} : At(q, "idle")'
    BY <2>1, DisturbedTyped DEF At
  <2>3. /\ req'[r].pc = "elements" /\ req'[r].report = n
        /\ req'[r].unknown = Unknown(posted[n].results)
        /\ req'[r].upserts = Unknown(posted[n].results)
    BY <2>1
  <2> QED
    BY <2>1, <2>2, <2>3 DEF AloneOf, At, Unknown, Seen, Report, Owned
<1> DEFINE Mine == /\ ~At(r, "idle") /\ req[r].alone
                   /\ req[r] \in Working /\ Sound(r) /\ AloneOf(r)
                   /\ \A q \in Requests \ {r} : At(q, "idle") /\ req'[q] = req[q]
                   /\ UNCHANGED <<est, posted>>
<1>4. ASSUME NEW q \in Requests, ~At(q, "idle"), req' = [req EXCEPT ![q] = req'[q]],
             UNCHANGED <<est, posted>>, req'[q].pc = "idle" \/ req'[q].alone = req[q].alone
      PROVE  q = r /\ Mine
  <2>1. CASE q = r
    <3>1. ~At(r, "idle") /\ req[r].alone
      BY <1>4, <2>1 DEF At
    <3> QED
      BY <1>4, <2>1, <3>1, ReqTyped DEF AloneOf, TypeOK
  <2>2. CASE q # r
    <3>1. req'[r] = req[r]
      BY <1>4, <2>2 DEF TypeOK
    <3> QED
      BY <1>4, <2>2, <3>1 DEF AloneOf, At
  <2> QED
    BY <2>1, <2>2
<1> HIDE DEF Mine
<1>5. ASSUME NEW report, Plan(report)
      PROVE  AloneOf(r)'
  <2>1. /\ UNCHANGED <<est, req, unclaimed>> /\ \A n \in DOMAIN posted : posted'[n] = posted[n]
    BY <1>5 DEF Plan, TypeOK
  <2>2. ~At(r, "idle") /\ req[r].alone
    BY <2>1 DEF At
  <2>3. req[r].report \in DOMAIN posted
    BY <2>2, ReqTyped DEF Sound
  <2> QED
    BY <2>1, <2>2, <2>3 DEF AloneOf, At, Seen, Report, Owned
<1>6. ASSUME NEW q \in Requests, NEW e \in Elements, WriteElement(q, e)
      PROVE  AloneOf(r)'
  <2>1. ~At(q, "idle") /\ req' = [req EXCEPT ![q] = [req[q] EXCEPT !.todo = req[q].todo \ {e}]]
    BY <1>6 DEF WriteElement, At
  <2>2. /\ req'[q].pc = req[q].pc /\ req'[q].alone = req[q].alone
        /\ req'[q].report = req[q].report /\ req'[q].unknown = req[q].unknown
        /\ req'[q].upserts = req[q].upserts /\ req' = [req EXCEPT ![q] = req'[q]]
    BY <2>1, ReqTyped DEF Working, TypeOK
  <2>3. q = r /\ Mine
    BY <1>4, <1>6, <2>1, <2>2 DEF WriteElement
  <2> QED
    BY <1>6, <2>2, <2>3 DEF Mine, WriteElement, AloneOf, At, Seen, Report, Owned
<1>7. ASSUME NEW q \in Requests, NEW k \in Keys, UpsertUnclaimed(q, k)
      PROVE  AloneOf(r)'
  <2>1. ~At(q, "idle") /\ req' = [req EXCEPT ![q] = [req[q] EXCEPT !.upserts = req[q].upserts \ {k}]]
    BY <1>7 DEF UpsertUnclaimed, At
  <2>2. /\ req'[q].pc = req[q].pc /\ req'[q].alone = req[q].alone
        /\ req'[q].report = req[q].report /\ req'[q].unknown = req[q].unknown
        /\ req'[q].upserts = req[q].upserts \ {k} /\ req' = [req EXCEPT ![q] = req'[q]]
    BY <2>1, ReqTyped DEF Working, TypeOK
  <2>3. q = r /\ Mine
    BY <1>4, <1>7, <2>1, <2>2 DEF UpsertUnclaimed
  <2> QED
    BY <1>7, <2>2, <2>3 DEF Mine, UpsertUnclaimed, AloneOf, At, Seen, Report, Owned
<1>8. ASSUME NEW q \in Requests, ForgetClaimed(q) \/ Reconcile(q)
      PROVE  AloneOf(r)'
  <2>1. ~At(q, "idle") /\ UNCHANGED <<est, posted>>
    BY <1>8 DEF ForgetClaimed, Reconcile, At
  <2>2. PICK pc \in {"reconcile", "state"} :
          /\ req' = [req EXCEPT ![q] = [req[q] EXCEPT !.pc = pc]]
          /\ Reconcile(q) => pc = "state"
          /\ ForgetClaimed(q) => (pc = "state" => ~Report(q).complete)
    BY <1>8 DEF ForgetClaimed, Reconcile, At
  <2>3. /\ req'[q].pc = pc /\ req'[q].alone = req[q].alone
        /\ req'[q].report = req[q].report /\ req'[q].unknown = req[q].unknown
        /\ req' = [req EXCEPT ![q] = req'[q]]
    BY <2>1, <2>2, ReqTyped DEF Working, TypeOK
  <2>4. q = r /\ Mine
    BY <1>4, <2>1, <2>3
  <2>5. CASE ForgetClaimed(r)
    <3>1. /\ At(r, "elements") /\ req[r].upserts = {}
          /\ unclaimed' = unclaimed \ (Seen(r) \ req[r].unknown)
      BY <2>5 DEF ForgetClaimed
    <3>2. req[r].unknown \subseteq unclaimed /\ req[r].unknown \subseteq Seen(r)
      BY <2>4, <3>1 DEF Mine, AloneOf, Sound
    <3>3. unclaimed' \intersect Seen(r) = req[r].unknown
      BY <3>1, <3>2
    <3> QED
      BY <2>2, <2>3, <2>4, <2>5, <3>3 DEF Mine, AloneOf, At, Seen, Report, Owned
  <2>6. CASE Reconcile(r)
    <3>1. At(r, "reconcile") /\ unclaimed' = unclaimed \intersect Seen(r)
      BY <2>6 DEF Reconcile
    <3>2. unclaimed' = req[r].unknown
      BY <2>4, <3>1 DEF Mine, AloneOf
    <3> QED
      BY <2>2, <2>3, <2>4, <2>6, <3>2 DEF Mine, AloneOf, At, Seen, Report, Owned
  <2> QED
    BY <1>8, <2>4, <2>5, <2>6
<1>9. ASSUME NEW q \in Requests, WriteState(q) \/ Dies(q)
      PROVE  FALSE
  <2>1. /\ ~At(q, "idle") /\ req' = [req EXCEPT ![q] = Idle] /\ UNCHANGED <<est, posted>>
    BY <1>9 DEF WriteState, Dies, At
  <2>2. req'[q].pc = "idle" /\ req' = [req EXCEPT ![q] = req'[q]]
    BY <2>1 DEF TypeOK, Idle
  <2>3. q = r
    BY <1>4, <2>1, <2>2
  <2> QED
    BY <2>2, <2>3 DEF At
<1>10. CASE UNCHANGED vars
  BY <1>10 DEF vars, AloneOf, At, Seen, Report, Owned
<1> QED
  BY <1>1, <1>2, <1>3, <1>5, <1>6, <1>7, <1>8, <1>9, <1>10 DEF Next, Records

\* After a complete run that no other recording ran into, the observations are the
\* keys it saw and found unowned, whatever was registered or torn down meanwhile.
THEOREM CompleteRunsReconcile == Spec => []CompleteRunReconciles
<1> DEFINE AloneInv == \A r \in Requests : AloneOf(r)
<1>1. Init => AloneInv
  BY DEF Init, AloneOf, At, Idle
<1>2. TypeOK /\ AloneInv /\ [Next]_vars => AloneInv'
  BY AloneStep
<1>3. AloneInv => CompleteRunReconciles
  BY DEF AloneOf, CompleteRunReconciles, At
<1> HIDE DEF AloneInv
<1> QED
  BY <1>1, <1>2, <1>3, TypeCorrect, PTL DEF Spec
=============================================================================
