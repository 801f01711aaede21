------------------------- MODULE SecondFactorProofs -------------------------
(***************************************************************************)
(* The safety properties of SecondFactor, proved for every number of       *)
(* requests, keys, secrets, steps and issues: no code is accepted twice, a *)
(* confirmed app is replaced only by an offer that cost a second factor,   *)
(* and the guesses of concurrent requests are bounded.                     *)
(***************************************************************************)
EXTENDS SecondFactor, FiniteSetTheorems, TLAPS

-----------------------------------------------------------------------------
(* Types                                                                   *)

\* A request claims a code only by its shape, and promotes the secret whose code
\* it was shown.
GoodReq ==
  {W \in ReqType :
     /\ W.pc = "claim" => W.proof.kind \in {"app", "recovery"}
     /\ W.pc = "promote" => W.proof.kind = "app" /\ W.proof.secret = W.pending}

LEMMA LimitsAreNumbers ==
  /\ MaxSecrets \in Nat /\ MaxSteps \in Nat /\ MaxIssues \in Nat
  /\ MaxFailedAttempts \in Nat \ {0}
  BY SecondFactorAssumption

LEMMA ProofFields ==
  ASSUME NEW p \in Proofs
  PROVE  /\ p.kind \in {"app", "recovery", "wrong"}
         /\ p.kind = "app" => p.secret \in Secrets /\ p.step \in Steps
         /\ p.kind = "recovery" => p.id \in 1 .. MaxIssues
  BY DEF Proofs, WrongCode

LEMMA ReqFields ==
  ASSUME NEW W \in GoodReq
  PROVE  /\ W.pc = "charge" => W.purpose \in Purposes /\ W.proof \in Proofs /\ W.secret \in Secrets
         /\ W.pc = "claim" => /\ W.purpose \in Purposes /\ W.proof \in Proofs
                              /\ W.proof.kind \in {"app", "recovery"}
         /\ W.pc = "clear" => W.purpose \in Purposes
         /\ W.pc = "offer" => W.proved \in BOOLEAN
         /\ W.pc = "confirm" => W.pending \in Secrets /\ W.proof \in Proofs
         /\ W.pc = "promote" => /\ W.pending \in Secrets /\ W.proof \in Proofs
                                /\ W.proof.kind = "app" /\ W.proof.secret = W.pending
         /\ W.pc \in {"first", "last", "remove", "store"} => W.key \in Keys
  BY DEF GoodReq, ReqType

LEMMA GoodReqs ==
  /\ Idle \in GoodReq
  /\ \A u \in Purposes, p \in Proofs, s \in Secrets, l \in Locks :
       [pc |-> "charge", purpose |-> u, proof |-> p, secret |-> s, lock |-> l] \in GoodReq
  /\ \A p \in Proofs : [pc |-> "refuse", proof |-> p] \in GoodReq
  /\ \A u \in Purposes, p \in Proofs :
       p.kind \in {"app", "recovery"} => [pc |-> "claim", purpose |-> u, proof |-> p] \in GoodReq
  /\ \A u \in Purposes : [pc |-> "clear", purpose |-> u] \in GoodReq
  /\ \A b \in BOOLEAN : [pc |-> "offer", proved |-> b] \in GoodReq
  /\ \A s \in Secrets, p \in Proofs, l \in Locks :
       [pc |-> "confirm", pending |-> s, proof |-> p, lock |-> l] \in GoodReq
  /\ \A s \in Secrets : [pc |-> "expire", pending |-> s] \in GoodReq
  /\ \A s \in Secrets, p \in Proofs :
       p.kind = "app" /\ p.secret = s => [pc |-> "promote", pending |-> s, proof |-> p] \in GoodReq
  /\ \A k \in Keys : /\ [pc |-> "first", key |-> k] \in GoodReq
                     /\ [pc |-> "last", key |-> k] \in GoodReq
                     /\ [pc |-> "remove", key |-> k] \in GoodReq
  /\ \A k \in Keys, b \in BOOLEAN : [pc |-> "store", key |-> k, first |-> b] \in GoodReq
  BY DEF GoodReq, ReqType, Idle

LEMMA GoodAfter == \A u \in Purposes : After(u) \in GoodReq
  BY GoodReqs DEF After

\* A request that takes up its next piece of work keeps the types.
LEMMA Working ==
  ASSUME req \in [Requests -> GoodReq], NEW r, NEW W \in GoodReq,
         req' = [req EXCEPT ![r] = W]
  PROVE  req' \in [Requests -> GoodReq]
  OBVIOUS

LEMMA GoodIsReq == [Requests -> GoodReq] \subseteq [Requests -> ReqType]
  BY DEF GoodReq

RowTyped ==
  /\ totp \in [secret : SecretsOrNone, pending : SecretsOrNone,
               lastStep : 0 .. MaxSteps, failures : 0 .. MaxFailedAttempts, lock : Locks]
  /\ totp.lock = "open" <=> totp.failures < MaxFailedAttempts
  /\ \A s \in Secrets : s \in {totp.secret, totp.pending} => offered[s] # "no"

CodesTyped ==
  /\ issued \in 0 .. MaxIssues
  /\ codes \subseteq 1 .. issued
  /\ spent \subseteq Proofs /\ again \subseteq spent
  /\ wrong \in Nat

Typed ==
  /\ RowTyped
  /\ CodesTyped
  /\ offered \in [Secrets -> {"no", "first", "proved"}]
  /\ keys \subseteq Keys
  /\ req \in [Requests -> GoodReq]

LEMMA TypedIsTypeOK == Typed => TypeOK
  BY GoodIsReq DEF Typed, RowTyped, CodesTyped, TypeOK

LEMMA RowCharged ==
  ASSUME RowTyped, totp.lock # "locked", totp' = Charged, offered' = offered
  PROVE  /\ RowTyped'
         /\ totp'.secret = totp.secret /\ totp'.pending = totp.pending
         /\ totp'.lastStep = totp.lastStep
         /\ totp'.failures = IF totp.lock = "lapsed" THEN 1 ELSE totp.failures + 1
<1>1. NextCount = IF totp.lock = "lapsed" THEN 1 ELSE totp.failures + 1
  BY DEF NextCount
<1>2. NextCount \in 0 .. MaxFailedAttempts
  BY <1>1, LimitsAreNumbers DEF RowTyped, Locks
<1> DEFINE lock == IF NextCount >= MaxFailedAttempts THEN "locked" ELSE "open"
<1>3. lock \in Locks /\ (lock = "open" <=> NextCount < MaxFailedAttempts)
  BY <1>2, LimitsAreNumbers DEF Locks
<1>4. totp' = [totp EXCEPT !.failures = NextCount, !.lock = lock]
  BY DEF Charged
<1> HIDE DEF lock
<1>5. /\ totp'.secret = totp.secret /\ totp'.pending = totp.pending
      /\ totp'.lastStep = totp.lastStep /\ totp'.failures = NextCount /\ totp'.lock = lock
      /\ totp' \in [secret : SecretsOrNone, pending : SecretsOrNone, lastStep : 0 .. MaxSteps,
                    failures : 0 .. MaxFailedAttempts, lock : Locks]
  BY <1>2, <1>3, <1>4 DEF RowTyped
<1> QED
  BY <1>1, <1>3, <1>5 DEF RowTyped

LEMMA RowCleared ==
  ASSUME RowTyped, NEW n \in 0 .. MaxSteps, offered' = offered,
         totp' = Cleared(totp) \/ totp' = [Cleared(totp) EXCEPT !.lastStep = n]
  PROVE  /\ RowTyped'
         /\ totp'.secret = totp.secret /\ totp'.pending = totp.pending
         /\ totp'.failures = 0
<1>1. "open" \in Locks /\ 0 \in 0 .. MaxFailedAttempts /\ 0 < MaxFailedAttempts
  BY LimitsAreNumbers DEF Locks
<1>2. /\ totp'.secret = totp.secret /\ totp'.pending = totp.pending
      /\ totp'.failures = 0 /\ totp'.lock = "open"
      /\ totp' \in [secret : SecretsOrNone, pending : SecretsOrNone, lastStep : 0 .. MaxSteps,
                    failures : 0 .. MaxFailedAttempts, lock : Locks]
  BY <1>1 DEF RowTyped, Cleared
<1> QED
  BY <1>1, <1>2 DEF RowTyped
-----------------------------------------------------------------------------
(* What a step does to the account                                         *)

Hands(r, W) == W \in GoodReq /\ req' = [req EXCEPT ![r] = W]

\* A request goes on, and nothing but its own state and the keys has changed.
Rests(r) ==
  /\ \E W : /\ Hands(r, W) /\ W.pc # "claim"
            /\ W.pc = "charge" => Confirmed /\ W.secret = totp.secret
  /\ keys' \subseteq Keys
  /\ UNCHANGED <<totp, offered, codes, issued, spent, again, wrong>>

\* An attempt is counted, and a right code goes on to be claimed.
Charges(r) ==
  /\ \E W \in GoodReq, right \in BOOLEAN :
       /\ Hands(r, W) /\ W.pc # "charge"
       /\ W.pc = "claim" =>
            /\ right
            /\ W.proof.kind = "app" => At(r, "charge") /\ W.proof.secret = req[r].secret
       /\ wrong' = (IF totp.lock = "lapsed" THEN 0 ELSE wrong) + (IF right THEN 0 ELSE 1)
  /\ ~At(r, "claim")
  /\ totp.lock # "locked" /\ totp' = Charged
  /\ UNCHANGED <<offered, codes, issued, keys, spent, again>>

\* A code of the app that is newer than the last one is accepted.
TakesStep(r) ==
  /\ At(r, "claim") /\ req[r].proof.kind = "app"
  /\ totp.lastStep < req[r].proof.step
  /\ totp' = [Cleared(totp) EXCEPT !.lastStep = req[r].proof.step]
  /\ Accept(req[r].proof)
  /\ wrong' = 0
  /\ Becomes(r, After(req[r].purpose))
  /\ UNCHANGED <<offered, codes, issued, keys>>

\* A secret nobody has seen is offered, for a code or to an account without an app.
OffersSecret(r) ==
  /\ At(r, "offer")
  /\ req[r].proved \/ ~Confirmed
  /\ \E s \in Secrets : offered[s] = "no" /\ Offers(r, s)
  /\ UNCHANGED <<codes, issued, keys, spent, again, wrong>>

\* The pending secret becomes the app.
Confirms(r) ==
  /\ At(r, "promote")
  /\ totp.pending = req[r].pending /\ Promotes(r)
  /\ UNCHANGED <<offered, keys>>

\* The first factor is a key: new recovery codes.
StoresFirst(r) ==
  /\ At(r, "store") /\ Ends(r)
  /\ keys' \subseteq Keys
  /\ ReplaceRecoveryCodes
  /\ UNCHANGED <<totp, offered, spent, again, wrong>>

Step(r) ==
  \/ Rests(r) \/ Charges(r) \/ TakesStep(r) \/ SpendRecoveryCode(r) \/ ClearFailures(r)
  \/ OffersSecret(r) \/ ExpirePending(r) \/ Confirms(r) \/ StoresFirst(r)

LEMMA ArrivalsRest ==
  ASSUME Typed, NEW r \in Requests, Arrives(r)
  PROVE  Rests(r)
<1>1. /\ totp.secret \in SecretsOrNone /\ totp.pending \in SecretsOrNone /\ totp.lock \in Locks
      /\ keys \subseteq Keys /\ "login" \in Purposes /\ "enroll" \in Purposes
      /\ Presentable \subseteq Proofs
  BY DEF Typed, RowTyped, Purposes, Presentable
<1>2. ASSUME NEW p \in Presentable, NEW u \in Purposes, Confirmed, Takes(r, Verification(u, p)),
             UNCHANGED <<totp, offered, codes, issued, keys, spent, again, wrong>>
      PROVE  Rests(r)
  <2> DEFINE W == [pc |-> "charge", purpose |-> u, proof |-> p,
                   secret |-> totp.secret, lock |-> totp.lock]
  <2>1. W \in GoodReq
    BY <1>1, <1>2, GoodReqs DEF Confirmed, SecretsOrNone
  <2>2. Hands(r, W)
    BY <1>2, <2>1 DEF Takes, Verification, Hands
  <2> QED
    BY <1>1, <1>2, <2>2 DEF Rests
<1>3. ASSUME NEW W \in GoodReq, W.pc \notin {"claim", "charge"}, Takes(r, W),
             UNCHANGED <<totp, offered, codes, issued, keys, spent, again, wrong>>
      PROVE  Rests(r)
  BY <1>1, <1>3 DEF Rests, Hands, Takes
<1>4. ASSUME NEW p \in Presentable, PresentCode(r, p) \/ EnrollAgain(r, p)
      PROVE  Rests(r)
  BY <1>1, <1>2, <1>4 DEF PresentCode, EnrollAgain
<1>5. ASSUME NEW p \in Presentable, RefuseCode(r, p)
      PROVE  Rests(r)
  BY <1>1, <1>3, <1>5, GoodReqs DEF RefuseCode
<1>6. ASSUME NEW p \in Presentable, ReadPending(r, p)
      PROVE  Rests(r)
  <2>1. totp.pending \in Secrets
    BY <1>1, <1>6 DEF ReadPending, SecretsOrNone
  <2>2. /\ [pc |-> "confirm", pending |-> totp.pending, proof |-> p, lock |-> totp.lock] \in GoodReq
        /\ [pc |-> "expire", pending |-> totp.pending] \in GoodReq
    BY <1>1, <2>1, GoodReqs
  <2> QED
    BY <1>3, <1>6, <2>2 DEF ReadPending
<1>7. CASE EnrollFirst(r)
  BY <1>3, <1>7, GoodReqs DEF EnrollFirst
<1>8. ASSUME NEW k \in Keys, CountKeys(r, k) \/ CountRemaining(r, k)
      PROVE  Rests(r)
  <2>1. /\ [pc |-> "first", key |-> k] \in GoodReq
        /\ [pc |-> "last", key |-> k] \in GoodReq
        /\ [pc |-> "remove", key |-> k] \in GoodReq
        /\ [pc |-> "store", key |-> k, first |-> FALSE] \in GoodReq
    BY GoodReqs
  <2> QED
    BY <1>3, <1>8, <2>1 DEF CountKeys, CountRemaining
<1> QED
  BY <1>4, <1>5, <1>6, <1>7, <1>8 DEF Arrives

LEMMA ChargingSteps ==
  ASSUME Typed, NEW r \in Requests, NEW right \in BOOLEAN, NEW W,
         ClaimAttempt(r, right, W), ~At(r, "claim"),
         right => W \in GoodReq, W.pc # "charge",
         right /\ W.pc = "claim" /\ W.proof.kind = "app" =>
           At(r, "charge") /\ W.proof.secret = req[r].secret,
         UNCHANGED <<offered, codes, issued, keys, spent, again>>
  PROVE  Step(r)
<1>1. Idle \in GoodReq /\ Idle.pc = "idle" /\ keys \subseteq Keys
  BY GoodReqs DEF Idle, Typed
<1>2. CASE ~Claimed(r)
  BY <1>1, <1>2 DEF ClaimAttempt, Ends, Becomes, Hands, Rests, Step
<1>3. CASE Claimed(r) /\ right
  <2>1. Hands(r, W)
    BY <1>3 DEF ClaimAttempt, Becomes, Hands
  <2>2. /\ wrong' = (IF totp.lock = "lapsed" THEN 0 ELSE wrong) + (IF right THEN 0 ELSE 1)
        /\ totp.lock # "locked" /\ totp' = Charged
    BY <1>3 DEF ClaimAttempt, Claimed
  <2>3. Charges(r)
    BY <1>3, <2>1, <2>2 DEF Charges, Hands
  <2> QED
    BY <2>3 DEF Step
<1>4. CASE Claimed(r) /\ ~right
  <2>1. Hands(r, Idle)
    BY <1>1, <1>4 DEF ClaimAttempt, Ends, Becomes, Hands
  <2>2. /\ wrong' = (IF totp.lock = "lapsed" THEN 0 ELSE wrong) + (IF right THEN 0 ELSE 1)
        /\ totp.lock # "locked" /\ totp' = Charged
    BY <1>4 DEF ClaimAttempt, Claimed
  <2>3. Charges(r)
    BY <1>1, <1>4, <2>1, <2>2 DEF Charges, Hands
  <2> QED
    BY <2>3 DEF Step
<1> QED
  BY <1>2, <1>3, <1>4

LEMMA RequestSteps ==
  ASSUME Typed, NEW r \in Requests, Proceeds(r)
  PROVE  Step(r)
<1>0. /\ req[r] \in GoodReq /\ Idle \in GoodReq /\ Idle.pc = "idle" /\ keys \subseteq Keys
  BY GoodReqs DEF Idle, Typed
<1>1. ASSUME NEW W \in GoodReq, W.pc \notin {"claim", "charge"}, Becomes(r, W),
             keys' \subseteq Keys,
             UNCHANGED <<totp, offered, codes, issued, spent, again, wrong>>
      PROVE  Step(r)
  BY <1>1 DEF Rests, Hands, Becomes, Step
<1>2. CASE Refuse(r) \/ EnrollmentFails(r)
  BY <1>0, <1>1, <1>2 DEF Refuse, EnrollmentFails, Ends
<1>3. CASE Charge(r)
  <2> DEFINE p == req[r].proof
             W == [pc |-> "claim", purpose |-> req[r].purpose, proof |-> p]
             right == \/ p.kind = "app" /\ p.secret = req[r].secret
                      \/ p.kind = "recovery"
  <2>1. p \in Proofs /\ req[r].purpose \in Purposes
    BY <1>0, <1>3, ReqFields DEF Charge, At
  <2>2. right => W \in GoodReq
    BY <2>1, GoodReqs
  <2>3. ClaimAttempt(r, right, W) /\ At(r, "charge")
        /\ UNCHANGED <<offered, codes, issued, keys, spent, again>>
    BY <1>3 DEF Charge
  <2>4. ~At(r, "claim")
    BY <2>3 DEF At
  <2>5. right \in BOOLEAN /\ W.pc # "charge"
    OBVIOUS
  <2>6. right /\ W.pc = "claim" /\ W.proof.kind = "app" =>
          At(r, "charge") /\ W.proof.secret = req[r].secret
    BY <2>3
  <2> HIDE DEF right, W
  <2> QED
    BY <2>2, <2>3, <2>4, <2>5, <2>6, ChargingSteps
<1>4. CASE ChargeConfirmation(r)
  <2> DEFINE p == req[r].proof
             W == [pc |-> "promote", pending |-> req[r].pending, proof |-> p]
             right == p.kind = "app" /\ p.secret = req[r].pending
  <2>1. p \in Proofs /\ req[r].pending \in Secrets
    BY <1>0, <1>4, ReqFields DEF ChargeConfirmation, At
  <2>2. right => W \in GoodReq
    BY <2>1, GoodReqs
  <2>3. ClaimAttempt(r, right, W) /\ At(r, "confirm")
        /\ UNCHANGED <<offered, codes, issued, keys, spent, again>>
    BY <1>4 DEF ChargeConfirmation
  <2>4. ~At(r, "claim")
    BY <2>3 DEF At
  <2>5. right \in BOOLEAN /\ W.pc \notin {"charge", "claim"}
    OBVIOUS
  <2> HIDE DEF right, W
  <2> QED
    BY <2>2, <2>3, <2>4, <2>5, ChargingSteps
<1>5. CASE ClaimStep(r)
  <2>1. CASE totp.lastStep < req[r].proof.step
    <3>1. TakesStep(r)
      BY <1>5, <2>1, ProofFields, ReqFields, <1>0, LimitsAreNumbers
      DEF ClaimStep, TakesStep, At, Typed, RowTyped, Steps
    <3> QED
      BY <3>1 DEF Step
  <2>2. CASE ~(totp.lastStep < req[r].proof.step)
    BY <1>0, <1>1, <1>5, <2>2 DEF ClaimStep, Ends
  <2> QED
    BY <2>1, <2>2
<1>6. CASE SpendRecoveryCode(r) \/ ClearFailures(r) \/ ExpirePending(r)
  BY <1>6 DEF Step
<1>7. ASSUME NEW s \in Secrets, StartEnrollment(r, s)
      PROVE  Step(r)
  <2>1. CASE req[r].proved \/ ~Confirmed
    <3>1. OffersSecret(r)
      BY <1>0, <1>7, <2>1, ReqFields DEF StartEnrollment, OffersSecret
    <3> QED
      BY <3>1 DEF Step
  <2>2. CASE ~(req[r].proved \/ ~Confirmed)
    BY <1>0, <1>1, <1>7, <2>2 DEF StartEnrollment, Ends
  <2> QED
    BY <2>1, <2>2
<1>8. CASE Promote(r)
  <2>1. CASE totp.pending = req[r].pending
    BY <1>8, <2>1 DEF Promote, Confirms, Step
  <2>2. CASE totp.pending # req[r].pending
    BY <1>0, <1>1, <1>8, <2>2 DEF Promote, Ends
  <2> QED
    BY <2>1, <2>2
<1>9. CASE AskForApp(r)
  <2>1. [pc |-> "store", key |-> req[r].key, first |-> ~Confirmed] \in GoodReq
    BY <1>0, <1>9, ReqFields, GoodReqs DEF AskForApp, At
  <2> QED
    BY <1>0, <1>1, <1>9, <2>1 DEF AskForApp
<1>10. CASE StoreKey(r)
  <2>1. req[r].key \in Keys
    BY <1>0, <1>10, ReqFields DEF StoreKey, At
  <2>2. keys' \subseteq Keys
    BY <1>0, <1>10, <2>1 DEF StoreKey
  <2>3. CASE ReplaceRecoveryCodes
    BY <1>10, <2>2, <2>3 DEF StoreKey, StoresFirst, Step
  <2>4. CASE UNCHANGED <<codes, issued>>
    BY <1>0, <1>1, <1>10, <2>2, <2>4 DEF StoreKey, Ends
  <2> QED
    BY <1>10, <2>3, <2>4 DEF StoreKey
<1>11. CASE RefuseLast(r)
  <2>1. [pc |-> "remove", key |-> req[r].key] \in GoodReq
    BY <1>0, <1>11, ReqFields, GoodReqs DEF RefuseLast, At
  <2> QED
    BY <1>0, <1>1, <1>11, <2>1 DEF RefuseLast, Ends
<1>12. CASE RemoveCredential(r)
  BY <1>0, <1>1, <1>12 DEF RemoveCredential, Ends
<1> QED
  BY <1>2, <1>3, <1>4, <1>5, <1>6, <1>7, <1>8, <1>9, <1>10, <1>11, <1>12 DEF Proceeds

LEMMA NextSteps ==
  ASSUME Typed, [Next]_vars
  PROVE  LockLapses \/ (\E r \in Requests : Step(r)) \/ UNCHANGED vars
  BY ArrivalsRest, RequestSteps DEF Next, Step
LEMMA StepTyped ==
  ASSUME Typed, NEW r \in Requests, Step(r)
  PROVE  Typed'
<1>0. /\ RowTyped /\ CodesTyped /\ req[r] \in GoodReq /\ req \in [Requests -> GoodReq]
      /\ offered \in [Secrets -> {"no", "first", "proved"}] /\ keys \subseteq Keys
      /\ Idle \in GoodReq
  BY GoodReqs DEF Typed
<1>1. ASSUME NEW W, Hands(r, W) PROVE req' \in [Requests -> GoodReq]
  BY <1>0, <1>1, Working DEF Hands
<1>2. ASSUME NEW W \in GoodReq, Becomes(r, W) PROVE req' \in [Requests -> GoodReq]
  BY <1>0, <1>2, Working DEF Becomes
<1>3. UNCHANGED <<totp, offered>> => RowTyped'
  BY <1>0 DEF RowTyped
<1>4. UNCHANGED <<codes, issued, spent, again, wrong>> => CodesTyped'
  BY <1>0 DEF CodesTyped
<1>5. ReplaceRecoveryCodes => /\ issued' \in 0 .. MaxIssues /\ codes' \subseteq 1 .. issued'
  BY <1>0, LimitsAreNumbers DEF ReplaceRecoveryCodes, CodesTyped
<1>6. ASSUME NEW p \in Proofs, Accept(p) PROVE spent' \subseteq Proofs /\ again' \subseteq spent'
  BY <1>0, <1>6 DEF Accept, CodesTyped
<1>7. CASE Rests(r)
  BY <1>0, <1>1, <1>3, <1>4, <1>7 DEF Rests, Typed
<1>8. CASE Charges(r)
  <2>1. RowTyped'
    BY <1>0, <1>8, RowCharged DEF Charges
  <2>2. wrong' \in Nat
    BY <1>0, <1>8 DEF Charges, CodesTyped
  <2>3. CodesTyped'
    BY <1>0, <1>8, <2>2 DEF Charges, CodesTyped
  <2> QED
    BY <1>0, <1>1, <1>8, <2>1, <2>3 DEF Charges, Typed
<1>9. CASE TakesStep(r)
  <2>1. /\ req[r].proof \in Proofs /\ req[r].proof.step \in 0 .. MaxSteps
        /\ After(req[r].purpose) \in GoodReq
    BY <1>0, <1>9, ReqFields, ProofFields, GoodAfter, LimitsAreNumbers DEF TakesStep, At, Steps
  <2>2. RowTyped'
    BY <1>0, <1>9, <2>1, RowCleared DEF TakesStep
  <2>3. CodesTyped'
    BY <1>0, <1>6, <1>9, <2>1 DEF TakesStep, CodesTyped
  <2> QED
    BY <1>0, <1>2, <1>9, <2>1, <2>2, <2>3 DEF TakesStep, Typed
<1>10. CASE SpendRecoveryCode(r)
  <2>1. req[r].proof \in Proofs /\ req[r].purpose \in Purposes
    BY <1>0, <1>10, ReqFields DEF SpendRecoveryCode, At
  <2>2. req' \in [Requests -> GoodReq]
    BY <1>0, <1>2, <1>10, <2>1, GoodReqs DEF SpendRecoveryCode, Ends
  <2>3. CodesTyped'
    <3>1. /\ issued' = issued /\ codes' \subseteq codes
          /\ Accept(req[r].proof) \/ UNCHANGED <<spent, again>>
          /\ wrong' = wrong \/ wrong' = wrong + 1
      BY <1>10 DEF SpendRecoveryCode
    <3>2. spent' \subseteq Proofs /\ again' \subseteq spent'
      BY <1>0, <1>6, <2>1, <3>1 DEF CodesTyped
    <3> QED
      BY <1>0, <3>1, <3>2 DEF CodesTyped
  <2> QED
    BY <1>0, <1>3, <1>10, <2>2, <2>3 DEF SpendRecoveryCode, Typed
<1>11. CASE ClearFailures(r)
  <2>1. After(req[r].purpose) \in GoodReq
    BY <1>0, <1>11, ReqFields, GoodAfter DEF ClearFailures, At
  <2>2. RowTyped'
    BY <1>0, <1>11, RowCleared, LimitsAreNumbers DEF ClearFailures
  <2>3. CodesTyped'
    BY <1>0, <1>11 DEF ClearFailures, CodesTyped
  <2> QED
    BY <1>0, <1>2, <1>11, <2>1, <2>2, <2>3 DEF ClearFailures, Typed
<1>12. CASE OffersSecret(r)
  <2>1. PICK s \in Secrets : Offers(r, s)
    BY <1>12 DEF OffersSecret
  <2>2. /\ totp' = [totp EXCEPT !.pending = s]
        /\ offered' = [offered EXCEPT ![s] = IF req[r].proved THEN "proved" ELSE "first"]
        /\ Becomes(r, Idle)
    BY <2>1 DEF Offers, Ends
  <2>3. offered' \in [Secrets -> {"no", "first", "proved"}]
    BY <1>0, <2>2
  <2>4. /\ totp' \in [secret : SecretsOrNone, pending : SecretsOrNone, lastStep : 0 .. MaxSteps,
                      failures : 0 .. MaxFailedAttempts, lock : Locks]
        /\ totp'.secret = totp.secret /\ totp'.pending = s
        /\ totp'.failures = totp.failures /\ totp'.lock = totp.lock
    BY <1>0, <2>2 DEF RowTyped, SecretsOrNone
  <2>5. RowTyped'
    BY <1>0, <2>2, <2>4 DEF RowTyped
  <2> QED
    BY <1>0, <1>2, <1>4, <1>12, <2>2, <2>3, <2>5 DEF OffersSecret, Typed
<1>13. CASE ExpirePending(r)
  <2>1. RowTyped'
    <3>1. CASE totp' = totp
      BY <1>3, <1>13, <3>1 DEF ExpirePending
    <3>2. CASE totp' = [totp EXCEPT !.pending = None]
      BY <1>0, <1>13, <3>2 DEF ExpirePending, RowTyped, SecretsOrNone, None, Secrets
    <3> QED
      BY <1>13, <3>1, <3>2 DEF ExpirePending
  <2> QED
    BY <1>0, <1>2, <1>4, <1>13, <2>1 DEF ExpirePending, Ends, Typed
<1>14. CASE Confirms(r)
  <2>1. /\ req[r].proof \in Proofs /\ req[r].proof.step \in 0 .. MaxSteps
        /\ req[r].pending \in Secrets /\ totp.pending = req[r].pending
    BY <1>0, <1>14, ReqFields, ProofFields, LimitsAreNumbers DEF Confirms, At, Steps
  <2>2. totp' = [secret |-> req[r].pending, pending |-> None, lastStep |-> req[r].proof.step,
                 failures |-> 0, lock |-> "open"]
    BY <1>14 DEF Confirms, Promotes
  <2>3. RowTyped'
    <3>1. /\ None \notin Secrets /\ 0 < MaxFailedAttempts /\ 0 \in 0 .. MaxFailedAttempts
          /\ "open" \in Locks
      BY LimitsAreNumbers DEF None, Secrets, Locks
    <3>2. totp' \in [secret : SecretsOrNone, pending : SecretsOrNone, lastStep : 0 .. MaxSteps,
                     failures : 0 .. MaxFailedAttempts, lock : Locks]
      BY <2>1, <2>2, <3>1 DEF SecretsOrNone
    <3>3. /\ totp'.secret = totp.pending /\ totp'.pending = None
          /\ totp'.failures = 0 /\ totp'.lock = "open"
      BY <2>1, <2>2
    <3>4. offered' = offered
      BY <1>14 DEF Confirms
    <3> QED
      BY <1>0, <3>1, <3>2, <3>3, <3>4 DEF RowTyped
  <2>4. CodesTyped'
    BY <1>0, <1>5, <1>6, <1>14, <2>1 DEF Confirms, Promotes, CodesTyped
  <2> QED
    BY <1>0, <1>2, <1>14, <2>3, <2>4 DEF Confirms, Promotes, Ends, Typed
<1>15. CASE StoresFirst(r)
  <2>1. CodesTyped'
    BY <1>0, <1>5, <1>15 DEF StoresFirst, CodesTyped
  <2> QED
    BY <1>0, <1>2, <1>3, <1>15, <2>1 DEF StoresFirst, Ends, Typed
<1> QED
  BY <1>7, <1>8, <1>9, <1>10, <1>11, <1>12, <1>13, <1>14, <1>15 DEF Step

LEMMA InitTyped == Init => Typed
<1> SUFFICES ASSUME Init PROVE Typed
  OBVIOUS
<1>1. RowTyped
  BY LimitsAreNumbers DEF Init, RowTyped, SecretsOrNone, None, Locks, Secrets
<1>2. CodesTyped
  BY LimitsAreNumbers DEF Init, CodesTyped
<1> QED
  BY <1>1, <1>2, GoodReqs DEF Init, Typed

LEMMA NextTyped == Typed /\ [Next]_vars => Typed'
<1> SUFFICES ASSUME Typed, [Next]_vars PROVE Typed'
  OBVIOUS
<1>1. CASE LockLapses
  <2>1. RowTyped'
    BY <1>1 DEF LockLapses, Typed, RowTyped, Locks
  <2>2. CodesTyped'
    BY <1>1 DEF LockLapses, Typed, CodesTyped
  <2> QED
    BY <1>1, <2>1, <2>2 DEF LockLapses, Typed
<1>2. CASE UNCHANGED vars
  BY <1>2 DEF vars, Typed, RowTyped, CodesTyped
<1> QED
  BY <1>1, <1>2, NextSteps, StepTyped

LEMMA AlwaysTyped == Spec => []Typed
  BY InitTyped, NextTyped, PTL DEF Spec

\* The type invariant holds for every number of requests, keys, secrets, steps and
\* issues, and so does the limit on the counter of failures: with the count at its
\* limit the factor is never open.
THEOREM TypeCorrect == Spec => []TypeOK
  BY AlwaysTyped, TypedIsTypeOK, PTL
-----------------------------------------------------------------------------
(* A code is accepted once, an app is replaced with proof                  *)

\* A secret whose codes may have been seen: it is not the pending one, and will
\* never be offered again.
Past(s) == s # totp.pending /\ offered[s] # "no"

SecretInv ==
  /\ Confirmed => totp.secret # totp.pending
  /\ Confirmed /\ totp.pending # None => offered[totp.pending] = "proved"
  /\ \A p \in spent : p.kind = "app" => p.secret \in Secrets /\ Past(p.secret)
  /\ \A r \in Requests : At(r, "charge") => Past(req[r].secret)
  /\ \A r \in Requests : At(r, "claim") /\ req[r].proof.kind = "app" => Past(req[r].proof.secret)

LEMMA PastStays ==
  ASSUME Typed, NEW r \in Requests, Step(r) \/ LockLapses, NEW s \in Secrets, Past(s)
  PROVE  Past(s)'
<1>1. s \in Secrets /\ None \notin Secrets
  BY DEF Secrets, None
<1>2. CASE UNCHANGED <<totp, offered>>
  BY <1>2 DEF Past
<1>3. CASE totp'.pending = totp.pending /\ offered' = offered
  BY <1>3 DEF Past
<1>4. CASE totp'.pending = None /\ offered' = offered
  BY <1>1, <1>4 DEF Past
<1>5. CASE OffersSecret(r)
  <2>1. PICK q \in Secrets : offered[q] = "no" /\ Offers(r, q)
    BY <1>5 DEF OffersSecret
  <2>2. q # s
    BY <2>1 DEF Past
  <2>3. totp'.pending = q /\ offered'[s] = offered[s]
    BY <2>1, <2>2 DEF Offers, Typed, RowTyped
  <2> QED
    BY <2>2, <2>3 DEF Past
<1>6. CASE Rests(r) \/ SpendRecoveryCode(r) \/ StoresFirst(r)
  BY <1>2, <1>6 DEF Rests, SpendRecoveryCode, StoresFirst
<1>7. CASE Charges(r)
  BY <1>3, <1>7, RowCharged DEF Charges, Typed
<1>8. CASE TakesStep(r) \/ ClearFailures(r)
  BY <1>3, <1>8 DEF TakesStep, ClearFailures, Cleared, Typed, RowTyped
<1>9. CASE ExpirePending(r)
  BY <1>2, <1>4, <1>9 DEF ExpirePending, Typed, RowTyped
<1>10. CASE Confirms(r)
  BY <1>4, <1>10 DEF Confirms, Promotes
<1>11. CASE LockLapses
  BY <1>3, <1>11 DEF LockLapses, Typed, RowTyped
<1> QED
  BY <1>5, <1>6, <1>7, <1>8, <1>9, <1>10, <1>11 DEF Step

\* Whoever holds a code of a secret got there while the secret was past.
LEMMA RequestsHoldPast ==
  ASSUME Typed, SecretInv, NEW r \in Requests, Step(r) \/ LockLapses, NEW q \in Requests
  PROVE  /\ At(q, "charge")' => Past(req[q].secret)'
         /\ At(q, "claim")' /\ req'[q].proof.kind = "app" => Past(req[q].proof.secret)'
<1>1. /\ At(q, "charge") => req[q].secret \in Secrets
      /\ At(q, "claim") /\ req[q].proof.kind = "app" => req[q].proof.secret \in Secrets
  BY ReqFields, ProofFields DEF Typed, At
<1>2. CASE req'[q] = req[q]
  BY <1>1, <1>2, PastStays DEF SecretInv, At
<1>3. ASSUME NEW W, req' = [req EXCEPT ![r] = W], q = r,
             W.pc = "charge" => W.secret \in Secrets /\ Past(W.secret),
             W.pc = "claim" /\ W.proof.kind = "app" =>
               W.proof.secret \in Secrets /\ Past(W.proof.secret)
      PROVE  /\ At(q, "charge")' => Past(req[q].secret)'
             /\ At(q, "claim")' /\ req'[q].proof.kind = "app" => Past(req[q].proof.secret)'
  <2>1. req'[q] = W
    BY <1>3 DEF Typed
  <2> QED
    BY <1>3, <2>1, PastStays DEF At
<1>4. CASE q # r \/ LockLapses
  BY <1>2, <1>4 DEF Step, Rests, Charges, TakesStep, SpendRecoveryCode, ClearFailures, OffersSecret,
     ExpirePending, Confirms, StoresFirst, LockLapses, Hands, Becomes, Ends, Offers, Promotes, Typed
<1>5. CASE q = r /\ Rests(r)
  <2>1. PICK W : /\ Hands(r, W) /\ W.pc # "claim"
                 /\ W.pc = "charge" => Confirmed /\ W.secret = totp.secret
    BY <1>5 DEF Rests
  <2>2. Confirmed => totp.secret \in Secrets /\ Past(totp.secret)
    BY DEF Confirmed, SecretInv, Past, Typed, RowTyped, SecretsOrNone
  <2> QED
    BY <1>3, <1>5, <2>1, <2>2 DEF Hands
<1>6. CASE q = r /\ Charges(r)
  <2>1. PICK W \in GoodReq :
          /\ Hands(r, W) /\ W.pc # "charge"
          /\ W.pc = "claim" =>
               (W.proof.kind = "app" => At(r, "charge") /\ W.proof.secret = req[r].secret)
    BY <1>6 DEF Charges
  <2>2. At(r, "charge") => req[r].secret \in Secrets /\ Past(req[r].secret)
    BY <1>1, <1>6 DEF SecretInv
  <2> QED
    BY <1>3, <1>6, <2>1, <2>2 DEF Hands
<1>7. ASSUME NEW W, Becomes(r, W), q = r, W.pc \notin {"charge", "claim"}
      PROVE  /\ At(q, "charge")' => Past(req[q].secret)'
             /\ At(q, "claim")' /\ req'[q].proof.kind = "app" => Past(req[q].proof.secret)'
  BY <1>3, <1>7 DEF Becomes
<1>8. /\ Idle.pc = "idle"
      /\ \A u : After(u).pc \in {"idle", "offer"}
      /\ \A u : [pc |-> "clear", purpose |-> u].pc = "clear"
  BY DEF Idle, After
<1>9. CASE q = r /\ (TakesStep(r) \/ ClearFailures(r))
  BY <1>7, <1>8, <1>9 DEF TakesStep, ClearFailures
<1>10. CASE q = r /\ SpendRecoveryCode(r)
  BY <1>7, <1>8, <1>10 DEF SpendRecoveryCode, Ends
<1>11. CASE q = r /\ (OffersSecret(r) \/ ExpirePending(r) \/ Confirms(r) \/ StoresFirst(r))
  BY <1>7, <1>8, <1>11 DEF OffersSecret, Offers, ExpirePending, Confirms, Promotes, StoresFirst, Ends
<1> QED
  BY <1>4, <1>5, <1>6, <1>9, <1>10, <1>11 DEF Step
LEMMA NextSecrets == Typed /\ SecretInv /\ [Next]_vars => SecretInv'
<1> SUFFICES ASSUME Typed, SecretInv, [Next]_vars PROVE SecretInv'
  OBVIOUS
<1>1. CASE UNCHANGED vars
  BY <1>1 DEF vars, SecretInv, Past, At, Confirmed
<1>2. ASSUME NEW r \in Requests, Step(r) \/ LockLapses
      PROVE  SecretInv'
  <2>1. \A p \in spent : p.kind = "app" => p.secret \in Secrets /\ Past(p.secret)'
    BY <1>2, PastStays DEF SecretInv
  <2>2. \A q \in Requests :
          /\ At(q, "charge")' => Past(req[q].secret)'
          /\ At(q, "claim")' /\ req'[q].proof.kind = "app" => Past(req[q].proof.secret)'
    BY <1>2, RequestsHoldPast
  <2>3. req[r] \in GoodReq /\ None \notin Secrets
    BY DEF Typed, None, Secrets
  <2>4. ASSUME UNCHANGED <<totp, offered>>
        PROVE  /\ Confirmed' => totp'.secret # totp'.pending
               /\ Confirmed' /\ totp'.pending # None => offered'[totp'.pending] = "proved"
    BY <2>4 DEF SecretInv, Confirmed
  <2>5. ASSUME totp'.secret = totp.secret, totp'.pending \in {totp.pending, None}, offered' = offered
        PROVE  /\ Confirmed' => totp'.secret # totp'.pending
               /\ Confirmed' /\ totp'.pending # None => offered'[totp'.pending] = "proved"
    BY <2>5 DEF SecretInv, Confirmed
  <2>6. ASSUME spent' = spent,
               /\ Confirmed' => totp'.secret # totp'.pending
               /\ Confirmed' /\ totp'.pending # None => offered'[totp'.pending] = "proved"
        PROVE  SecretInv'
    BY <2>1, <2>2, <2>6 DEF SecretInv
  <2>7. ASSUME NEW p \in Proofs, Accept(p), p.kind = "app" => p.secret \in Secrets /\ Past(p.secret)',
               /\ Confirmed' => totp'.secret # totp'.pending
               /\ Confirmed' /\ totp'.pending # None => offered'[totp'.pending] = "proved"
        PROVE  SecretInv'
    BY <2>1, <2>2, <2>7 DEF SecretInv, Accept
  <2>8. CASE Rests(r) \/ StoresFirst(r)
    BY <2>4, <2>6, <2>8 DEF Rests, StoresFirst
  <2>9. CASE Charges(r)
    BY <2>5, <2>6, <2>9, RowCharged DEF Charges, Typed
  <2>10. CASE TakesStep(r)
    <3>1. PICK p : p = req[r].proof
      OBVIOUS
    <3>2. p \in Proofs /\ p.secret \in Secrets /\ Past(p.secret)
      BY <2>3, <2>10, <3>1, ReqFields, ProofFields DEF TakesStep, At, SecretInv
    <3>3. Past(p.secret)'
      BY <1>2, <3>2, PastStays
    <3>4. totp'.secret = totp.secret /\ totp'.pending = totp.pending /\ offered' = offered
      BY <2>10 DEF TakesStep, Cleared, Typed, RowTyped
    <3> QED
      BY <2>5, <2>7, <2>10, <3>1, <3>2, <3>3, <3>4 DEF TakesStep
  <2>11. CASE SpendRecoveryCode(r)
    <3>1. /\ req[r].proof \in Proofs /\ req[r].proof.kind = "recovery"
          /\ UNCHANGED <<totp, offered>>
          /\ Accept(req[r].proof) \/ spent' = spent
      BY <2>3, <2>11, ReqFields DEF SpendRecoveryCode, At
    <3> QED
      BY <2>4, <2>6, <2>7, <3>1
  <2>12. CASE ClearFailures(r)
    BY <2>5, <2>6, <2>12 DEF ClearFailures, Cleared, Typed, RowTyped
  <2>13. CASE OffersSecret(r)
    <3>1. PICK s \in Secrets : offered[s] = "no" /\ Offers(r, s)
      BY <2>13 DEF OffersSecret
    <3>2. /\ totp'.pending = s /\ totp'.secret = totp.secret /\ spent' = spent
          /\ offered'[s] = IF req[r].proved THEN "proved" ELSE "first"
      BY <2>13, <3>1 DEF OffersSecret, Offers, Typed, RowTyped
    <3>3. Confirmed => req[r].proved /\ totp.secret # s
      BY <2>13, <3>1 DEF OffersSecret, Typed, RowTyped, Confirmed
    <3> QED
      BY <2>6, <3>2, <3>3 DEF Confirmed
  <2>14. CASE ExpirePending(r)
    <3>1. totp'.secret = totp.secret /\ totp'.pending \in {totp.pending, None}
      BY <2>14 DEF ExpirePending, Typed, RowTyped
    <3> QED
      BY <2>5, <2>6, <2>14, <3>1 DEF ExpirePending
  <2>15. CASE Confirms(r)
    <3>1. PICK p : p = req[r].proof
      OBVIOUS
    <3>2. p \in Proofs /\ p.secret = totp.pending /\ totp.pending \in Secrets
      BY <2>3, <2>15, <3>1, ReqFields DEF Confirms, At
    <3>3. /\ totp'.pending = None /\ totp'.secret = totp.pending /\ offered' = offered
          /\ Accept(p)
      BY <2>15, <3>1 DEF Confirms, Promotes
    <3>4. Past(p.secret)'
      BY <2>3, <3>2, <3>3 DEF Past, Typed, RowTyped
    <3> QED
      BY <2>3, <2>7, <3>2, <3>3, <3>4
  <2>16. CASE LockLapses
    BY <2>5, <2>6, <2>16 DEF LockLapses, Typed, RowTyped
  <2> QED
    BY <1>2, <2>8, <2>9, <2>10, <2>11, <2>12, <2>13, <2>14, <2>15, <2>16 DEF Step
<1>3. \E r : r \in Requests
  BY SecondFactorAssumption
<1> QED
  BY <1>1, <1>2, <1>3, NextSteps

LEMMA InitSecrets == Init => SecretInv
  BY DEF Init, SecretInv, Confirmed, At, Idle

\* Only a confirmation changes the app, to the secret that was pending.
LEMMA AppChanges ==
  ASSUME Typed, [Next]_vars, totp'.secret # totp.secret
  PROVE  totp'.secret = totp.pending /\ totp.pending # None
<1>1. CASE LockLapses
  BY <1>1 DEF LockLapses, Typed, RowTyped
<1>2. ASSUME NEW r \in Requests, Step(r)
      PROVE  totp'.secret = totp.pending /\ totp.pending # None
  <2>1. req[r] \in GoodReq /\ None \notin Secrets
    BY DEF Typed, None, Secrets
  <2>2. CASE Charges(r)
    BY <2>2, RowCharged DEF Charges, Typed
  <2>3. CASE Confirms(r)
    BY <2>1, <2>3, ReqFields DEF Confirms, Promotes, At
  <2> QED
    BY <1>2, <2>2, <2>3 DEF Step, Rests, TakesStep, SpendRecoveryCode, ClearFailures, OffersSecret,
       Offers, ExpirePending, StoresFirst, Cleared, Typed, RowTyped
<1>3. CASE UNCHANGED vars
  BY <1>3 DEF vars
<1> QED
  BY <1>1, <1>2, <1>3, NextSteps

\* A confirmed app is replaced only by the latest offer, and only if that offer
\* cost a second factor: an offer made while the account had none is refused once
\* it has one, or was made before the app it would replace.
THEOREM ReplacementIsProved == Spec => ReplacedWithProof
<1>1. Typed /\ SecretInv /\ [Next]_vars =>
        [(totp.secret # None /\ totp'.secret # totp.secret) =>
            offered[totp'.secret] = "proved" /\ totp'.secret = totp.pending]_vars
  BY AppChanges DEF SecretInv, Confirmed
<1> QED
  BY <1>1, InitSecrets, NextSecrets, AlwaysTyped, PTL DEF Spec, ReplacedWithProof
\* What was accepted cannot be accepted again: a step of the app lies behind the
\* last one, a recovery code is no longer unused.
OnceInv ==
  /\ AcceptedOnce
  /\ \A p \in spent :
       /\ p.kind \in {"app", "recovery"}
       /\ p.kind = "app" /\ p.secret = totp.secret => p.step <= totp.lastStep
       /\ p.kind = "recovery" => p.id \in 1 .. issued /\ p.id \notin codes

LEMMA NextOnce == Typed /\ SecretInv /\ OnceInv /\ [Next]_vars => OnceInv'
<1> SUFFICES ASSUME Typed, SecretInv, OnceInv, [Next]_vars PROVE OnceInv'
  OBVIOUS
<1>0. /\ spent \subseteq Proofs /\ again \subseteq spent /\ totp.lastStep \in Nat
      /\ issued \in Nat /\ codes \subseteq 1 .. issued
  BY LimitsAreNumbers DEF Typed, RowTyped, CodesTyped
\* Nothing new is accepted.
<1>1. ASSUME UNCHANGED <<spent, again>>, totp'.secret = totp.secret,
             totp'.lastStep = totp.lastStep,
             \/ UNCHANGED <<codes, issued>>
             \/ issued' = issued + 1 /\ codes' = {issued + 1}
      PROVE  OnceInv'
  BY <1>0, <1>1 DEF OnceInv, AcceptedOnce
<1>2. ASSUME NEW r \in Requests, Step(r)
      PROVE  OnceInv'
  <2>1. req[r] \in GoodReq
    BY DEF Typed
  <2>2. CASE Rests(r)
    BY <1>1, <2>2 DEF Rests
  <2>3. CASE StoresFirst(r)
    BY <1>1, <2>3 DEF StoresFirst, ReplaceRecoveryCodes
  <2>4. CASE Charges(r)
    BY <1>1, <2>4, RowCharged DEF Charges, Typed
  <2>5. CASE ClearFailures(r)
    BY <1>1, <2>5 DEF ClearFailures, Cleared, Typed, RowTyped
  <2>6. CASE OffersSecret(r)
    BY <1>1, <2>6 DEF OffersSecret, Offers, Typed, RowTyped
  <2>7. CASE ExpirePending(r)
    BY <1>1, <2>7 DEF ExpirePending, Typed, RowTyped
  <2>8. CASE TakesStep(r)
    <3>1. PICK p : p = req[r].proof
      OBVIOUS
    <3>2. /\ p.kind = "app" /\ p.step \in Nat /\ totp.lastStep < p.step
          /\ totp'.secret = totp.secret /\ totp'.lastStep = p.step
          /\ spent' = spent \union {p} /\ again' = again \union ({p} \intersect spent)
          /\ UNCHANGED <<codes, issued>>
      BY <2>1, <2>8, <3>1, ReqFields, ProofFields, LimitsAreNumbers
      DEF TakesStep, Accept, Cleared, At, Typed, RowTyped, Steps
    <3>3. p.secret = totp.secret => p \notin spent
      BY <1>0, <3>2 DEF OnceInv
    <3>4. AcceptedOnce'
      BY <3>2, <3>3 DEF OnceInv, AcceptedOnce
    <3>5. \A q \in spent' : /\ q.kind \in {"app", "recovery"}
                           /\ q.kind = "recovery" => q.id \in 1 .. issued /\ q.id \notin codes
      BY <3>2 DEF OnceInv
    <3>6. \A q \in spent' : q.kind = "app" /\ q.secret = totp.secret => q.step <= p.step
      <4> SUFFICES ASSUME NEW q \in spent', q.kind = "app", q.secret = totp.secret
                   PROVE  q.step <= p.step
        OBVIOUS
      <4>1. CASE q = p
        BY <3>2, <4>1
      <4>2. CASE q \in spent
        <5>1. q.step <= totp.lastStep /\ q.step \in Nat
          BY <1>0, <4>2, ProofFields, LimitsAreNumbers DEF OnceInv, Steps
        <5> QED
          BY <1>0, <3>2, <5>1
      <4> QED
        BY <3>2, <4>1, <4>2
    <3> QED
      BY <3>2, <3>4, <3>5, <3>6 DEF OnceInv
  <2>9. CASE SpendRecoveryCode(r)
    <3>1. PICK p : p = req[r].proof
      OBVIOUS
    <3>2. CASE p.id \in codes
      <4>1. /\ p.kind = "recovery" /\ p.id \in 1 .. issued
            /\ codes' = codes \ {p.id} /\ UNCHANGED <<totp, issued>>
            /\ spent' = spent \union {p} /\ again' = again \union ({p} \intersect spent)
        BY <1>0, <2>9, <3>1, <3>2 DEF SpendRecoveryCode, Accept
      <4>2. p \notin spent
        BY <3>2, <4>1 DEF OnceInv
      <4>3. AcceptedOnce'
        BY <4>1, <4>2 DEF OnceInv, AcceptedOnce
      <4> QED
        BY <4>1, <4>3 DEF OnceInv
    <3>3. CASE p.id \notin codes
      BY <1>1, <2>9, <3>1, <3>3 DEF SpendRecoveryCode
    <3> QED
      BY <3>2, <3>3
  <2>10. CASE Confirms(r)
    <3>1. PICK p : p = req[r].proof
      OBVIOUS
    <3>2. /\ p \in Proofs /\ p.kind = "app" /\ p.secret = totp.pending /\ p.step \in Nat
          /\ totp'.secret = totp.pending /\ totp'.lastStep = p.step
          /\ spent' = spent \union {p} /\ again' = again \union ({p} \intersect spent)
          /\ issued' = issued + 1 /\ codes' = {issued + 1}
      BY <2>1, <2>10, <3>1, ReqFields, ProofFields, LimitsAreNumbers
      DEF Confirms, Promotes, Accept, ReplaceRecoveryCodes, At, Steps
    <3>3. \A q \in spent : q.kind = "app" => q.secret # totp.pending
      BY DEF SecretInv, Past
    <3>4. AcceptedOnce'
      BY <1>0, <3>2, <3>3 DEF OnceInv, AcceptedOnce
    <3>5. \A q \in spent' : /\ q.kind \in {"app", "recovery"}
                           /\ q.kind = "app" /\ q.secret = totp.pending => q.step <= p.step
      BY <3>2, <3>3 DEF OnceInv
    <3>6. \A q \in spent' : q.kind = "recovery" => q.id \in 1 .. issued' /\ q.id \notin codes'
      BY <1>0, <3>2 DEF OnceInv
    <3> QED
      BY <3>2, <3>4, <3>5, <3>6 DEF OnceInv
  <2> QED
    BY <1>2, <2>2, <2>3, <2>4, <2>5, <2>6, <2>7, <2>8, <2>9, <2>10 DEF Step
<1>3. CASE LockLapses
  BY <1>1, <1>3 DEF LockLapses, Typed, RowTyped
<1>4. CASE UNCHANGED vars
  BY <1>1, <1>4 DEF vars
<1> QED
  BY <1>2, <1>3, <1>4, NextSteps

\* No recovery code and no code of the app in use is accepted twice, whatever
\* sign-ins, replacements of the app and confirmations run together.
THEOREM CodesAreSingleUse == Spec => []AcceptedOnce
<1>1. Init => OnceInv
  BY DEF Init, OnceInv, AcceptedOnce
<1>2. OnceInv => AcceptedOnce
  BY DEF OnceInv
<1> QED
  BY <1>1, <1>2, InitSecrets, NextSecrets, NextOnce, AlwaysTyped, PTL DEF Spec

-----------------------------------------------------------------------------
(* The guesses of concurrent requests                                      *)

\* Requests that are charged and have a recovery code to look up.
Looking == {r \in Requests : At(r, "claim") /\ req[r].proof.kind = "recovery"}

\* Every wrong code and every code still to be looked up was charged, but for those
\* that were charged before another request cleared the count.
CountInv ==
  wrong + Cardinality(Looking) < totp.failures + Cardinality(Requests)

LEMMA LookingIsFinite ==
  /\ IsFiniteSet(Looking) /\ Cardinality(Looking) \in Nat
  /\ Cardinality(Requests) \in Nat \ {0}
  /\ Cardinality(Looking) <= Cardinality(Requests)
<1>1. Looking \subseteq Requests /\ IsFiniteSet(Requests) /\ Requests # {}
  BY SecondFactorAssumption DEF Looking
<1> QED
  BY <1>1, FS_Subset, FS_CardinalityType, FS_EmptySet
\* How the number of codes to be looked up changes with one request.
LEMMA LookingMoves ==
  ASSUME Typed, NEW r \in Requests, NEW W, req' = [req EXCEPT ![r] = W]
  PROVE  /\ Cardinality(Looking)' \in Nat
         /\ Cardinality(Looking)' <= Cardinality(Looking) + 1
         /\ Cardinality(Looking)' <= Cardinality(Requests)
         /\ W.pc # "claim" => /\ Cardinality(Looking)' <= Cardinality(Looking)
                              /\ Cardinality(Looking)' < Cardinality(Requests)
                              /\ r \in Looking =>
                                   Cardinality(Looking)' = Cardinality(Looking) - 1
<1>1. /\ IsFiniteSet(Requests) /\ Cardinality(Requests) \in Nat \ {0}
      /\ IsFiniteSet(Looking) /\ Cardinality(Looking) \in Nat
  BY SecondFactorAssumption, LookingIsFinite
<1>2. Looking' \subseteq Looking \union {r} /\ Looking' \subseteq Requests
  BY DEF Looking, At, Typed
<1>3. /\ IsFiniteSet(Looking') /\ Cardinality(Looking') \in Nat
      /\ Cardinality(Looking') <= Cardinality(Requests)
  BY <1>1, <1>2, FS_Subset, FS_CardinalityType
<1>4. Cardinality(Looking') <= Cardinality(Looking) + 1
  <2>1. /\ IsFiniteSet(Looking \union {r})
        /\ Cardinality(Looking \union {r}) \in {Cardinality(Looking), Cardinality(Looking) + 1}
    BY <1>1, FS_AddElement
  <2>2. Cardinality(Looking') <= Cardinality(Looking \union {r})
    BY <1>2, <2>1, FS_Subset
  <2> QED
    BY <1>1, <1>3, <2>1, <2>2
<1>5. ASSUME W.pc # "claim"
      PROVE  /\ Cardinality(Looking') <= Cardinality(Looking)
             /\ Cardinality(Looking') < Cardinality(Requests)
             /\ r \in Looking => Cardinality(Looking') = Cardinality(Looking) - 1
  <2>1. Looking' = Looking \ {r} /\ Looking' \subseteq Requests \ {r}
    BY <1>5 DEF Looking, At, Typed
  <2>2. /\ Cardinality(Looking \ {r}) =
             IF r \in Looking THEN Cardinality(Looking) - 1 ELSE Cardinality(Looking)
        /\ IsFiniteSet(Requests \ {r})
        /\ Cardinality(Requests \ {r}) = Cardinality(Requests) - 1
    BY <1>1, FS_RemoveElement
  <2>3. Cardinality(Looking') <= Cardinality(Requests \ {r})
    BY <2>1, <2>2, FS_Subset
  <2> QED
    BY <1>1, <1>3, <2>1, <2>2, <2>3
<1> QED
  BY <1>3, <1>4, <1>5

LEMMA NextCounts == Typed /\ CountInv /\ [Next]_vars => CountInv'
<1> SUFFICES ASSUME Typed, CountInv, [Next]_vars PROVE CountInv'
  OBVIOUS
<1> DEFINE n == Cardinality(Requests)
           m == Cardinality(Looking)
<1>0. /\ n \in Nat \ {0} /\ m \in Nat /\ m <= n
      /\ wrong \in Nat /\ totp.failures \in Nat
      /\ wrong + m < totp.failures + n
  BY LookingIsFinite, LimitsAreNumbers DEF Typed, RowTyped, CodesTyped, CountInv
<1>1. ASSUME m' \in Nat, wrong' + m' < totp'.failures + n
      PROVE  CountInv'
  BY <1>1 DEF CountInv
<1>2. ASSUME NEW r \in Requests, Step(r)
      PROVE  CountInv'
  <2>1. ASSUME NEW W, req' = [req EXCEPT ![r] = W]
        PROVE  /\ m' \in Nat /\ m' <= m + 1 /\ m' <= n
               /\ W.pc # "claim" => /\ m' <= m /\ m' < n
                                    /\ r \in Looking => m' = m - 1
    BY <2>1, LookingMoves
  <2>2. /\ Idle.pc = "idle"
        /\ \A u : After(u).pc \in {"idle", "offer"}
        /\ \A u : [pc |-> "clear", purpose |-> u].pc = "clear"
    BY DEF Idle, After
  <2> HIDE DEF n, m
  <2>3. ASSUME NEW W, req' = [req EXCEPT ![r] = W], W.pc # "claim",
               wrong' = wrong, totp'.failures = totp.failures
        PROVE  CountInv'
    <3>1. m' \in Nat /\ m' <= m
      BY <2>1, <2>3
    <3> QED
      BY <1>0, <1>1, <2>3, <3>1
  <2>4. ASSUME NEW W, req' = [req EXCEPT ![r] = W], W.pc # "claim",
               wrong' = 0, totp'.failures = 0
        PROVE  CountInv'
    <3>1. m' \in Nat /\ m' < n
      BY <2>1, <2>4
    <3>2. wrong' \in Nat /\ wrong' < 1 /\ totp'.failures \in Nat
      BY <2>4
    <3> QED
      BY <1>0, <1>1, <3>1, <3>2
  <2>5. CASE Rests(r)
    BY <2>3, <2>5 DEF Rests, Hands
  <2>6. CASE StoresFirst(r)
    BY <2>2, <2>3, <2>6 DEF StoresFirst, Ends, Becomes
  <2>7. CASE OffersSecret(r)
    BY <2>2, <2>3, <2>7 DEF OffersSecret, Offers, Ends, Becomes, Typed, RowTyped
  <2>8. CASE ExpirePending(r)
    BY <2>2, <2>3, <2>8 DEF ExpirePending, Ends, Becomes, Typed, RowTyped
  <2>9. CASE Confirms(r)
    BY <2>2, <2>4, <2>9 DEF Confirms, Promotes, Ends, Becomes
  <2>10. CASE TakesStep(r)
    BY <2>2, <2>4, <2>10 DEF TakesStep, Cleared, Becomes, Typed, RowTyped
  <2>11. CASE ClearFailures(r)
    BY <2>2, <2>4, <2>11 DEF ClearFailures, Cleared, Becomes, Typed, RowTyped
  <2>12. CASE SpendRecoveryCode(r)
    <3>1. r \in Looking
      BY <2>12 DEF SpendRecoveryCode, Looking
    <3>2. /\ totp'.failures = totp.failures
          /\ wrong' = wrong \/ wrong' = wrong + 1
          /\ \E W : req' = [req EXCEPT ![r] = W] /\ W.pc # "claim"
      BY <2>2, <2>12 DEF SpendRecoveryCode, Ends, Becomes
    <3>3. m' \in Nat /\ m' = m - 1
      BY <2>1, <3>1, <3>2
    <3> QED
      BY <1>0, <1>1, <3>2, <3>3
  <2>13. CASE Charges(r)
    <3>1. PICK W \in GoodReq, right \in BOOLEAN :
            /\ req' = [req EXCEPT ![r] = W]
            /\ W.pc = "claim" => right
            /\ wrong' = (IF totp.lock = "lapsed" THEN 0 ELSE wrong) + (IF right THEN 0 ELSE 1)
      BY <2>13 DEF Charges, Hands
    <3>2. totp'.failures = IF totp.lock = "lapsed" THEN 1 ELSE totp.failures + 1
      BY <2>13, RowCharged DEF Charges, Typed
    <3>3. /\ m' \in Nat /\ m' <= m + 1 /\ m' <= n
          /\ W.pc # "claim" => m' <= m /\ m' < n
      BY <2>1, <3>1
    <3>4. CASE right
      <4>1. CASE totp.lock = "lapsed"
        <5>1. wrong' \in Nat /\ wrong' < 1 /\ totp'.failures \in Nat /\ 0 < totp'.failures
          BY <3>1, <3>2, <3>4, <4>1
        <5> QED
          BY <1>0, <1>1, <3>3, <5>1
      <4>2. CASE totp.lock # "lapsed"
        BY <1>0, <1>1, <3>1, <3>2, <3>3, <3>4, <4>2
      <4> QED
        BY <4>1, <4>2
    <3>5. CASE ~right
      <4>1. W.pc # "claim"
        BY <3>1, <3>5
      <4>2. CASE totp.lock = "lapsed"
        <5>1. wrong' \in Nat /\ wrong' < 2 /\ totp'.failures \in Nat /\ 0 < totp'.failures
          BY <3>1, <3>2, <3>5, <4>2
        <5> QED
          BY <1>0, <1>1, <3>3, <4>1, <5>1
      <4>3. CASE totp.lock # "lapsed"
        BY <1>0, <1>1, <3>1, <3>2, <3>3, <3>5, <4>1, <4>3
      <4> QED
        BY <4>2, <4>3
    <3> QED
      BY <3>4, <3>5
  <2> QED
    BY <1>2, <2>5, <2>6, <2>7, <2>8, <2>9, <2>10, <2>11, <2>12, <2>13 DEF Step
<1>3. CASE LockLapses
  BY <1>3 DEF LockLapses, CountInv, Looking, At, Typed, RowTyped
<1>4. CASE UNCHANGED vars
  BY <1>4 DEF vars, CountInv, Looking, At
<1> QED
  BY <1>2, <1>3, <1>4, NextSteps

LEMMA InitCount == Init => CountInv
<1> SUFFICES ASSUME Init PROVE CountInv
  OBVIOUS
<1>1. Looking = {} /\ wrong = 0 /\ totp.failures = 0
  BY DEF Init, Looking, At, Idle
<1>2. Cardinality(Looking) = 0 /\ Cardinality(Requests) \in Nat \ {0}
  BY <1>1, LookingIsFinite, FS_EmptySet
<1> QED
  BY <1>1, <1>2 DEF CountInv

\* The lock closes after the allowed number of failures, however many requests
\* guess at the same time: beyond it lie only the guesses that were charged before
\* another request proved itself and cleared the count.
THEOREM GuessesStayBounded == Spec => []GuessesAreBounded
<1>1. Typed /\ CountInv => GuessesAreBounded
  BY LookingIsFinite, LimitsAreNumbers
  DEF Typed, RowTyped, CodesTyped, CountInv, GuessesAreBounded
<1> QED
  BY <1>1, InitCount, NextCounts, AlwaysTyped, PTL DEF Spec

=============================================================================
