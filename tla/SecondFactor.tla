---------------------------- MODULE SecondFactor ----------------------------
(***************************************************************************)
(* The second factor of one administrator (services/twoFactor.ts,          *)
(* services/webauthn.ts and the enroll route): an authenticator app that   *)
(* is enrolled, used, replaced and locked, recovery codes, and security    *)
(* keys.  Sign-ins, enrolments, confirmations and removals of the account  *)
(* run at the same time; every statement is a step of its own.             *)
(*                                                                         *)
(* A code of the app is the secret it was made from and its time step, a   *)
(* set of recovery codes is one code.  When a code or an enrolment expires *)
(* is left open, so a code of any step may be presented at any time.       *)
(***************************************************************************)
EXTENDS Naturals, FiniteSets

CONSTANTS
  Requests,          \* requests of the account that may run at the same time
  Keys,              \* security keys
  MaxSecrets,        \* secrets ever offered; bounds the model
  MaxSteps,          \* time steps of codes; bounds the model
  MaxIssues,         \* sets of recovery codes ever issued; bounds the model
  MaxFailedAttempts  \* MFA_MAX_FAILED_ATTEMPTS

ASSUME SecondFactorAssumption ==
  /\ IsFiniteSet(Requests) /\ Requests # {}
  /\ {MaxSecrets, MaxSteps, MaxIssues} \subseteq Nat
  /\ MaxFailedAttempts \in Nat \ {0}

VARIABLES
  totp,    \* the user_totp row
  offered, \* how each secret came to be offered
  codes,   \* the unused recovery codes
  issued,  \* recovery codes ever issued
  keys,    \* webauthn_credentials
  req,     \* the requests being served
  spent,   \* history: the proofs that have been accepted
  again,   \* history: the proofs that have been accepted once more
  wrong    \* history: wrong codes looked at since failures were last cleared

vars == <<totp, offered, codes, issued, keys, req, spent, again, wrong>>

-----------------------------------------------------------------------------
None == 0
Secrets == 1 .. MaxSecrets
Steps == 1 .. MaxSteps

AppCode(secret, step) == [kind |-> "app", secret |-> secret, step |-> step]
RecoveryCode(id) == [kind |-> "recovery", id |-> id]
WrongCode == [kind |-> "wrong"]

Proofs ==
  [kind : {"app"}, secret : Secrets, step : Steps]
    \union [kind : {"recovery"}, id : 1 .. MaxIssues]
    \union {WrongCode}

\* What somebody can type in.  A secret that is neither in use nor pending never
\* comes back, so a code of it is a wrong one.
Presentable ==
  {p \in Proofs : /\ p.kind = "app" => p.secret \in {totp.secret, totp.pending}
                  /\ p.kind = "recovery" => p.id <= issued}

Idle == [pc |-> "idle"]
At(r, pc) == req[r].pc = pc
Takes(r, work) == At(r, "idle") /\ req' = [req EXCEPT ![r] = work]
Becomes(r, work) == req' = [req EXCEPT ![r] = work]
Ends(r) == Becomes(r, Idle)

Confirmed == totp.secret # None

\* replaceRecoveryCodes: the old ones go, used or not.
ReplaceRecoveryCodes ==
  /\ issued < MaxIssues
  /\ issued' = issued + 1
  /\ codes' = {issued + 1}

Accept(proof) ==
  /\ spent' = spent \union {proof}
  /\ again' = again \union ({proof} \intersect spent)

-----------------------------------------------------------------------------
Init ==
  /\ totp = [secret |-> None, pending |-> None, lastStep |-> 0,
             failures |-> 0, lock |-> "open"]
  /\ offered = [s \in Secrets |-> "no"]
  /\ codes = {}
  /\ issued = 0
  /\ keys = {}
  /\ req = [r \in Requests |-> Idle]
  /\ spent = {}
  /\ again = {}
  /\ wrong = 0

-----------------------------------------------------------------------------
(* The attempt counter                                                     *)

LockLapses ==
  /\ totp.lock = "locked"
  /\ totp' = [totp EXCEPT !.lock = "lapsed"]
  /\ UNCHANGED <<offered, codes, issued, keys, req, spent, again, wrong>>

NextCountOnAndOn == totp.failures + 1

\* A lapsed lock starts the count again.
NextCount == IF totp.lock = "lapsed" THEN 1 ELSE totp.failures + 1

Charged ==
  [totp EXCEPT !.failures = NextCount,
               !.lock = IF NextCount >= MaxFailedAttempts THEN "locked" ELSE "open"]

\* The first form of the gate: the lock as it was when the row was read.
ClaimedAsRead(r) == req[r].lock # "locked"

\* The WHERE of claimAttempt, on the row as it is.
Claimed(r) == totp.lock # "locked"

\* claimAttempt, and the code is looked at: a right one goes on to 'then', a
\* wrong one has been counted.
ClaimAttempt(r, right, then) ==
  \/ /\ ~Claimed(r)
     /\ Ends(r)
     /\ UNCHANGED <<totp, wrong>>
  \/ /\ Claimed(r)
     /\ totp' = Charged
     /\ wrong' = (IF totp.lock = "lapsed" THEN 0 ELSE wrong) + (IF right THEN 0 ELSE 1)
     /\ IF right THEN Becomes(r, then) ELSE Ends(r)

Cleared(row) == [row EXCEPT !.failures = 0, !.lock = "open"]

-----------------------------------------------------------------------------
(* Verifying a code: at a sign-in, or to replace the app                   *)

\* What an accepted code is for: the session, or the offer of a new secret.
After(purpose) == IF purpose = "login" THEN Idle ELSE [pc |-> "offer", proved |-> TRUE]

Verification(purpose, proof) ==
  [pc |-> "charge", purpose |-> purpose, proof |-> proof,
   secret |-> totp.secret, lock |-> totp.lock]

\* completeMfaLogin with a code; loadRow finds a confirmed secret.
PresentCode(r, proof) ==
  /\ Confirmed
  /\ Takes(r, Verification("login", proof))
  /\ UNCHANGED <<totp, offered, codes, issued, keys, spent, again, wrong>>

\* The account has a factor and asks for a code, but no app: 'No second factor is
\* set up for this account.'
RefuseCode(r, proof) ==
  /\ ~Confirmed
  /\ keys # {}
  /\ Takes(r, [pc |-> "refuse", proof |-> proof])
  /\ UNCHANGED <<totp, offered, codes, issued, keys, spent, again, wrong>>

Refuse(r) ==
  /\ At(r, "refuse")
  /\ Ends(r)
  /\ UNCHANGED <<totp, offered, codes, issued, keys, spent, again, wrong>>

\* A code of the app is checked against the secret that was read; a recovery code
\* is taken by its shape and looked up when it is spent.
Charge(r) ==
  LET p == req[r].proof
  IN /\ At(r, "charge")
     /\ ClaimAttempt(r, \/ p.kind = "app" /\ p.secret = req[r].secret
                        \/ p.kind = "recovery",
                     [pc |-> "claim", purpose |-> req[r].purpose, proof |-> p])
     /\ UNCHANGED <<offered, codes, issued, keys, spent, again>>

ClaimStepUnconditionally(r) ==
  LET p == req[r].proof
  IN /\ At(r, "claim") /\ p.kind = "app"
     /\ totp' = [Cleared(totp) EXCEPT !.lastStep = p.step]
     /\ Accept(p)
     /\ wrong' = 0
     /\ Becomes(r, After(req[r].purpose))
     /\ UNCHANGED <<offered, codes, issued, keys>>

\* The step is claimed by a conditional UPDATE, which also clears the failures.
ClaimStep(r) ==
  LET p == req[r].proof
  IN /\ At(r, "claim") /\ p.kind = "app"
     /\ \/ /\ totp.lastStep < p.step
           /\ totp' = [Cleared(totp) EXCEPT !.lastStep = p.step]
           /\ Accept(p)
           /\ wrong' = 0
           /\ Becomes(r, After(req[r].purpose))
        \/ /\ totp.lastStep >= p.step
           /\ Ends(r)
           /\ UNCHANGED <<totp, spent, again, wrong>>
     /\ UNCHANGED <<offered, codes, issued, keys>>

\* verifyRecoveryCode: the UPDATE finds an unused code, and the failures are
\* cleared by a statement of its own.
SpendRecoveryCode(r) ==
  LET p == req[r].proof
  IN /\ At(r, "claim") /\ p.kind = "recovery"
     /\ \/ /\ p.id \in codes
           /\ codes' = codes \ {p.id}
           /\ Accept(p)
           /\ Becomes(r, [pc |-> "clear", purpose |-> req[r].purpose])
           /\ UNCHANGED wrong
        \/ /\ p.id \notin codes
           /\ Ends(r)
           /\ wrong' = wrong + 1
           /\ UNCHANGED <<codes, spent, again>>
     /\ UNCHANGED <<totp, offered, issued, keys>>

ClearFailures(r) ==
  /\ At(r, "clear")
  /\ totp' = Cleared(totp)
  /\ wrong' = 0
  /\ Becomes(r, After(req[r].purpose))
  /\ UNCHANGED <<offered, codes, issued, keys, spent, again>>

-----------------------------------------------------------------------------
(* Enrolling an app                                                        *)

\* The enroll route: requiresSecondFactor decides whether a code has to be proved.
EnrollFirst(r) ==
  /\ ~Confirmed /\ keys = {}
  /\ Takes(r, [pc |-> "offer", proved |-> FALSE])
  /\ UNCHANGED <<totp, offered, codes, issued, keys, spent, again, wrong>>

EnrollAgain(r, proof) ==
  /\ Confirmed
  /\ Takes(r, Verification("enroll", proof))
  /\ UNCHANGED <<totp, offered, codes, issued, keys, spent, again, wrong>>

Offers(r, s) ==
  /\ totp' = [totp EXCEPT !.pending = s]
  /\ offered' = [offered EXCEPT ![s] = IF req[r].proved THEN "proved" ELSE "first"]
  /\ Ends(r)

StartUnconditionally(r, s) ==
  /\ At(r, "offer")
  /\ offered[s] = "no"
  /\ Offers(r, s)
  /\ UNCHANGED <<codes, issued, keys, spent, again, wrong>>

\* startEnrollment: an upsert, conditioned on confirmed_at IS NULL when nothing
\* had to be proved.
StartEnrollment(r, s) ==
  /\ At(r, "offer")
  /\ offered[s] = "no"
  /\ \/ /\ req[r].proved \/ ~Confirmed
        /\ Offers(r, s)
     \/ /\ ~req[r].proved /\ Confirmed
        /\ Ends(r)
        /\ UNCHANGED <<totp, offered>>
  /\ UNCHANGED <<codes, issued, keys, spent, again, wrong>>

EnrollmentFails(r) ==
  /\ At(r, "offer")
  /\ Ends(r)
  /\ UNCHANGED <<totp, offered, codes, issued, keys, spent, again, wrong>>

\* confirmEnrollment reads the pending secret: still good, or expired.
ReadPending(r, proof) ==
  /\ totp.pending # None
  /\ \/ Takes(r, [pc |-> "confirm", pending |-> totp.pending, proof |-> proof, lock |-> totp.lock])
     \/ Takes(r, [pc |-> "expire", pending |-> totp.pending])
  /\ UNCHANGED <<totp, offered, codes, issued, keys, spent, again, wrong>>

ExpirePending(r) ==
  /\ At(r, "expire")
  /\ totp' = IF totp.pending = req[r].pending THEN [totp EXCEPT !.pending = None] ELSE totp
  /\ Ends(r)
  /\ UNCHANGED <<offered, codes, issued, keys, spent, again, wrong>>

ChargeConfirmation(r) ==
  LET p == req[r].proof
  IN /\ At(r, "confirm")
     /\ ClaimAttempt(r, p.kind = "app" /\ p.secret = req[r].pending,
                     [pc |-> "promote", pending |-> req[r].pending, proof |-> p])
     /\ UNCHANGED <<offered, codes, issued, keys, spent, again>>

Promotes(r) ==
  /\ totp' = [secret |-> req[r].pending, pending |-> None, lastStep |-> req[r].proof.step,
              failures |-> 0, lock |-> "open"]
  /\ ReplaceRecoveryCodes
  /\ Accept(req[r].proof)
  /\ wrong' = 0
  /\ Ends(r)

\* One transaction, conditioned on the pending secret still being the one read.
Promote(r) ==
  /\ At(r, "promote")
  /\ \/ totp.pending = req[r].pending /\ Promotes(r)
     \/ /\ totp.pending # req[r].pending
        /\ Ends(r)
        /\ UNCHANGED <<totp, codes, issued, spent, again, wrong>>
  /\ UNCHANGED <<offered, keys>>

-----------------------------------------------------------------------------
(* Security keys                                                           *)

\* finishRegistration, its ceremony verified: is there a key already ...
CountKeys(r, k) ==
  /\ k \notin keys
  /\ Takes(r, IF keys = {} THEN [pc |-> "first", key |-> k]
              ELSE [pc |-> "store", key |-> k, first |-> FALSE])
  /\ UNCHANGED <<totp, offered, codes, issued, keys, spent, again, wrong>>

\* ... or an app?
AskForApp(r) ==
  /\ At(r, "first")
  /\ Becomes(r, [pc |-> "store", key |-> req[r].key, first |-> ~Confirmed])
  /\ UNCHANGED <<totp, offered, codes, issued, keys, spent, again, wrong>>

\* One transaction; a credential id is unique.
StoreKey(r) ==
  /\ At(r, "store")
  /\ Ends(r)
  /\ \/ /\ req[r].key \notin keys
        /\ keys' = keys \union {req[r].key}
        /\ IF req[r].first THEN ReplaceRecoveryCodes ELSE UNCHANGED <<codes, issued>>
     \/ req[r].key \in keys /\ UNCHANGED <<keys, codes, issued>>
  /\ UNCHANGED <<totp, offered, spent, again, wrong>>

\* removeCredential: what would remain is counted, then the app is looked for.
CountRemaining(r, k) ==
  /\ k \in keys
  /\ Takes(r, IF Cardinality(keys) = 1 THEN [pc |-> "last", key |-> k]
              ELSE [pc |-> "remove", key |-> k])
  /\ UNCHANGED <<totp, offered, codes, issued, keys, spent, again, wrong>>

RefuseLast(r) ==
  /\ At(r, "last")
  /\ IF Confirmed THEN Becomes(r, [pc |-> "remove", key |-> req[r].key]) ELSE Ends(r)
  /\ UNCHANGED <<totp, offered, codes, issued, keys, spent, again, wrong>>

RemoveCredential(r) ==
  /\ At(r, "remove")
  /\ keys' = keys \ {req[r].key}
  /\ Ends(r)
  /\ UNCHANGED <<totp, offered, codes, issued, spent, again, wrong>>

-----------------------------------------------------------------------------
Arrives(r) ==
  \/ \E p \in Presentable :
       PresentCode(r, p) \/ RefuseCode(r, p) \/ EnrollAgain(r, p) \/ ReadPending(r, p)
  \/ EnrollFirst(r)
  \/ \E k \in Keys : CountKeys(r, k) \/ CountRemaining(r, k)

Proceeds(r) ==
  \/ Refuse(r) \/ Charge(r) \/ ClaimStep(r) \/ SpendRecoveryCode(r) \/ ClearFailures(r)
  \/ \E s \in Secrets : StartEnrollment(r, s)
  \/ EnrollmentFails(r)
  \/ ExpirePending(r) \/ ChargeConfirmation(r) \/ Promote(r)
  \/ AskForApp(r) \/ StoreKey(r)
  \/ RefuseLast(r) \/ RemoveCredential(r)

Next ==
  \/ LockLapses
  \/ \E r \in Requests : Arrives(r) \/ Proceeds(r)

Spec == Init /\ [][Next]_vars

-----------------------------------------------------------------------------
(* Properties                                                              *)

Purposes == {"login", "enroll"}
Locks == {"open", "locked", "lapsed"}
SecretsOrNone == Secrets \union {None}

ReqType ==
  [pc : {"idle"}]
  \union [pc : {"charge"}, purpose : Purposes, proof : Proofs, secret : Secrets, lock : Locks]
  \union [pc : {"refuse"}, proof : Proofs]
  \union [pc : {"claim"}, purpose : Purposes, proof : Proofs]
  \union [pc : {"clear"}, purpose : Purposes]
  \union [pc : {"offer"}, proved : BOOLEAN]
  \union [pc : {"confirm"}, pending : Secrets, proof : Proofs, lock : Locks]
  \union [pc : {"expire"}, pending : Secrets]
  \union [pc : {"promote"}, pending : Secrets, proof : Proofs]
  \union [pc : {"first", "last", "remove"}, key : Keys]
  \union [pc : {"store"}, key : Keys, first : BOOLEAN]

\* Every variable has its type, nobody uses a secret that was not offered, and the
\* factor is open exactly while the count is below its limit: a count never runs
\* past the limit, a lock that has lapsed included.
TypeOK ==
  /\ totp \in [secret : SecretsOrNone, pending : SecretsOrNone,
               lastStep : 0 .. MaxSteps, failures : 0 .. MaxFailedAttempts, lock : Locks]
  /\ totp.lock = "open" <=> totp.failures < MaxFailedAttempts
  /\ offered \in [Secrets -> {"no", "first", "proved"}]
  /\ \A s \in Secrets : s \in {totp.secret, totp.pending} => offered[s] # "no"
  /\ issued \in 0 .. MaxIssues
  /\ codes \subseteq 1 .. issued
  /\ keys \subseteq Keys
  /\ req \in [Requests -> ReqType]
  /\ spent \subseteq Proofs /\ again \subseteq spent
  /\ wrong \in Nat

\* "A code is single-use": neither a recovery code nor a code of the confirmed app
\* is accepted twice, the code that confirmed the app included.
AcceptedOnce == \A p \in again : p.kind = "app" /\ p.secret # totp.secret

\* However many requests guess together, the lock closes after the allowed number
\* of failures; what was charged before it closed is all that may be added.
GuessesAreBounded == wrong <= MaxFailedAttempts + Cardinality(Requests) - 1

\* "Re-enrollment always costs a second factor": a confirmed app is replaced only
\* by an offer that was proved, and only while that offer is the latest.
ReplacedWithProof ==
  [][(totp.secret # None /\ totp'.secret # totp.secret) =>
       offered[totp'.secret] = "proved" /\ totp'.secret = totp.pending]_vars

\* "The recovery codes are the only other way in": an unused code of the set the
\* account was shown with its first factor, "key or authenticator app", is not
\* refused unseen.
CodesAreAWayIn ==
  \A r \in Requests : At(r, "refuse") =>
    ~(req[r].proof.kind = "recovery" /\ req[r].proof.id \in codes)

\* A code that is accepted is one of the app the account has at that moment: the claim
\* of a step does not ask which secret the code was compared with.
AcceptedCodeIsCurrent ==
  [][\A p \in spent' \ spent : p.kind = "app" => p.secret = totp'.secret]_vars

\* "The one thing you cannot remove is the last factor on the account."
LastFactorStays ==
  [][(Confirmed \/ keys # {}) => (totp'.secret # None \/ keys' # {})]_vars
=============================================================================
