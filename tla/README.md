# Orders, infrastructure and accounts: a verified model

This directory holds TLA+ models of the backend of a self-service portal for
hybrid-cloud infrastructure (`src/apps/backend/src/lib`), TLC configurations
that check them on small instances, and TLAPS proofs of most of their safety
properties for every instance. `L` below stands for `src/apps/backend/src/lib`,
`S` for `L/services`.

## 1. The system

A self-service portal for hybrid-cloud infrastructure. A project manager orders
N elements of a product for an environment; an administrator approves; the
backend inserts one row per element and fires CI pipelines (product webhooks
and pipeline stacks) for each; CI reports every pipeline back with one HTTP
callback; when all have succeeded the order is completed. Elements are torn
down later the same way. The backend is a set of stateless request handlers
over one PostgreSQL database: **there are few transactions across statements and
fewer locks**, mostly single-statement compare-and-swaps, so any two requests
interleave between any two `await`s. Around this core the same backend keeps
carts and budgets, accounts with sessions and second factors, delegations of
authority, deployment windows, and what scheduled plans say of drift.

### Inventory

| Component | State | Operations | Hard behaviour | What makes it correct |
|---|---|---|---|---|
| Order placement and fan-out (`S/orders.ts`) | `orders`, `infrastructure_elements` | place (direct or pending), provision the elements, write off a silent order | N triggers fired one by one while callbacks for the first arrive; one trigger or statement failing | nothing started ⇒ nothing left behind; something started ⇒ completed only when all of it succeeded |
| Approval (`approvals.ts`) | `orders.status` | approve, reject | competing approvers; the undo of a claim | one claim wins; an undone claim left nothing running |
| Pipeline tracking (`pipelineTracking.ts`) | `pipeline_id`, `pipeline_status` of orders and elements | begin, record, finish, clear, restore | a callback between any two of them; two runs on one row | the `triggering` entry is present exactly while a run fires |
| Callbacks and settling (`L/webhook/handler.ts`, `settle.ts`, `outputs.ts`) | the same rows, `outputs` | merge a success or a failure, record outputs, swap to `completed` / `decommissioned` | lost, duplicated, early, late, revised callbacks; a decision on a row that changes while job logs are read | no completion on a stale decision |
| CI triggers (`L/ci/webhooks.ts`, providers) | none | fire each trigger, report the id at once | some triggers fail; the report itself fails | a failed trigger is never forgotten |
| Deployment windows (`windowPolicy.ts`, `holidayFeed.ts`) | `orders.scheduled_for`, calendars | queue, release, deploy now | the sweep and root race | an order is requeued only if nothing started |
| Retry (`infrastructure.ts`) | orders and elements | claim a failed order, re-fire all active elements, rewrite them | a retry under a run that still fires | the two runs do not finish each other |
| Decommission, sweep (`infrastructure.ts`, `teardown.ts`) | element status and tracking | claim, fire destroys, settle, put back | button, sweep, project deletion and retry compete | destroy and apply exclude each other; `decommissioned` means destroyed |
| Project deletion (`projects.ts`) | `projects.retired_at` | destroy all elements, then retire | repeated after a partial failure | nothing keeps running unseen |
| Cart and checkout (`cart.ts`), budgets (`budgets.ts`) | `cart_items`, `orders` | add, edit, remove, check out, restore; the budget gate | two checkouts of overlapping lines; an edit under a restore; the gate reads before the insert | a line becomes at most one order and is never lost; by orders that go on counting, a budget is overshot only by what was in flight |
| Accounts and sessions (`S/admin/users.ts`, `auth.ts`, `sessions.ts`, `L/auth/sessions.ts`) | `users`, `sessions`, row locks | change a role, deactivate, sign in, change a password, end sessions | a sign-in while the account is changed; two roots who change each other | no session outlives the authority it was opened with |
| Second factor (`twoFactor.ts`, `webauthn.ts`, the enroll route) | `user_totp`, `user_recovery_codes`, `webauthn_credentials` | present a code, enrol, confirm, add and remove keys | one code in two requests; guesses in parallel; a factor confirmed between a check and its use | a code counts once, guesses are bounded, a factor is replaced only with proof |
| Delegations (`delegations.ts`) | `approval_delegations`, row locks | delegate, revoke | two delegations that together make a chain; locks taken in either order | authority travels one hop |
| Drift reports (`driftReports.ts`) | four refresh columns, `unclaimed_states`, `drift_report_state` | record a report | reports late, repeated and at once; elements come and go meanwhile | silence is not health; a reading never goes back |
| Window arithmetic (`deploymentWindows.ts`) | calendars, holidays | when may it deploy | midnight, days off, a change of the clocks | the first opening is the one answered |
| Trials, state keys, CI adapters, callback authentication, rate limits | small or none | clock arithmetic, strings, HTTP | none that an interleaving decides | - |
| Catalogue, administration, costs, audit, comments, schema, routes, frontend, shared types | their tables | CRUD, reports | none that an interleaving decides, except the account changes above | - |

Interaction: every component calls the next through functions and shares only
the database rows; CI is called over HTTP and answers through the callback
route. `handlePipelineEvent` and the fan-out meet in two columns,
`pipeline_id` and `pipeline_status`, and that meeting is the core of the system. Budgets
look at the orders a checkout inserts; windows decide when a claim is made;
drift and teardown meet in the status of an element. The remaining components
share only user rows.

## 2. The modules

| Module | Models | Built on |
|---|---|---|
| `PipelineTracking` | the two tracking columns and every write of them, as operators | - |
| `OrderRun` | one order from its submission to its verdict | `PipelineTracking` |
| `OrderLifecycle` | what an order promises: statuses, "something was started", "two requests overlapped" | abstract |
| `Teardown` | the elements of one order after they were provisioned | `PipelineTracking` |
| `ElementLifecycle` | what an element promises: its statuses, "a destroy was started", and what takes the promise away | abstract |
| `Checkout` | one shopper's cart, the checkouts of it and the budget gate | - |
| `CartLine` | what a cart promises about each line | abstract |
| `Accounts` | accounts, their sessions and the row locks between them | - |
| `SecondFactor` | the second factor of one administrator | - |
| `Delegations` | out-of-office substitutes and the row locks between them | - |
| `Drift` | the recording of drift reports while elements come and go | - |
| `Windows` | when an approved order may deploy | - |
| `OrderRunProofs`, `TeardownProofs`, `CheckoutProofs`, `AccountsProofs`, `SecondFactorProofs`, `DelegationsProofs`, `DriftProofs`, `WindowsProofs` | the theorems, each about the module it is named after | TLAPS |
| `MC...` | the symmetry sets and instances of the TLC runs | - |

`OrderRun` implements `OrderLifecycle`, `Teardown` implements `ElementLifecycle`
and `Checkout` implements `CartLine` (`LifecycleSpec`, `ElementLifecycleSpec`,
`CartLineSpec`). `OrderRun` and `Teardown` meet in the element
rows: `Teardown` starts where `OrderRun` leaves an element active, and reduces an
order to its status. `Checkout` ends with the inserted order whose start
`OrderRun` details, and `Windows` computes the instant `WindowClaim` waits for.

**Granularity.** Every SQL statement, CI call and job-log read is one action;
everything between two of them is local and is merged with the statement it
prepares. A statement of several columns, or with a guard in its WHERE, is one
action; a read followed by a write is two. Inside a transaction each statement
is still an action, because a plain read sees what others have committed
meanwhile; row locks are modelled where the code takes them. `StatusMap` keeps of the jsonb map
what its readers tell apart: the keys that hold `success`, those that hold
`failed`/`canceled`, whether `triggering` is there and whether any
`trigger-failed:i` is. (Which sentinel is never read.)

Definitions whose comment begins with "Mutant" or that stand next to an action
with a similar name are plausible mistakes; they are used only to see that each
property notices one.

**`OrderRun`.** `run[r]` is one request that claims the order: an approval, a
direct order, a released window or a retry; its `pc` names the next statement
of `approveOrder` / `createPreparedOrder` / `deployScheduledOrderNow` and
`releaseDueScheduledOrders` / `retryProvisioning` and, inside them, of
`provisionOrderElements`. `hnd[h]` is an event `handlePipelineEvent` has
matched to the order but not yet merged; `settle[x]` is any process inside
`settleOrderIfComplete`, with the map it decided on (`decided`) and the element
rows it read (`snap`). `rows` are the element rows, `ci` what CI really made
of each pipeline - the code never reads it. `owner` and `stale` are history
variables: who opened the tracking last, and whether any claim was made while
another run had not returned or a matched callback had not been merged.

| Code | Actions |
|---|---|
| `createPreparedOrder` | `PlacePending`, `PlaceDirect`, `UndoClaim` |
| `approveOrder`, `rejectOrder` | `ApproveClaim`, `ApproveDeploysNow`, `ApproveWaits`, `ApproveCannotDecide`, `ApproveAbandoned`, `UndoClaim`, `RejectOrder` |
| `deployScheduledOrderNow`, `releaseDueScheduledOrders` | `WindowClaim`, `AnythingStarted`, `Requeue` |
| `retryProvisioning` | `RetryClaim`, `RetrySiblings`, `RewriteElement`, `ReleaseRetryClaim` |
| `provisionOrderElements` | `BeginOrderTriggerRun`, `InsertElement`, `ElementFired`, `ElementThrows`, `PurgeElements`, `ClearOrderTriggerRun`, `FinishOrderTriggerRun` |
| `trigger*Tracked`, `reportStarted` | `TriggerStarts`, `TriggerFails`, `RecordOrderPipelineId`, `RecordLost` |
| `handlePipelineEvent` | `CallbackArrives`, `MergeSuccessEvent`, `MergeFailureEvent` |
| `settleOrderIfComplete`, `recordOutputs` | `SettleReads`, `SettleRecordsOutputs`, `SettleSwaps`, `CompletionUnaudited` |
| `markOrderFailed` | `WriteOffReads`, `WriteOffWrites` |
| the environment | `CallbackLost`, `CallbackRepeated`, `RunThrows`, `SettleThrows`, `RunDies`, `HandlerDies` |

`WriteOffReads` requires that no request is still firing: the code requires
`STUCK_ORDER_SILENCE_MS` without a write, and a request that fires writes the
order after each trigger while its HTTP calls time out much earlier.

**`Teardown`.** `tear[t]` is one request of `decommissionInfra`,
`sweepDueDecommissions` or `deleteProject` (`project`), walking its elements
(`todo`), inside `claimAndDestroy` and `fireDestroyTriggers`; `previous` is the
tracking it read to restore. `retry[r]` is `retryProvisioning` reduced to what
matters to elements: its claim, the choice of siblings, one apply per element,
the rewrite, the release. How the order itself reaches a verdict is
`OrderRun`'s subject; here it completes or fails in one step.

| Code | Actions |
|---|---|
| `decommissionInfra`, `sweepDueDecommissions`, `deleteProject` | `DecommissionInfra`, `SweepDueDecommissions`, `DeleteProject`, `RetireProject` |
| `claimAndDestroy` | `Claim`, `ClaimRefused`, `PutBack` |
| `begin/record/finish/restoreElement…` | `BeginReads`, `BeginElementTriggerRun`, `RecordElementPipelineId`, `RecordLost`, `FinishElementTriggerRun`, `RestoreElementTriggerRun` |
| `fireDestroyTriggers` | `DestroyStarts`, `DestroyFails`, `Unclaim` |
| `handlePipelineEvent`, `settleElementIfComplete` | `CallbackArrives`, `MergeSuccessEvent`, `MergeFailureEvent`, `SettleSwaps` |
| `retryProvisioning` | `RetryClaim`, `RetrySiblings`, `ApplyStarts`, `ApplyFails`, `RewriteElement`, `ReleaseRetryClaim` |
| the environment | `OrderCompletes`, `OrderFails`, `TearThrows`, `SettleThrows`, `PutBackFails`, `TearDies` |

`FellBack` is a history condition: a retry that found no active sibling took the
element it was asked for, whatever its status. From then on destroy and apply may
meet (section 4).

**`Checkout`.** A line is its quantity; an order remembers the line it came from,
whether it passed the gate of a `block` budget and has counted against it ever
since (`gated`), whether it is an administrator's own and needs no approval
(`direct`) and whether the shopper was told of it (`told`). Its status moves along
`Edges`: what an approval, a window, a run, a retry and a write-off make of it, of
which only `pending`, `provisioning` and `completed` count (`CommittedStatuses`). `req[r]` walks `checkoutCart` line by line: what it still
has to place (`todo`), what it must put back (`back`), the order it is placing.
`taken` is history: what a line held when it was claimed.

| Code | Actions |
|---|---|
| `addToCart`, `updateCartItem`, `removeFromCart`, `clearCart` | `AddToCart`, `UpdateCartItem`, `RemoveFromCart`, `ClearCart` |
| `checkoutCart` | `ReadCart`, `ClaimLines`, `GateLine`, `Notify` |
| `restoreCartItems` | `Restore` |
| `createOrder`, `createPreparedOrder` | `PlaceOrder`, `AskBudget`, `GateOrder`, `InsertOrder`, `StartSucceeds`, `StartFails` |
| approval, windows, retries and CI, reduced to what a budget sees | `OrderMoves` |
| the environment | `StatementFails`, `Die` |

**`Accounts`.** `lock[u]` is the transaction that holds the row of `u`; an insert of
a session waits for it because of the foreign key, every update because of the
row. `ended` counts the calls that were told they ended a session.

| Code | Actions |
|---|---|
| `checkLoginPassword`, `createSession` | `CheckLoginPassword`, `CreateSession`, `SignInFails` |
| `updateUser` | `UpdateUser`, `ReadForUpdate`, `CountRoots`, `WriteUser` |
| `changePassword` | `ChangePassword`, `WritePassword` |
| `revokeSession`, `revokeOtherSessions` | `ReadSession`, `RevokeSession`, `AskRevokeOthers`, `RevokeOtherSessions` |
| `validateSession` | `Validated`, the guard of each request that carries a session |

**`SecondFactor`.** A code of the app is the secret and the time step it was made
from; a set of recovery codes is one code, since codes of a set differ in nothing
a property sees. `offered` says how each secret came to be offered: not yet, as a
first factor, or after a code was proved. `spent` and `again` are history: codes
accepted once and twice; `wrong` counts the wrong codes since the count began.

| Code | Actions |
|---|---|
| `verifySecondFactor`, `verifyRecoveryCode`, `claimAttempt`, `clearFailures` | `PresentCode`, `RefuseCode`, `Refuse`, `Charge`, `ClaimStep`, `SpendRecoveryCode`, `ClearFailures`, `LockLapses` |
| the enroll route, `startEnrollment` | `EnrollFirst`, `EnrollAgain`, `StartEnrollment`, `EnrollmentFails` |
| `confirmEnrollment` | `ReadPending`, `ExpirePending`, `ChargeConfirmation`, `Promote` |
| `finishRegistration`, `removeCredential` | `CountKeys`, `AskForApp`, `StoreKey`, `CountRemaining`, `RefuseLast`, `RemoveCredential` |

**`Delegations`.**

| Code | Actions |
|---|---|
| `createDelegation` | `Nominate`, `LockUser` (twice, in either order), `MineAlready`, `HeldByMe`, `SubstituteDelegatedAway`, `InsertDelegation` |
| `revokeDelegation` | `ReadDelegation`, `RevokeDelegation` |
| PostgreSQL | `DeadlockDetected` (one of any circle of waiting transactions), `Abort` |

**`Drift`.** A report's `checkedAt` is its number. `applied` is history: the reports
whose result was written to an element; `alone` says that no other recording was
at work since this one began. Elements may come and go meanwhile.

| Code | Actions |
|---|---|
| `recordDriftReport` | `Partition`, `WriteElement`, `UpsertUnclaimed`, `ForgetClaimed`, `Reconcile`, `WriteState` |
| the element's own life | `ElementMoves` |
| CI, the environment | `Plan`, `Dies` |

**`Windows`.** Time is counted in hours, a zone is an offset that changes once by an
hour, and the walk of `nextWindowStart` over the days is one step a day:
`DeployNow` is `whenMayItDeploy` inside a window, `WalkDay` one day of the walk.
`Candidates` and `InstantOfLocal` translate the wall clock that is read twice, or
never, on the day of the change.

## 3. What the runs check

| Run | Instance | Distinct states | What it shows |
|---|---|---|---|
| `order_race` | 2 requests (approve, retry), 2 callbacks in flight, 1 element × 2 triggers, early callbacks, verdicts CI revises | 1.23 M | `OwnerHoldsTriggering`: the `triggering` entry stays while its owner fires; `CompletionIsClean`: the swap never completes on a map that changed |
| `order_verdict` | 2 requests of all kinds, 2 elements × 1 trigger, fair | 275 k | `VerdictReached`: a claimed order does not stay `provisioning`; `LifecycleSpec`: `OrderRun` implements `OrderLifecycle` |
| `order_faults` | 2 requests, 2 elements, callbacks lost, repeated and early, one failed statement, one death | 3.18 M | `QueuedOrderIsBlank`: a released claim leaves no rows and no pipeline; `NoForeignOutputs`; `EveryElementDeployed`: an order is completed when every trigger of the owning run has succeeded, under every delivery |
| `teardown_race` | 2 teardowns (button, sweep), 1 retry, 1 element × 2 triggers, fair | 657 k | `NoDestroyDuringApply`; `TeardownEnds` |
| `teardown_faults` | 2 teardowns (button, project), 2 callbacks, 2 failed statements, one death | 714 k | `DecommissionedIsDestroyed`; `ElementLifecycleSpec`: `Teardown` implements `ElementLifecycle` |
| `checkout` | 2 requests, 2 lines of up to 2 elements, a budget of 1, one failure, fair | 687 k | `SingleCustody`, `ConfirmedLineIsSpent`, `OvershootIsBounded`, `TakenLinesSettle`; `CartLineSpec`: `Checkout` implements `CartLine` |
| `accounts` | 2 requests, 2 roots, 2 sessions, fair | 109 k | `EndedOnce`, `ChangeEndsSessions`; `RequestsEnd`: no lock is left behind |
| `delegations` | 2 requests, 3 administrators, 2 days, 2 delegations | 490 k | `OneHop`, `OnePerGiver`; `NoStandstill`: of calls that wait for a row, one waits for a call still at work, or a circle is found |
| `second_factor` | 2 requests, 1 key, 2 secrets, 2 steps, 2 sets of recovery codes, 2 failures | 6.2 M | `AcceptedOnce`, `GuessesAreBounded`, `ReplacedWithProof` |
| `drift` | 2 recordings of 2 reports, 1 element with 2 state files | 4.63 M | `ReadingIsTrue`, `ReadingsMoveForward`; `CompleteRunReconciles`: also when elements come and go while the report is recorded |
| `windows` | days of 4 hours, offsets of up to 2, a walk of 3 days, up to 2 windows, any days off | 2.67 M | `AnswersTheFirstOpening`: the walk answers the first opening of the definition; `ScheduledReadsAStart`: that instant reads a window's start on a working day |
| `last_root` | as `accounts` | - | a violation of `SomeRootRemains` (section 4) |

Each module's `TypeOK` is checked by one of its runs.

**Bounds.** Two requests are enough for one to overtake the other, which is
what nearly every hazard listed needs. Two triggers (one webhook, one stack) are
the least for "one started, the other did not" and for "one reported while the
other is being fired"; two elements, the least for mixing them up. Two callback
handlers let one decide while the other changes the row. Three administrators are
the least for a chain of authority, two days for periods that meet in part only,
two secrets for a replacement, two failures for a lock that is not closed by the
first wrong code, two state files for an element that one result calls clean and
another drifted. A day of four hours leaves room for a window, its lunch break,
and an hour before and after; two hours of offset put a window on the UTC day
before and after its local day.

Two requests are *not* enough for everything: that `completed` is final fails
only with three. A retry that overlapped an earlier request and started nothing
hands the order back to `failed` by its id (`releaseRetryClaim`), also when the
other request completed it meanwhile, and a third has to have failed it first.
`OrderLifecycle` therefore knows `overlap` and allows `TakeBack` after one. With
three requests for one element and one trigger, `LifecycleSpec`,
`QueuedOrderIsBlank` and `EveryElementDeployed` hold as well (5.8 M states), and
the theorems of section 5 need no bound.

Counters (`MaxRuns`, `MaxTears`, `MaxSessions`, `MaxOrders`, `MaxDbFaults` and the
like) are bounded in the guards, never by a constraint, so the temporal
properties are checked on complete behaviours. Deadlock is not checked: the
requests of an instance are finite and it really comes to rest; that requests do
not wait for each other for ever is `RequestsEnd` in `Accounts` and `NoStandstill`
in `Delegations`.

**Conditions in the properties.** `EveryElementDeployed`, `VerdictReached` and
`OwnerHoldsTriggering` exclude claims made under an unfinished run or an
unmerged callback (`stale`), and `DecommissionedIsDestroyed` elements claimed
likewise. Those are not simplifications: without the conditions the properties
are false of the code, and section 4 states them without.
`EveryElementDeployed` and `QueuedOrderIsBlank` also need that no statement failed.
`OvershootIsBounded` speaks of the orders that passed the gate and have counted ever
since. Those of a root pass none; and an order that stops counting - because it
waits for its window, or failed - makes room for others and counts again, released
or retried, past no gate. How far such orders exceed a budget has no bound in the
code; section 4 states what a comment says of it. `CompleteRunReconciles` speaks of
recordings that no other recording ran into. `AcceptedOnce` does
not ask whose app a code belongs to; `AcceptedCodeIsCurrent` in section 4 does. `NoForeignOutputs` tells elements apart, not the runs of one
element.

**Fairness.** In `OrderRun`, `Teardown` and `Checkout`, `WF` for each request,
handler and settling process: Node executes a request whose promises resolve,
and the CI calls have time-outs. The fairness of a handler includes
`CallbackArrives`, which is CI's part: a pipeline ends and is reported once.
Therefore `order_verdict` has no lost and no early callback: one that overtakes
the recording of its id is dropped (`VerdictReached` is then false, and
`markOrderFailed` exists for it). In `Accounts`, `SF` for the steps of a request:
they wait for row locks that are released and taken again, and PostgreSQL grants a
lock in the order of asking. No fairness is assumed for starting requests, for CI
failures, for root, or in the modules without a liveness property.

## 4. Where the code does less than its comments say

`last_root` is a run TLC finds violated: `updateUser` counts the other active roots
"inside the same transaction and behind the FOR UPDATE", but locks only the row it
changes, so two roots who demote or deactivate each other at the same time each
count the other, and none is left (`PROJECT.json` quotes the comment).

The following properties are stated in the modules, and are false in the same
way. None has a run of its own; each is reproduced by naming it in a
configuration with the constants given.

| Property | Constants | What happens |
|---|---|---|
| `OrderRun!NoCompletionByEarlierRun` | `order_race` | A success matched before the order failed and was retried is merged into the retry's map; the swap compares maps, not runs, and completes the retry with the earlier run's success. |
| `OrderRun!HoldsTriggering` | `order_race` | An order fails while its first run is firing and is retried: the first run's closing statement, by order id alone, removes the retry's `triggering` entry. |
| `OrderRun!UndoneApprovalIsBlank` | `order_faults` | `approveOrder`'s catch also runs for errors after a trigger has started: the order is `pending` with a pipeline running. |
| `OrderRun!RequeuedOrderIsBlank` | `order_faults`, 2 failures | A swallowed failure to record an id makes `anythingStarted` answer no. |
| `Teardown!ClaimedTrackingIsOwn` | `teardown_race` | A teardown that started nothing releases the element before it restores the tracking; the next claim's tracking is overwritten. |
| `Teardown!PutBackIsUntouched` | `teardown_faults` | The catch of `claimAndDestroy` ("Destroy pipeline could not be started") runs for every error: when the read between the webhooks and the stacks fails, the element is `active` while its first destroy runs; when the audit entry after the swap fails, an element that is gone is `active` again. |
| `Teardown!RetiredProjectLeaksNothing` | `teardown_faults` | A blocked deletion, repeated, no longer sees the elements it had claimed and retires the project. |
| `Checkout!RestoredUnchanged` | `checkout`, `Budget = 1`, `MaxOrders = 1`, no failures | A checkout puts back what it read before it claimed the lines: an edit in between is lost. |
| `Checkout!GateCountsWhatIsAskedFor` | `checkout`, `Budget = 1`, no failures | "A budget check counts what has been asked for as well as what exists": an approved order that waits for its window is `scheduled`, which `COMMITTED_STATUSES` leaves out, so the gate lets another through in its place, and both are provisioned. |
| `Accounts!SessionsCarryTheRole` | `accounts` | A sign-in reads the role, the role is changed and all sessions are ended, and then the sign-in opens its session, with the old role. |
| `SecondFactor!AcceptedCodeIsCurrent` | `second_factor` | A code is compared with the secret that was read; the app is replaced before the step is claimed, and the code of the old app is accepted. |
| `SecondFactor!CodesAreAWayIn` | `second_factor` | Recovery codes are issued with a first security key, but refused unseen as long as no app is set up. |
| `SecondFactor!LastFactorStays` | `second_factor`, two keys | Two removals each count the other's key as the one that remains. |

Seen while modelling, without a property:

- `deleteProject` claims elements whose order is being provisioned: `NoDestroyDuringApply`
  fails with `Kinds = {"project"}`, and with `EarlyFailure = TRUE`, when an order fails
  while a retry is still firing. A retry without an active sibling falls back to
  the element it was asked for, even a decommissioned one, and from then on the
  exclusion is gone for later requests too (`FellBack`).
- For the same reason `deleteProject` can claim an element a retry is about to apply to;
  the retry then writes it back to `active` with its own pipelines, so
  `DecommissionedIsDestroyed` leaves such an element out (`Deploying`, part of `stale`).
- An offering without triggers leaves a torn-down element `decommissioning`.
- An order whose audit entry cannot be written is reported to the shopper as
  failed and its line put back, although the order exists (`StatementFails`).
- The comment at `delegations.ts:274` relies on locks taken in one order; the
  statement has no `ORDER BY`, so calls can wait for each other in a circle, and
  PostgreSQL has to end one of them (`DeadlockDetected`; without it `NoStandstill`
  fails). Nothing is lost by it but the request.
- A late complete drift report deletes the unclaimed observations a newer one has
  made, and a late report overwrites a newer observation of an unclaimed state.
- The clocks of most zones change on a Sunday, and `AnswersTheFirstOpening` is about
  changes between days off (`ChangesOnAnOffDay`). On a worked day, an approval in
  the last hour before a day of 23 hours does not find that day's windows; west of
  Greenwich a start inside the hour that does not exist is answered an hour early,
  where the comment says "just after the gap". `scheduled_for` is not recomputed
  when windows or holidays change later.
- Two first factors confirmed together issue recovery codes twice, and the first
  set that was shown is dead.

## 5. What is proved

For any number of requests, handlers, elements, triggers, accounts, lines or
reports, and any bound on faults:

| Module | Theorem | States |
|---|---|---|
| `OrderRunProofs` | `TypeCorrect` | `Spec => []TypeOK` |
| | `CompletionsAreClean` | `Spec => CompletionIsClean` |
| | `OwnersHoldTriggering` | `Spec => []OwnerHoldsTriggering` |
| | `OutputsAreOwn` | `Spec => []NoForeignOutputs` |
| | `WaitingOrdersAreBlank` | `Spec => []QueuedOrderIsBlank` |
| | `CompletedOrdersAreDeployed` | `Spec => EveryElementDeployed` |
| | `OrdersKeepTheirPromise` | `Spec => LifecycleSpec`, if no statement fails |
| `TeardownProofs` | `TypeCorrect` | `Spec => []TypeOK` |
| | `DestroyAndApplyExclude` | `Spec => []NoDestroyDuringApply`, without project deletion and early failures |
| | `DecommissionedAreDestroyed` | `Spec => DecommissionedIsDestroyed` |
| | `ElementsKeepTheirPromise` | `Spec => ElementLifecycleSpec` |
| `CheckoutProofs` | `TypeCorrect`, `CustodyIsSingle`, `ConfirmedIsSpent` | `Spec => []TypeOK`, `[]SingleCustody`, `[]ConfirmedLineIsSpent` |
| | `OvershootBounded` | `Spec => []OvershootIsBounded` |
| | `CartLineIsImplemented` | `Spec => CartLineSpec` |
| `AccountsProofs` | `TypeCorrect`, `SessionsEndOnce` | `Spec => []TypeOK`, `[]EndedOnce` |
| | `NoSessionOutlivesAChange` | `Spec => ChangeEndsSessions` |
| `SecondFactorProofs` | `TypeCorrect`, `CodesAreSingleUse`, `GuessesStayBounded` | `Spec => []TypeOK`, `[]AcceptedOnce`, `[]GuessesAreBounded` |
| | `ReplacementIsProved` | `Spec => ReplacedWithProof` |
| `DelegationsProofs` | `TypeCorrect`, `NobodyWaitsForEver` | `Spec => []TypeOK`, `[]NoStandstill` |
| | `AuthorityTravelsOneHop`, `AuthorityIsGivenOnce` | `Spec => []OneHop`, `[]OnePerGiver` |
| `DriftProofs` | `TypeCorrect`, `SilenceIsNotHealth`, `CompleteRunsReconcile` | `Spec => []TypeOK`, `[]ReadingIsTrue`, `[]CompleteRunReconciles` |
| | `NoReadingGoesBack` | `Spec => ReadingsMoveForward` |
| `WindowsProofs` | `TypeCorrect` | `Spec => []TypeOK` |
| | `ScheduledAtAStart`, `FirstOpeningIsAnswered` | `Spec => []ScheduledReadsAStart`, `[]AnswersTheFirstOpening` |

Assumptions: the named assumptions on the constants of each module (they say
what the comments of the constants say; `Checkout` and `Delegations` need their `Requests` finite, and
`Windows` at least one day to look at, of the 366 of the code), which TLC evaluates on
every run, and the conditions named above, which stand in the theorems. Two of those are needed:
section 4 shows the exclusion violated with project deletion or early failures.
`OrdersKeepTheirPromise` needs statements that do not fail because an approval
undone by an error is handed back with a pipeline running.

### The inductive invariants

**Types.** `OrderRun!TypeOK` is not inductive: the current element is
`FirstOf(todo)`, which means nothing for an empty `todo`, and a settling process may
be about to swap with any map. `Typed` adds `HasWork` (a run at a step that works on
an element has one, and its trigger number is in range when it records) and
`Clean` (a settling process holds a settled map). That `FirstOf` of a non-empty set
of rows is one of them rests on the well-foundedness of the naturals.
`CompletionsAreClean` follows: the swap requires the present map to equal the one
decided on, which is clean. `Teardown` needs the same of its walks, `Checkout` that a
request past the insert has an order, `SecondFactor` that a request carries the
fields its step reads and that an open lock means a count below the limit.

**The entry.** `OwnersHoldTriggering` needs `OwnerInv`: as long as no run was started
under another, at most one run is between claim and end, the owner is one that
has begun, and while it fires its entry is there; a run's settling process is
idle unless the run is at its last step. Without "at most one run" another run's
`finish` could remove the entry (`HoldsTriggering` in section 4).

**Deployed orders.** `DeployInv` holds as long as no run was started under another and no
statement failed. Forwards: what a run has yet to fire has no pipeline; what it has
been past is in the tracking, or the run notes that one was missed; the tracking
is its own, and `triggering` stays in it until the run is through. Once it is, and
nothing was missed, every trigger of every element is listed (`ClosedIsListed`).
`good` holds only what has succeeded, and so do the reports on their way to it
(`SuccessIsReported`); so a map without an entry left open is that of a deployed run.
Whoever decides on such a map may be overtaken, hence `DecidedIsDeployed`: the map it
holds is that of *some* deployed run, and a deployed run stays one.

**Outputs.** `OutputsAreOwn` needs `OwnPids`: the ids stored on a row, those a run
has collected for its current element, and those a settling process has in its
snapshot, are pipelines of that element. The property only speaks of
`outputs`; the ids pass through all three on the way.

**Waiting orders.** `WaitInv`: nobody works on an order that waits; a run that may
still undo its claim and has started nothing is alone, nothing was ever started,
and the rows that exist are its own; only such a run reaches the steps that hand
an order back; whoever may decide on the order does so because a pipeline was
started, or because every run has gone silent. The second conjunct carries the
proof: a run that undoes its claim writes by id alone, so that nobody else may
have touched the order has to be known, not checked.

**The refinement of an order.** A step maps to a step of `OrderLifecycle` or to none,
given `WaitInv`, `OwnerInv`, that a rejected order is nobody's, and
`RetryBarsCompletion`: while a retry that may still give up is the only run at work,
the order is not `completed` and its map keeps `triggering`, so nobody can complete
it. The last is why `releaseRetryClaim`, which writes by id alone, takes nothing
back from a completed order unless two requests overlapped.

**Destroy and apply.** `ExclusionInv`: a retry that is not over keeps its order
provisioning and is alone; what it covers is active, and no teardown between its
claim and its end holds an active element; an element is held by one teardown, and
a destroy that runs is the holder's, for an element that is not active. Without
`RunningIsHolders` a teardown could give an element back while an earlier destroy
of it still runs.

**Decommissioned elements.** `DestroyInv` says of every element that was not taken
under somebody with a write of it to make: only the request that claimed it last
holds it, and no retry covers it; what its row lists is of that request, or of an
apply, or has ended. While it is `decommissioning`, either nothing that is on its way
can complete its map (`Stuck`: the bracket is open, a trigger was missed, an apply
is listed, or all that is listed has ended and no callback is matched), or every
trigger of the holder is listed (`Complete`); so whoever finds the map settled, the
closing bracket or a callback, finds every destroy successful. It takes from
`Orderly` that `good` holds only what has succeeded, that an untried trigger has no
pipeline, and that a request decides only on what it holds. The tracking a request
remembers must be `Inert` as well: `Unclaim` makes the row `active` one statement
before the old tracking is back.

**The refinement of an element.** `LifeInv` adds to `DestroyInv` what a giver-back has to
know: a request lists among its `started` every destroy CI has of it while it
fires, and none when it is about to give up (`AllAccounted`); it is in the catch only
after an error (`ThrownOnError`); and what a retry covers stays active until somebody
claims it, which makes it `stale`, unless the retry fell back (`CoveredStayActive`).
Each element outside `stale` then takes a step of its own (`ElementSteps`). The
abstract element names what takes its promise away - `error`, `fallback`,
`overtaken` - so the theorem needs no condition.

**A line's custody.** `CustodyInv` adds that lines are numbered as they are issued, so
that a new one is nobody's. Each step is classified (`Quiet`, `Adds`, `Drops`, `Takes`,
`Returns`, `Orders`, `Tells`), and the invariant and the refinement are proved of the
kinds rather than of the actions.

**The budget.** `BudgetInv`: besides the bound itself, no line in the cart or in a request's
hands is longer than the largest line, and what passed the gate and is not inserted
yet fits the budget. What a request adds when it
passes the gate, it read as fitting; of all the others, each can have added one
line since. An order that stops counting leaves the sum for good, so that its
return past no gate does not enter it. Sums are over finite sets of requests and orders, which is why
`Requests` has to be finite: the lemmas on `Total` take one member away, or split a
set in two, by well-founded induction on its subsets (`SmallestSubset`).

**Accounts.** `DecidedOnWhatIs`: a request past its read still holds the row's lock,
and the row still has the role it read. Sessions opened meanwhile wait for the
lock, so the write ends all there are.

**Delegations.** `HopInv`: each of the three questions, once answered, stays
answered until the insert, because a delegation that would change the answer needs
one of the two rows this request has locked. For `NoStandstill`, `LocksAreHeld`: what
a transaction holds are its own two rows, and past the locks it holds both; and
`Lacking`: one that asks for locks lacks one. So a request that waits, waits for
another. If a set of requests waited only for each other, a smallest non-empty
one would be a circle, every member of which waits for a member and is waited
for by one, and `DeadlockDetected` would be open to it.

**Second factor.** `SecretInv`: a pending secret of an account with an app was proved,
and secrets whose codes may have been seen are never pending again. `OnceInv`: an
accepted step is not after the last one, an accepted recovery code is not unused.
`CountInv`: wrong codes and recovery codes still to be looked up stay below the
counted failures plus the number of requests; the difference are guesses charged
before another request proved itself and cleared the count.

**Drift.** `TrueOf(e)` says of the refresh columns which reports they come from;
`AloneOf(r)` says for each step of a recording that no other ran into which keys
`unclaimed_states` holds: elements that move change who owns a key, not the table.

**Windows.** `WalkInv`: the walk stands at a day it has not looked at, no window opens on
a day it has passed (`Walked`), and an answer was given at the first day that had one
(`Answered`). The rest is arithmetic of days and hours: division by a length of the
day that is not fixed is reduced to the two inequalities that define it, and the
two passes of `instantOfLocal` are told apart by the side of the change they land on.

Each strengthening was checked with TLC on an instance before it was proved.

**Only model-checked:** the liveness properties (`VerdictReached`, `TeardownEnds`,
`TakenLinesSettle`, `RequestsEnd`), since fairness and `ENABLED` are out of the
prover's reach. Every invariant and action property that a passing run checks is
proved.

## 6. What is not modelled

Inside the modelled components: audit entries and mails (except that a failing
audit entry is an error the caller sees), the content of job logs, CI variables,
state keys, quantities above the instance; in `OrderRun` more than one order, so
that the queue of a window is served oldest first; in `Teardown` lost or repeated
destroy callbacks, schedules, dying handlers and failing statements of a retry; in
`Checkout` budget periods and budgets that only warn; in `Accounts` the creation and
deletion of accounts and the expiry of sessions; in `SecondFactor` the ceremony of
a key, the challenge token and the arithmetic of a code; in `Windows` the holiday
feed. A CI call that throws is taken to have started nothing. A callback is
matched to an order *or* an element; a pipeline belongs to one of them.

Most of the repository's lines are not protocol code: the user interface and its
translations, the OpenAPI description, the schema, request validation,
administration of catalogue rows by single statements, reports, scripts and
deployment descriptors. They keep no state that an interleaving, a failure or an
order of calls decides, so a module of theirs could only restate them. The
components without a module are listed with the reason in `PROJECT.json`.

## 7. What is left

1. `Teardown` with schedules and with lost and repeated destroy callbacks.
2. Several orders of one window, released by two sweeps.
3. The expiry of sessions, and budgets with periods.

## 8. Running

    tlc -workers 2 -config order_race.cfg MCOrderRun
    tlc -workers 2 -config order_verdict.cfg MCOrderRun
    tlc -workers 2 -config order_faults.cfg MCOrderRun
    tlc -workers 2 -config teardown_race.cfg MCTeardown
    tlc -workers 2 -config teardown_faults.cfg MCTeardown
    tlc -workers 2 -config checkout.cfg MCCheckout
    tlc -workers 2 -config accounts.cfg MCAccounts
    tlc -workers 2 -config last_root.cfg MCAccounts
    tlc -workers 2 -config delegations.cfg MCDelegations
    tlc -workers 2 -config second_factor.cfg MCSecondFactor
    tlc -workers 2 -config drift.cfg MCDrift
    tlc -workers 2 -config windows.cfg MCWindows
    for m in OrderRunProofs TeardownProofs CheckoutProofs WindowsProofs \
             AccountsProofs SecondFactorProofs DelegationsProofs DriftProofs
    do tlapm $m.tla; done
