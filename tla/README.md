# A formal model of Moonsconfig

Moonsconfig is a multi-tenant travel CRM: an Express API and BullMQ workers in
`src/server`, a web client in `src/client`, MySQL behind Prisma, and Redis. This
directory models the parts of the server in which several requests, workers and
servers act on the same rows, checks them with TLC on small instances and proves
the most important results with TLAPS for every instance.

Paths below are relative to `src/server/src` unless they start with `src/`.

## Components

The server keeps its state in database rows and a few Redis keys. Almost every
operation is a sequence of awaits between which any other request may run, and
transactions are used only around some of the writes. That is where the hard
behaviour is.

| Component | State | Operations | Hard behaviour | What makes it correct |
|---|---|---|---|---|
| Maya action governance (`maya/governance/*`, `services/mayaActionReviewService.ts`) | proposal and execution rows | propose, review, execute, expire | reviews that race, expiry between read and write, kill switch | each effect has an approval of its own, in time and with MFA for high risk |
| Travel event outbox (`services/travelAutomationService.ts`, `travelEventService.ts`) | outbox rows, automation runs | append, list, claim, retry, dead-letter | overlapping batches with stale lists, death after the claim, retries | one handler at a time, the bound on attempts, every event settles |
| Maintenance scheduling (`cron/scheduler.ts`, `workers/maintenanceWorker.ts`) | Redis slot keys, BullMQ jobs, execution rows | cron tick, lock, add, run, complete, fail | several servers per tick, stalled and retried jobs, death between lock and add | the work of a tenant and minute runs at most once and is recorded |
| Incident recovery (`services/incidentRecoveryService.ts`, `voice/ariService.ts`) | recovery, vendor attempts, calls, updates by key | start, contact, answer, sweep, call, confirm | request, outbox event, sweep, answers and calls in any order | the fallback keeps its order, the traveller is told what comes next |
| Refresh tokens (`services/authService.ts`, `customerAuthService.ts`, `platformAuthService.ts`) | token rows of a family | login, refresh, logout, end sessions, expire | two refreshes with one token, revocation under a refresh | one successor per token, an ended family stays ended |
| Fleet migration rollout (`services/migrationRolloutService.ts`) | rollout, per-tenant rows, queue jobs | create, start, pause, advance, retry, process | calls that overlap, a worker that dies or is slow, identifiers the queue still knows | a stage starts only after the one before it, one worker per tenant |
| Billing (`services/billingService.ts`, `billingInvoiceService.ts`) | subscription rows, events, invoices | checkout, webhooks, reconcile, cancel | webhooks repeated and out of order, a reconciliation between them | a charge has its invoice, the ledger follows the provider |
| Account lifecycle (`services/platformLifecycleService.ts`, `accountLifecycleService.ts`) | tenant row, trial, deletion requests | scan, suspend, reactivate, request and cancel deletion, purge | the scan reads, calls write, the scan writes | data is purged only after a retention that ran out |
| Provisioning (`services/platformRegistrationService.ts`, `tenantProvisioningService.ts`) | tenant, link, job row, queued jobs, parts of the workspace | register, verify, activate, build, retry, cancel, sell a contract by hand | death after any statement, repeated links, two runs of one job, a lane that is only slow | the trial begins on a complete workspace; repetitions do not multiply subscriptions; a registration is decided |
| Seats and members (`services/invitationService.ts`, `platformBusinessService.ts`, `platformAdminService.ts`) | memberships, invitations, quota version | invite, accept, resend, revoke, suspend, remove, transfer, delete the company | two invitations for the last seat, a count in several reads, acceptance of a lapsed invitation | the plan's seats are not exceeded, nobody is invited twice |
| Quotes and trip plans (`services/quoteVersionService.ts`, `tripPlanService.ts`) | versioned rows | new version, accept | version computed from a read | versions are unique, one is current |
| MFA challenges (`services/mfaService.ts`) | challenges, attempts, last time step | create, verify, recover | two verifications of one code | a code is spent once |
| Backups and exports | a status row and an object in storage | request, run, expire | death between the two | no completed row without its object |

How they meet: a review appends `MayaActionApproved` to the outbox in its own
transaction, and the outbox calls the executor. Opening an incident starts the
recovery directly and appends `IncidentOpened`, which starts it again from the
outbox. The cron scheduler queues the maintenance job that runs an outbox batch,
which expires proposals and runs the recovery sweep. Reviews of high risk look
at the MFA time that token families carry over from login. Provisioning creates
the trial with which the life of an account begins; billing and the lifecycle scan
write the same tenant row and are therefore one module. A rollout migrates the
tenants that provisioning has made.

The other parts (conversation with the language model, pricing rules, adapters of
telephony, mail and storage, single sign-on, CRUD operations, the web client and
the deployment scripts) are listed in `PROJECT.json` with the reason why they are
not modelled: one statement per operation, or outcomes that external services
decide.

## Modules

| Module | Role |
|---|---|
| `MayaGovernance` | proposals, reviews, executor and the outbox that joins them |
| `ApprovalLedger` | the abstract promise: a use spends a grant |
| `MayaGovernanceProofs` | eight theorems about the two |
| `MaintenanceSchedule` | scheduler, queue, worker |
| `MaintenanceScheduleProofs` | five theorems about it |
| `IncidentRecovery` | recovery of one incident |
| `RefreshTokens` | the rotation of tokens for staff, customers and platform users |
| `RefreshTokensProofs` | five theorems about it |
| `IncidentRecoveryProofs` | two theorems about the recovery |
| `MigrationRolloutProofs` | five theorems about the rollout and `StagedRollout` |
| `TenantProvisioningProofs` | four theorems about provisioning |
| `TenantAccountProofs` | three theorems about the account |
| `StaffMembershipProofs` | three theorems about seats and members |
| `MigrationRollout` | a migration over the fleet, its queue and workers |
| `StagedRollout` | the abstract promise: stage by stage, migrated stays migrated |
| `TenantProvisioning` | registration, links, the job that builds a workspace |
| `TenantAccount` | subscription, reconciliation, trial, hold, deletion and purge of one tenant |
| `StaffMembership` | invitations, seats, members and the owner of one tenant |
| `MC...` | the constants and symmetry sets of the runs |

In all of them one action is one database statement or one transaction, or one
step of an external service, together with the purely local code around it.
Everything else interleaves.

### MayaGovernance

One tenant. A proposal is identified by its idempotency key and has a fixed risk
class. `LookUp` and `Create` are the two halves of `governMayaTool`
(`actionService.ts`; for `high_risk`, the customer's cancellation request), so two
callers may look up before either creates. A low-risk write is performed by its
caller (`CallerPerforms`, `CallerRecords`).
`OpenReview` reads the row and decides; `Approve` and `Reject` are the later
transactions, which read neither status nor expiry. `AppendEvent` is an upsert that
leaves an existing event alone. A dispatcher batch expires proposals, lists the due
events (`SelectDue`), claims one at a time by a conditional update (`ClaimEvent`),
upserts the run (`StartRun`) outside the try block, and calls the executor, whose
statements are `ReadProposal` to `Finish`. `HandlerThrows` is an exception inside
the try block, `WorkerStops` a death or an exception outside it.
The variables `approvals`, `timely`, `unverified`, `claims` and `effects` are history.

The proposal's text, the tool's arguments and the audit rows are abstracted. A
tool may report a failure and have had its effect; the two high-risk tools are
transactions and may not.

### MaintenanceSchedule

A slot is a tenant and a minute. `Fire` is the cron callback of a server, `Lock` the
`SET NX`, `Add` the BullMQ add that ignores a known job id. `StartRow` creates the
execution row under its unique key, outside the try block, so a second attempt is
refused by the first one's row. BullMQ is external: delayed retries, the attempt
bound and one recovery of a stalled job, as the queue options in the source ask
for. Redis keys do not expire inside a run of the model, because they outlive the
minute they name. `lost` records slots whose server died between lock and add.

### IncidentRecovery

One incident. A thread is a request, an outbox batch or a telephone call that runs
one of the handlers; `pc` and `todo` are what is left of it. `FindAttempt`,
`CreateAttempt` and `Announce` are `contactVendor`; `RecordAnswer`, `Settle` and
`CountActive` are `recordVendorResponse`; `SweepLists`, `TimeOut`, `CountAssigned`
and `ReviewAlternatives` are the sweep. `TellLooksUp` and `TellCreates` are the two
halves of `recordCustomerUpdate`: the loser of the race for the unique key throws,
as in the code. `Dial`, `Redial`, `Connect`, `Ask`, `HangUp` are the call worker and
the telephony callbacks, which write the attempt's status unconditionally. A call whose
vendor has pressed a key waits for `recordVendorResponse` (`BeingRecorded`) and then hangs
up, or goes through its `catch` (`FailsToThank`), which writes `awaiting_response` over
whatever the row says, also when the answer was recorded and only the thanks failed.
A sweep finds any nonempty set of active rows due, which covers every timing.

The sweep is modelled for one incident. The code first times out the attempts of all
incidents and then goes through them in a loop, which a throw ends: if one incident's sweep
loses the race for an update's key, the incidents after it are left without a next step.
For the incident of the model that is a sweep that ends for an outside reason (`Fail`), and
the properties about the traveller except it by name.

Left out: `incident_alternatives` rows, mail and SMS copies, delivery receipts, and
the five-minute window that folds repeated reports into one incident.

### RefreshTokens

A family is a login. `Present` reads the row and `NextStep` is what the code decides
on it. `Rotate` is the transaction of `rotateRefreshToken`, which revokes only a live
token; `RotateFails` is the `catch` around it, which does not know whether the token
was gone or the database failed. `ReadMember`, `RevokeCurrent` and `Issue` are the
three awaits of the platform's refresh. `EndFamily`, `Logout`, `EndSessions`,
`DeleteExpired` and `DeletePlatform` are single statements. `raced` records families
in which a request overlapped another one or the end of the family. Only the platform's
rows are excused by it (`Sequential`), because its refresh looks at the token once.
`excused` holds the tokens that give a reason for an alarm: presented twice, taken away by
a logout or the end of all sessions, or with a rotation the database failed. What an
alarm itself revokes is no reason for an alarm.

Left out: everything before a login (passwords, one-time codes, single sign-on, MFA),
access tokens, and the removal of an account with its rows.

### MigrationRollout

One rollout. A call of an operator is a look (`Look`, with the code's checks) and one
write per statement (`WriteStart`, `WritePause`, `WriteAdvance`, ...), then
`EnqueueStage`, whose read and adds are one step; `ServerDies` may cut it after any of
the adds. A start whose first stage is empty goes on as an advance (`LookAgain`).
`Claim` is the conditional update under which a worker takes a target, `Deploy` the
migration of the tenant's database, `RecordCompleted` and `RecordFailed` what is written
after it. BullMQ is external: it ignores identifiers it knows (`Added`), hands a stalled
job on once (`Stall`) although its worker may only be slow, and removes ended jobs
(`Forget`). `StageOf` computes the stages with the code's rounding. `StagedRollout` is
the abstract specification; the refinement maps a target with an attempt to `touched`,
a completed one to `migrated`.

### TenantProvisioning

One company. `Register` is one transaction; `OpenVerification`/`Verify` and
`OpenActivation`/`Activate` are the reads and the transactions of the two links, and
`Enqueue` the add that follows the commit. `Recover` is what a worker does when it
starts. `Take`, `Start`, `MakePart`, `Finish`, `Report` are a run of `provisionTenant`;
its first reads are one step, and each group of idempotent statements is one part. The
trial is an upsert and the subscription an insert, so the subscriptions are counted.
`Throw` fails into the `catch` (`RecordFailure`), `ThrowOutside` does not;
`StartUnanswered` and `FinishUnanswered` are transactions that were committed although the
caller sees an error. Operators ask and then write (`AskRetry`/`ResetForRetry`,
`AskKeyedRetry`/`ResetForKeyedRetry`, `AskCancel`/`Cancel`), or sell a contract, which
creates a subscription and opens the workspace whatever its state is
(`CreateContract`/`OpenByHand`). BullMQ keeps a job by identifier, repeats failed attempts
and hands a job whose lock was not renewed on once: because its worker has died
(`WorkerDies`), or because it is slow and goes on without the lock (`LosesLock`), so that two
lanes run one job. `repeats` counts those hand-overs and the lost answers of `Finish`.

### TenantAccount

One workspace after provisioning. The provider's subscription is the sequence of states
it went through, and event `i` reports the `i`-th; any event may be delivered at any time
and again. A thread is a delivery (`Webhook`), the lifecycle scan (`ScanGoesOn`) or a
call of an owner or operator (`Begin`, `CallGoesOn`); `seen` is what it has read.
`Stale` is the comparison of an event's time with the row's. The scan is
`EndTrial`, `LockLapsed`, then the retention (`ListRetained` to `FinishPurge` or `Unlock`),
then the reconciliation (`ListLedger` to `LockReconciled`). The lock in Redis that keeps
scans apart (`locked`) is assumed to outlive a scan. An operator's reconciliation (the call
`reconcile`) takes no lock and may run beside the scan's.

`States` are the states of the provider's subscription. `authenticated` and `paused` are
known to the reconciliation only and to no webhook handler. `completed` is left out because
the code maps and handles it like `halted`, and `created` is the empty sequence.

Time is only what the code compares: event `i` has the time `2i`, a reconciliation an odd
time in between, a retention is ahead or over. It never ends before a scheduled request
falls due, since both are set to the same date. `grounds` is history: why the data may go.

Left out: a second checkout beside the first (the code allows it; the ledger has one row
here, and `CountOthers` looks at the manual subscription only), change of plan, notices, the
accounting service, the refresh of domains, the
expiry of exports and backups. A cancellation at the end of a period is a flag here and
the provider's own move there. A paid period does not end by itself, and a trial has no
row of its own among the subscriptions.

### StaffMembership

One company with a fixed number of seats. An invitation's attempt counts in three reads
(`ReadVersion`, `ReadMembers`, and `Count` or `CountRefuses` over the invitations), since
the code's query with its included relations is several SELECTs without a transaction, and
then claims: the claim compares the version of the quota, and a conflict counts again
(`ClaimConflicts`). Every other call reads and checks (`OpenAccept`, `OpenMemberCall`,
`OpenTransfer`, `OpenInvitationCall`, `OpenDeletion`, `OpenCancel`) and later writes without
looking again. A deletion of the company suspends everybody but whoever asks (`Delete`), its
cancellation seats everybody who has a membership (`Restore`), the purge suspends all
(`Purge`); the operators' counterparts leave the memberships (`Schedule`, `Withdraw`).
Whether the workspace is open is the matter of `TenantAccount`.

`unchecked` is history: people seated without a look at the quota (a late acceptance, a
lapsed invitation sent again, a reactivation, a cancelled deletion), and people a successful
count has missed because they accepted between its reads (`missed`). It names what
the code does not protect.

Left out: plans whose seats change, the copy of a member in the tenant's tables, and
uploads, which add up the storage and then create without any version.

## Runs

| Run | Instance | What it shows |
|---|---|---|
| `maya_approval` | one high-risk proposal, a caller, two reviewers, two batches, 2 attempts | no approval spent twice or late, refinement of the ledger, one handler, events, runs and the attempt bound agree, events settle |
| `maya_mixed` | an approval-bound and a low-risk proposal, two callers, one reviewer, one batch | the low-risk write acts once, also when two callers race |
| `maintenance` | two tenants, two servers, two ticks in a minute, a lane, 2 attempts, fair | work once per slot, scanned minutes are queued, completion is recorded, every queued job ends |
| `incident_races` | assigned provider and one alternative, no telephone; request, event, sweep, answer | order of the fallback; the traveller is told how it goes on |
| `incident_calls` | one telephoned alternative, a traveller who closes, one failure | attempts close; without a failure confirmations are told and the traveller is told how it goes on, although calls re-open rows |
| `refresh_tokens` | one family of any service, three tokens, three requests | one successor, ended stays ended, reuse ends, no alarm in a family without a reason |
| `refresh_reuse` | the same with two requests | finding: the platform's family forks |
| `rollout` | two external tenants, two operators, two workers, five calls, deaths of both | stages in order, completed means all, one worker per tenant, refinement of `StagedRollout` |
| `account` | two threads, all calls and time, two events, two requests, one death | charges have invoices, a purge has its grounds |
| `account_ledger` | two threads, checkout, cancellation, an operator's reconciliation, webhooks and scans, all states of the provider, fair | the ledger converges to the provider's state |
| `provisioning` | two requests, two lanes, 2 attempts, one operator's call, one fault, fair | the trial begins on a complete workspace, at most one subscription more than runs handed on or repeated after their end, one activation, a verified registration is decided |
| `staff` | an owner and two people, two seats, two requests, two invitations, one deletion | seats within the plan up to the named exceptions, no second open invitation |

### Bounds

- Two actors of a kind are what a race in this code needs: each hazard is a read
  by one and a write by another. `refresh_tokens` has a third request, because reuse
  may show while two others rotate.
- Three tokens allow two rotations in a row and a fork.
- The attempt bound of the outbox is 5 in the code and 2 in the runs, enough for a
  retry and for the last attempt to differ from the first. `incident_races` uses
  `MaxTries = 1`: the event is dead-lettered at once, so the traveller must be
  answered without a retry.
- One proposal, one incident, one family: rows of different ones are never read
  together, except by batches, for which `maya_mixed` has two.
- Two external tenants in `rollout` are in different stages (5% is at least one
  tenant), and the stage of internal tenants is empty, which is the case in which a start
  goes on as an advance. Five calls are a creation, an advance, a failure's retry and
  two that overlap them.
- `account` has two events, so that one can be older than the other and than a
  reconciliation; two calls and two requests for deletion, so that a request may follow
  a cancelled one. The ledger's run leaves out the calls that do not touch the ledger.
- `provisioning` allows more runs (`MaxRuns`) than attempts and retries can begin. One
  operator's call makes a second run beside the first, or opens the workspace by hand;
  `OneSubscription` speaks of behaviours without one. One fault is a death, a failed
  statement, a lost answer or a lost lock; the theorems allow any number of them.
- `maintenance` has one lane: jobs of different slots share nothing but the queue, and the
  model hands a job on only after its worker has died, so that two lanes never run one
  (`LanesApart` is proved for any number of lanes). A worker that is merely slow is left out:
  the run handed on beside it would be refused by the row of the first. Two ticks in the
  minute let a call meet the locks of an earlier one.
- `staff` has one seat besides the owner's and two people for it. Two rows let an
  invitation be made after another one lapsed or was revoked, or twice for one person. One
  deletion of the company (`MaxAsked`) may be cancelled, purged or fail.
- The ledger's run has all states of the provider; `account` has those with a webhook
  handler (`States`), because the other two write nothing that its properties read.
- `MaxFailures` and `MaxDials` bound outside failures and calls. The properties about
  the traveller exclude behaviours with an outside failure by their own premise,
  `[](failures = 0)`, since the code does leave such an incident behind.
- Deadlock is not checked in the runs in which everything may come to an end (tokens
  used up, jobs done, the incident settled).

### Fairness

- `MayaGovernance`: a live batch goes on (weak), the back-off elapses (weak), and
  batches do not die every single time before they list and claim a due event
  (strong). The queue starts a batch every minute and a crash is not part of the
  schedule. Reviewers and callers are not fair: people may never come.
- `MaintenanceSchedule`: a lane goes on, and the queue's timers fire. Cron is not fair.
- `IncidentRecovery`: a handler goes on until it returns, a pending event is taken, and
  the sweep keeps running, also after every row is due. Vendors, travellers and the
  telephone are not fair.
- `TenantAccount`: threads go on (weak); the scan comes back every hour, and the provider
  repeats an event until it is answered (strong, because other threads may be in the way).
- `TenantProvisioning`: requests and lanes go on, and a worker starts now and then, as it
  does with every deployment, and queues what is pending. Nobody need follow a link.
- `RefreshTokens`, `MigrationRollout` and `StaffMembership` are checked for safety only.

## Findings

The run `refresh_reuse` ends in a violation of something the repository says: the
platform's refresh forks a family when two requests overlap, and reuse goes unnoticed
(`ReuseRevokesFamily`; `PROJECT.json` quotes the lines). Staff and customers are spared.

The modules state more properties of this kind, marked "Violated" in their comments.
No run holds them; adding the name to the `INVARIANTS` or `PROPERTIES` of the run shows
the behaviour.

| Property | Run | What happens |
|---|---|---|
| `ApprovedActionClaimedOnce` (`MayaGovernance`) | `maya_approval` | a review writes `approved` by id only, so a late reviewer re-opens a proposal that executes; the second effect spends the second approval |
| `PublishingIsTransient` (`MayaGovernance`) | `maya_approval` | an event whose batch died stays `publishing`: nothing lists such rows again |
| `AdviceBeforeConfirmation` (`IncidentRecovery`) | `incident_races` with a second alternative | the last decline advises self-booking without the check for a confirmation that the sweep makes |
| `RetriedTargetsRun` (`MigrationRollout`) | `rollout` with `FairSpec` | a retry adds the job under an identifier the queue still knows and ignores; the target stays pending |
| `LockedWhileScheduled`, `HoldKept` (`TenantAccount`) | `account` | a charge, or a call that read the hold before, opens a workspace that is to be deleted or that was put on hold |
| `IdempotentRuns` (`TenantProvisioning`) | `provisioning` | `docs/commercial-saas.md:57-58` calls the state machine idempotent; a lost lock, a lost answer to the last transaction, or the console's retry of a job that runs or has completed makes a second run insert a second subscription |
| `OpenWithParts` (`TenantProvisioning`) | `provisioning` | a contract sold by hand opens a workspace of which no part exists |
| `OwnerKept` (`StaffMembership`) | `staff` | a deletion asked for by another administrator suspends the owner; so does a transfer to a member who is suspended or removed meanwhile |
| `CanBeCancelled` (`StaffMembership`) | `staff` with `MaxAsked = 2` | two administrators who ask for the deletion at the same time suspend each other, and nobody of the company can cancel it |

Observations the properties are stated around: the key of a maintenance slot has no
seconds, so a schedule of 30 seconds runs once a minute; a workspace that an operator suspends keeps the
date of an old retention, and the next scan may purge it (`grounds` excepts it); a scan
that dies between `SetDeleting` and `FinishPurge` leaves the workspace `deleting`, which
no scan lists; a charge that is older than the row is passed over without an invoice
(`passed`); a scan that listed a lapsed trial before its first charge locks a workspace
that has paid, until the next change at the provider; a retry of provisioning whose server dies before
the add stays pending, because a starting worker adds the job under the first, known
identifier.

## Proofs

Every theorem is about the specification with arbitrary constants. Every safety
invariant that a run checks, and both refinements, are proved. The only assumptions
are those the modules declare:

| Module | Assumed of the constants |
|---|---|
| `MayaGovernance` | `None` is no proposal, `Risk` is a function into the three classes, `MaxAttempts` is positive |
| `MaintenanceSchedule` | there is a tenant; `TicksPerMinute`, `Minutes` and `MaxAttempts` are positive |
| `RefreshTokens` | `None` is neither a token nor a family |
| `IncidentRecovery` | `None` is no attempt; the assigned provider is not among the alternatives; alternatives and threads are finite; `MaxTries` and `MaxDials` are positive, `MaxFailures` is a natural number |
| `MigrationRollout` | external tenants are a sequence and none of them is internal; `None` is neither a tenant nor a worker |
| `TenantProvisioning` | `MaxAttempts` is positive, the other bounds are natural numbers |
| `TenantAccount` | the states are known ones of the provider, `cancelled` among them; the menu has the calls the module knows; the bounds are natural numbers |
| `StaffMembership` | the founder is one of the finitely many people; `Seats` and `MaxTries` are positive, the bounds natural numbers |

A theorem holds for all values of the bounds too (`MaxRuns`, `MaxCalls`,
`MaxFailures`, ...), so for any number of faults, calls and retries.

`MayaGovernanceProofs`

- `TypeCorrect`.
- `ApprovalInvariant`: `ApprovalInv` is inductive. What is wanted,
  `EffectsSpendTimelyApprovals`, is not: it says nothing of an approval between
  review and effect. The strengthening follows it: an approved row has an unclaimed
  approval; a batch that read `approved` is still entitled while no other batch can
  claim, which is why `OneHandlerPerEvent` must be part of it; a batch that passed the
  expiry check has a timely approval; callers never act for approval-bound rows.
- `ExclusiveHandling`, `ApprovalSafety`: consequences.
- `OutboxConsistent` (`OutboxAgrees`) rests on `OutboxInv`, which adds that an event that
  may still be claimed has an attempt left. Only the batch that holds an event moves it,
  which `ApprovalInv` provides. From the same fact follows `OutcomesAreFinal`, an action
  property (`SettledEventsStay`) that no run repeats: what is published or dead-lettered
  never moves again.
- `LowRiskSafety` (`LowRiskActsOnce`) rests on `LowRiskInv`: the row of a low-risk call is
  never pending, so that reviews and events are not about it, and the caller whose
  create the key let through is the only one that performs it.
- `LedgerRefinement`: `Spec => Ledger!Spec`; a timely approval is a grant, a claim
  is a use, every other step stutters.

`MaintenanceScheduleProofs`

- `TypeCorrect`, with one lemma per operator that builds a call or a job. That a tick's
  minute is one of the minutes (`MinuteOfTick`) is the only arithmetic.
- `SlotsAreExclusive`, which is in no run, and `MinutesAreQueued` rest on `CronInv`: whoever adds a slot holds
  its lock (`CallsLock`), and a lock leads to a queued job, to a call that is about to add
  it, or to a loss that `lost` names (`LocksLead`).
- `WorkedOnce` and `CompletionIsRecorded` rest on `LaneInv`: two lanes never run one job
  (`LanesApart`), and what a lane and the queue hold agrees with the row (`RowLeads`).
- `IInv` joins the two halves; `Invariance` proves it action by action, the scheduler's
  actions over one half and the lanes' over the other.

`RefreshTokensProofs`

- `TypeCorrect`, with a lemma for a request that moves on and one for one that ends.
- `ChainOfTokens` (`RotationChain`) and `EndIsFinal` (`EndedForGood`) rest on
  `ChainInv`. Neither is inductive: a live token must also have no successor yet
  (`Forward`), ended families must have tokens so that no login re-uses them
  (`EndedKnown`), and for the platform a request that nothing overlaps must be
  alone in its family (`Alone`) and hold its last token up to the statement that
  issues the next (`InHand`). Steps fall into those that issue a token (`ChainsGrow`,
  `IssueChain`) and those that only take some away (`ChainsKept`).
- `ReuseIsActedOn` (`ReuseEndsFamily`) is inductive with the types.
- `AlarmsAreFounded` (`NoFalseAlarm`) rests on `AlarmInv`: what is revoked was presented,
  or its family has a reason for an alarm (`Explained`); two requests hold one token only
  if it was presented twice, and a family about to end has a reason already (`Held`). So an
  alarm's own revocation needs to be no reason, and is none.

`StaffMembershipProofs`

- `TypeCorrect`, `SeatsAreKept` (`SeatsWithinPlan`), `InvitationsAreSingle`
  (`OneInvitation`).
- The seats rest on what a count with a current version knows. Past its read of the members
  it has counted all of them but those who joined since and are `missed` (`MembersCounted`);
  past its read of the invitations there is room for one more besides those (`RoomToClaim`).
  A new version takes that from all other counts at once, and no version is ahead of the
  tenant's (`VersionKnown`). Meanwhile a seat is taken on top of the quota, which
  `unchecked` says, or by somebody who had one as an invitation. The rest is the
  arithmetic of finite sets.
- The invitations rest on `FreshToClaim`: a claim that will succeed is for somebody who has
  no open invitation.
- `FindsItsRow` (a request holds an invitation that exists) makes the types inductive.

`TenantProvisioningProofs`

- `TypeCorrect`, `TrialIsEarned` (`TrialAfterParts`), `SubscribedOnce`
  (`OneSubscription`), `ActivationIsSingle` (`ActivatedOnce`).
- `TrialAfterParts` rests on `PartsPassed`: a lane that is past a part has made it, a
  part is never taken away, and whoever opens a workspace by hand has sold a contract.
  `ActivatedOnce` rests on `LinkTaken`: the link is open or the one
  activation there is has taken it.
- `OneSubscription` rests on `Counted`, which holds while no operator has asked for
  anything: only the tenant's own job is queued (`OwnJobOnly`), and the subscriptions, the
  lanes that may still create one (`Open`) and the run the queue may yet begin (`Due`) are
  together at most one more than `repeats` (`RunsCounted`). A run that ends without a
  subscription makes way for the next; one that loses its lock, or the answer to its end,
  adds to `repeats`.
- Two more conjuncts carry it: of the lanes that hold their lock no two run one job
  (`JobsApart`), and before the registration there is nothing to run (`Unborn`).

`MigrationRolloutProofs`

- `TypeCorrect`, `StagesInOrder` (`StageGate`), `CompletionIsTrue`
  (`CompletedMeansAll`), `WorkersApart` (`OneWorkerPerTenant`), `StagedRefinement`
  (`KeepsStages`).
- The gate of a stage is open when all tenants of the earlier ones are migrated. A migrated
  tenant stays migrated, so a gate that is open stays open; `GatesHold` says that every
  stage anybody has in hand (the row, a call between its look and its writes, a queued job, a
  worker) lies behind an open gate, until the rollout is removed. This is why stale reads do no harm here. `StageGate` and
  `CompletedMeansAll` say nothing of a call that has looked and not yet written, so they are
  not inductive.
- `OneWorkerPerTenant` needs `RowsAreHeld` (a worker past its claim finds its row claimed)
  and `LocksActive` (only an active job is locked).
- The refinement is proved from `IInv` step by step: `Claim` touches, `RecordCompleted`
  migrates, the creation of the rollout and all others stutter.

`TenantAccountProofs`

- `TypeCorrect`, `PurgesHaveGrounds` (`PurgeHasGrounds`), `ChargesAreInvoiced`
  (`ChargesInvoiced`).
- `GroundsHold`: a retention that is over while the workspace is locked has grounds, and so
  has a scan that is between its list and the purge. Grounds are never withdrawn, so
  what a call does in between cannot take them from the scan.
- `EventsFollowed`: a delivery holds an event the provider has reported, and an event that
  is processed, or about to be marked so, is no charge, has its invoice or was passed over.
  States of the provider are only appended, so an event keeps its meaning. The types are not inductive without it.

`IncidentRecoveryProofs`

- `TypeCorrect` and `FallbackKept` (`FallbackInOrder`), from an invariant in two halves.
- `RowInv`: the attempts of a contact are numbered without a gap, a row is announced by
  one thread, and there is a number left for each thread that is about to create one
  (`TriesLeft`). That the numbers suffice is a count of threads, not a bound of the
  model, and `TypeOK` needs it.
- `OrderInv`: an answer that is written in an attempt was said (`AnswersSaid`), and a
  handler that goes on to alternatives or to the advice has its reason (`Reasons`): the
  answer it saw. Answers are never taken back, so the reason is still true when a
  suspended handler goes on, whatever the sweep and other answers did meanwhile.

All eight inductive invariants were model-checked on the instances of the runs before
they were proved. They are in no run: the properties they were found for are.

Only model-checked: liveness (`EventsSettle`, `JobsEnd`, `TravellerAnswered`,
`ConfirmationsTold`, `AttemptsClose`, `LedgerConverges`, `RegistrationDecided`). It needs
fairness, hence `ENABLED`, of which the prover knows nothing.

## Plan

Done: `MayaGovernance` with `ApprovalLedger`, `MaintenanceSchedule`,
`IncidentRecovery`, `RefreshTokens`, `MigrationRollout` with `StagedRollout`,
`TenantAccount`, `TenantProvisioning` and `StaffMembership`, in the order of what the
code risks.

Theorems: every safety property of a run has one. What could follow are action properties
like `SettledEventsStay`, and lemmas that would carry a proof of liveness by hand.

Modules that could follow: MFA challenges, versions of quotes, backups.

## Not modelled

Most of the repository is a web client, reports and CRUD: requests that read or write
a single row and leave nothing for another actor to find half done. Pricing, rooming
and passenger rights are pure functions over money, dates and text, which tests with
tables reach better than an enumeration of small values does. Single sign-on, DNS,
telephony, mail, storage and accounting are calls whose outcome another system decides;
where it matters, the outcome is a choice in the module of the caller. `PROJECT.json`
names each part with its reason.
