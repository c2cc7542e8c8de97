------------------------- MODULE TenantProvisioning -------------------------
(***************************************************************************)
(* A company registers, its owner follows the link of a mail, and a job    *)
(* builds the company's workspace step by step and begins the trial.       *)
(* Requests read rows, write them in a transaction and then queue the job; *)
(* the worker runs two jobs at a time; operators cancel, retry, and sell   *)
(* contracts by hand.                                                      *)
(*                                                                         *)
(* The queue is external: it ignores a job whose identifier it still       *)
(* keeps, repeats a failed attempt up to MaxAttempts times, and hands a    *)
(* job whose lock was not renewed on to a worker again, once: the first    *)
(* worker has died, or is only slow and goes on without the lock.          *)
(***************************************************************************)
EXTENDS Naturals, Sequences, FiniteSets

CONSTANTS Callers,      \* requests the servers handle at the same time
          Lanes,        \* jobs the worker runs at the same time
          MaxAttempts,  \* attempts of a queued job
          MaxAsked,     \* bound on the operators' calls
          MaxRuns,      \* bound on the runs the row counts
          MaxFaults     \* bound on deaths of processes, failures of statements and lost locks

ASSUME ProvisioningAssumption ==
  /\ MaxAttempts \in Nat \ {0}
  /\ MaxAsked \in Nat /\ MaxRuns \in Nat /\ MaxFaults \in Nat

VARIABLES
  tenant,         \* status of the tenant
  link,           \* the link mailed to the owner
  verified,       \* whether the owner's address is verified
  job,            \* the provisioning row
  done,           \* the parts of the workspace that exist
  trial,          \* whether the trial has begun
  subscriptions,  \* number of the trial's subscriptions created
  contracts,      \* number of the subscriptions that operators created by hand
  queue,          \* the queued jobs, by their identifier
  lane,           \* what the worker does
  call,           \* what the requests do
  activations,    \* history: activations of the owner that succeeded
  asked,          \* calls of the operators so far
  faults,         \* deaths, failures and lost locks so far
  repeats         \* history: how often a run that went on, or had ended, was handed on

account   == <<tenant, link, verified, activations>>
workspace == <<done, trial, subscriptions, contracts>>
trouble   == <<faults, repeats>>
vars == <<account, job, workspace, queue, lane, call, asked, trouble>>

-----------------------------------------------------------------------------
\* The database with its user and secret; its tables; the owner in it; the
\* directory of uploads and the subdomain.
Parts == <<"database", "schema", "owner", "storage">>
AllParts == {Parts[i] : i \in DOMAIN Parts}

\* The tenant's own job; the retries of the operators' console, named after
\* the runs counted; those of the administration, named after the operation.
NoJob    == <<"none", 0>>
Own      == <<"tenant", 0>>
Retry(n) == <<"retry", n>>
Keyed(n) == <<"key", n>>
JobIds   == {Own} \cup {Retry(n) : n \in 1..(MaxRuns + 1)} \cup {Keyed(n) : n \in 1..MaxAsked}

Idle == [at |-> "idle", id |-> NoJob]
Rest == [at |-> "idle", id |-> NoJob, lost |-> FALSE]

LaneSteps == {"idle", "start", "finish", "record", "report"} \cup AllParts
CallSteps == {"idle", "verify", "activate", "retry", "keyed", "cancel", "enqueue",
              "contract", "open"}

TypeOK ==
  /\ tenant \in {"none", "pending_activation", "pending", "provisioning", "active", "failed"}
  /\ link \in [used: BOOLEAN, expired: BOOLEAN]
  /\ verified \in BOOLEAN
  /\ activations \in Nat
  /\ job \in [status: {"none", "pending", "processing", "completed", "failed"},
              count: 0..MaxRuns, started: BOOLEAN]
  /\ done \in SUBSET AllParts
  /\ trial \in BOOLEAN
  /\ subscriptions \in Nat /\ contracts \in Nat
  /\ queue \in [JobIds -> [state: {"none", "waiting", "active", "completed", "failed"},
                           failed: 0..MaxAttempts, stalled: BOOLEAN]]
  /\ lane \in [Lanes -> [at: LaneSteps, id: JobIds \cup {NoJob}, lost: BOOLEAN]]
  /\ call \in [Callers -> [at: CallSteps, id: JobIds \cup {NoJob}]]
  /\ asked \in 0..MaxAsked
  /\ faults \in 0..MaxFaults /\ repeats \in Nat

Init ==
  /\ tenant = "none"
  /\ link = [used |-> FALSE, expired |-> FALSE]
  /\ verified = FALSE
  /\ activations = 0
  /\ job = [status |-> "none", count |-> 0, started |-> FALSE]
  /\ done = {}
  /\ trial = FALSE
  /\ subscriptions = 0 /\ contracts = 0
  /\ queue = [i \in JobIds |-> [state |-> "none", failed |-> 0, stalled |-> FALSE]]
  /\ lane = [l \in Lanes |-> Rest]
  /\ call = [c \in Callers |-> Idle]
  /\ asked = 0
  /\ faults = 0 /\ repeats = 0

-----------------------------------------------------------------------------
\* Requests of the company and its owner

\* One transaction creates every row.  The uniqueness of address, URL and
\* trial claims refuses a second registration.
Register(status) ==
  /\ tenant = "none"
  /\ tenant' = status
  /\ job' = [job EXCEPT !.status = "pending"]
  /\ UNCHANGED <<link, verified, activations, workspace, queue, lane, call, asked, trouble>>

RegisterCompany  == Register("pending")
RegisterForOwner == Register("pending_activation")

LinkExpires ==
  /\ tenant # "none" /\ ~link.expired
  /\ link' = [link EXCEPT !.expired = TRUE]
  /\ UNCHANGED <<tenant, verified, activations, job, workspace, queue, lane, call, asked, trouble>>

Goes(c, at, id) == call' = [call EXCEPT ![c] = [at |-> at, id |-> id]]
Returns(c)      == call' = [call EXCEPT ![c] = Idle]

\* Requests are alike, and so are lanes: a new one takes the first that is free.
FreeCaller(c) == call[c] = Idle /\ c = CHOOSE d \in Callers : call[d] = Idle
FreeLane(l)   == lane[l] = Rest /\ l = CHOOSE k \in Lanes : lane[k] = Rest

FollowsLink(c) ==
  /\ FreeCaller(c)
  /\ tenant # "none" /\ ~link.expired

\* verifyEmail reads the link; one that was used only queues the job again.
OpenVerification(c) ==
  /\ FollowsLink(c)
  /\ IF link.used /\ verified THEN Goes(c, "enqueue", Own) ELSE Goes(c, "verify", Own)
  /\ UNCHANGED <<account, job, workspace, queue, lane, asked, trouble>>

\* The transaction does not look at the link again.
Verify(c) ==
  /\ call[c].at = "verify"
  /\ link' = [link EXCEPT !.used = TRUE]
  /\ verified' = TRUE
  /\ Goes(c, "enqueue", Own)
  /\ UNCHANGED <<tenant, activations, job, workspace, queue, lane, asked, trouble>>

OpenActivation(c) ==
  /\ FollowsLink(c)
  /\ tenant = "pending_activation" /\ ~link.used
  /\ Goes(c, "activate", Own)
  /\ UNCHANGED <<account, job, workspace, queue, lane, asked, trouble>>

\* A slip: the link is not looked at again.
ActivateAgain(c) ==
  /\ call[c].at = "activate"
  /\ ~link.expired
  /\ link' = [link EXCEPT !.used = TRUE]
  /\ verified' = TRUE
  /\ tenant' = "pending"
  /\ activations' = activations + 1
  /\ Goes(c, "enqueue", Own)
  /\ UNCHANGED <<job, workspace, queue, lane, asked, trouble>>

\* The transaction takes the link only if nothing else used it.
Activate(c) ==
  /\ call[c].at = "activate"
  /\ ~link.used /\ ~link.expired
  /\ link' = [link EXCEPT !.used = TRUE]
  /\ verified' = TRUE
  /\ tenant' = "pending"
  /\ activations' = activations + 1
  /\ Goes(c, "enqueue", Own)
  /\ UNCHANGED <<job, workspace, queue, lane, asked, trouble>>

ActivationRefused(c) ==
  /\ call[c].at = "activate"
  /\ link.used \/ link.expired
  /\ Returns(c)
  /\ UNCHANGED <<account, job, workspace, queue, lane, asked, trouble>>

\* The queue ignores an identifier it keeps.
Add(id) ==
  queue' = IF queue[id].state = "none" THEN [queue EXCEPT ![id].state = "waiting"] ELSE queue

Enqueue(c) ==
  /\ call[c].at = "enqueue"
  /\ Add(call[c].id)
  /\ Returns(c)
  /\ UNCHANGED <<account, job, workspace, lane, asked, trouble>>

-----------------------------------------------------------------------------
\* Operators

Asks(c) ==
  /\ FreeCaller(c)
  /\ job.status # "none"
  /\ asked < MaxAsked
  /\ asked' = asked + 1
  /\ UNCHANGED <<account, job, workspace, queue, lane, trouble>>

\* The console retries a job in whatever state it is.
AskRetry(c) == Asks(c) /\ Goes(c, "retry", Retry(job.count + 1))

AskKeyedRetry(c) == job.status = "failed" /\ Asks(c) /\ Goes(c, "keyed", Keyed(asked + 1))

AskCancel(c) ==
  /\ ~job.started /\ job.status # "processing"
  /\ Asks(c)
  /\ Goes(c, "cancel", NoJob)

AskContract(c) == Asks(c) /\ Goes(c, "contract", NoJob)

SetsRows(jobStatus, tenantStatus, started) ==
  /\ job' = [job EXCEPT !.status = jobStatus, !.started = started]
  /\ tenant' = tenantStatus
  /\ UNCHANGED <<link, verified, activations, workspace, queue, lane, asked, trouble>>

ResetForRetry(c) ==
  /\ call[c].at = "retry"
  /\ SetsRows("pending", "pending", job.started)
  /\ Goes(c, "enqueue", call[c].id)

ResetForKeyedRetry(c) ==
  /\ call[c].at = "keyed"
  /\ SetsRows("pending", "pending", FALSE)
  /\ Goes(c, "enqueue", call[c].id)

Cancel(c) ==
  /\ call[c].at = "cancel"
  /\ SetsRows("failed", "failed", job.started)
  /\ Returns(c)

\* The contract's subscription; then the workspace opens, in whatever state it
\* is, unless the contract is not active or the tenant is suspended.
CreateContract(c) ==
  /\ call[c].at = "contract"
  /\ contracts' = contracts + 1
  /\ Goes(c, "open", NoJob) \/ Returns(c)
  /\ UNCHANGED <<account, job, done, trial, subscriptions, queue, lane, asked, trouble>>

OpenByHand(c) ==
  /\ call[c].at = "open"
  /\ tenant' = "active"
  /\ Returns(c)
  /\ UNCHANGED <<link, verified, activations, job, workspace, queue, lane, asked, trouble>>

Fails(repeated) ==
  /\ faults < MaxFaults
  /\ faults' = faults + 1
  /\ repeats' = repeats + repeated

Fault == Fails(0)

\* A server dies with a request, or the queue cannot be reached.
CallerDies(c) ==
  /\ call[c].at # "idle"
  /\ Fault
  /\ Returns(c)
  /\ UNCHANGED <<account, job, workspace, queue, lane, asked>>

-----------------------------------------------------------------------------
\* The worker

\* A slip: only jobs that were interrupted are queued.
RecoverStarted ==
  /\ job.status = "pending" /\ verified /\ job.started
  /\ queue[Own].state = "none"
  /\ Add(Own)
  /\ UNCHANGED <<account, job, workspace, lane, call, asked, trouble>>

\* A worker that starts queues the jobs that are pending with a verified owner.
Recover ==
  /\ job.status = "pending" /\ verified
  /\ queue[Own].state = "none"
  /\ Add(Own)
  /\ UNCHANGED <<account, job, workspace, lane, call, asked, trouble>>

Waiting == {id \in JobIds : queue[id].state = "waiting"}

TakesUp(l, id) ==
  /\ FreeLane(l)
  /\ UNCHANGED <<account, job, workspace, call, asked, trouble>>

\* A slip: one attempt too many.
AttemptFailsLate(id) ==
  LET failures == queue[id].failed + 1
  IN queue' = [queue EXCEPT ![id] =
                 [state   |-> IF failures <= MaxAttempts THEN "waiting" ELSE "failed",
                  failed  |-> failures,
                  stalled |-> queue[id].stalled]]

AttemptFails(id) ==
  LET failures == queue[id].failed + 1
  IN queue' = [queue EXCEPT ![id] =
                 [state   |-> IF failures < MaxAttempts THEN "waiting" ELSE "failed",
                  failed  |-> failures,
                  stalled |-> queue[id].stalled]]

SkipCompleted(l, id) ==
  /\ TakesUp(l, id)
  /\ job.status = "completed"
  /\ queue' = [queue EXCEPT ![id].state = "completed"]
  /\ UNCHANGED lane

RefuseUnverified(l, id) ==
  /\ TakesUp(l, id)
  /\ job.status # "completed" /\ ~verified
  /\ AttemptFails(id)
  /\ UNCHANGED lane

\* A slip: a job is taken whoever the owner is.
TakeUnverified(l, id) ==
  /\ TakesUp(l, id)
  /\ job.status # "completed"
  /\ queue' = [queue EXCEPT ![id].state = "active"]
  /\ lane' = [lane EXCEPT ![l] = [at |-> "start", id |-> id, lost |-> FALSE]]

\* A slip: a job is taken again when it has been completed.
TakeCompleted(l, id) ==
  /\ TakesUp(l, id)
  /\ verified
  /\ queue' = [queue EXCEPT ![id].state = "active"]
  /\ lane' = [lane EXCEPT ![l] = [at |-> "start", id |-> id, lost |-> FALSE]]

Take(l, id) ==
  /\ TakesUp(l, id)
  /\ job.status # "completed" /\ verified
  /\ queue' = [queue EXCEPT ![id].state = "active"]
  /\ lane' = [lane EXCEPT ![l] = [at |-> "start", id |-> id, lost |-> FALSE]]

LaneGoes(l, at) == lane' = [lane EXCEPT ![l].at = at]

Starts ==
  /\ job.count < MaxRuns
  /\ job' = [status |-> "processing", count |-> job.count + 1, started |-> TRUE]
  /\ tenant' = "provisioning"
  /\ UNCHANGED <<link, verified, activations, workspace, call, asked>>

Start(l) ==
  /\ lane[l].at = "start"
  /\ Starts
  /\ LaneGoes(l, Parts[1])
  /\ UNCHANGED <<queue, trouble>>

\* Every part is made only where it is missing.
MakePart(l) ==
  \E i \in DOMAIN Parts :
    /\ lane[l].at = Parts[i]
    /\ done' = done \cup {Parts[i]}
    /\ LaneGoes(l, IF i = Len(Parts) THEN "finish" ELSE Parts[i + 1])
    /\ UNCHANGED <<account, job, trial, subscriptions, contracts, queue, call, asked, trouble>>

Finishes(l) ==
  /\ lane[l].at = "finish"
  /\ trial' = TRUE
  /\ subscriptions' = subscriptions + 1
  /\ tenant' = "active"
  /\ job' = [job EXCEPT !.status = "completed"]
  /\ UNCHANGED <<link, verified, activations, done, contracts, queue, call, asked>>

Finish(l) ==
  /\ Finishes(l)
  /\ LaneGoes(l, "report")
  /\ UNCHANGED trouble

\* The transaction is committed, and its answer is lost.
FinishUnanswered(l) ==
  /\ Finishes(l)
  /\ LaneGoes(l, "record")
  /\ Fails(1)

\* The queue does not listen to a lane that has lost its lock.
Report(l) ==
  /\ lane[l].at = "report"
  /\ queue' = IF lane[l].lost THEN queue ELSE [queue EXCEPT ![lane[l].id].state = "completed"]
  /\ lane' = [lane EXCEPT ![l] = Rest]
  /\ UNCHANGED <<account, job, workspace, call, asked, trouble>>

Throw(l) ==
  /\ lane[l].at \in AllParts \cup {"finish"}
  /\ Fault
  /\ LaneGoes(l, "record")
  /\ UNCHANGED <<account, job, workspace, queue, call, asked>>

LaneFails(l) ==
  /\ IF lane[l].lost THEN UNCHANGED queue ELSE AttemptFails(lane[l].id)
  /\ lane' = [lane EXCEPT ![l] = Rest]

RecordFailure(l) ==
  /\ lane[l].at = "record"
  /\ job' = [job EXCEPT !.status = "failed"]
  /\ tenant' = "failed"
  /\ LaneFails(l)
  /\ UNCHANGED <<link, verified, activations, workspace, call, asked, trouble>>

\* The first and the last transaction are outside the try block.
ThrowOutside(l) ==
  /\ lane[l].at \in {"start", "record"}
  /\ Fault
  /\ LaneFails(l)
  /\ UNCHANGED <<account, job, workspace, call, asked>>

\* The first one is committed, and its answer is lost.
StartUnanswered(l) ==
  /\ lane[l].at = "start"
  /\ Starts
  /\ Fault
  /\ LaneFails(l)

\* A job that lost its lock a second time is failed by the queue.
Stalled(q) ==
  IF q.state # "active" THEN q
  ELSE IF q.stalled THEN [q EXCEPT !.state = "failed"]
  ELSE [q EXCEPT !.state = "waiting", !.stalled = TRUE]

WorkerDies ==
  /\ \E l \in Lanes : lane[l] # Rest
  /\ Fault
  /\ queue' = [id \in JobIds |-> Stalled(queue[id])]
  /\ lane' = [l \in Lanes |-> Rest]
  /\ UNCHANGED <<account, job, workspace, call, asked>>

\* A lane is too slow to renew its lock, and goes on.
LosesLock(l) ==
  /\ lane[l].at # "idle" /\ ~lane[l].lost
  /\ Fails(1)
  /\ queue' = [queue EXCEPT ![lane[l].id] = Stalled(@)]
  /\ lane' = [lane EXCEPT ![l].lost = TRUE]
  /\ UNCHANGED <<account, job, workspace, call, asked>>

-----------------------------------------------------------------------------
CallGoesOn(c) ==
  \/ Verify(c) \/ Activate(c) \/ ActivationRefused(c) \/ Enqueue(c)
  \/ ResetForRetry(c) \/ ResetForKeyedRetry(c) \/ Cancel(c)
  \/ CreateContract(c) \/ OpenByHand(c)

CallBegins(c) ==
  \/ OpenVerification(c) \/ OpenActivation(c)
  \/ AskRetry(c) \/ AskKeyedRetry(c) \/ AskCancel(c) \/ AskContract(c)

LaneTakes(l) ==
  \E id \in Waiting : SkipCompleted(l, id) \/ RefuseUnverified(l, id) \/ Take(l, id)

LaneGoesOn(l) ==
  \/ Start(l) \/ MakePart(l) \/ Finish(l) \/ Report(l)
  \/ FinishUnanswered(l) \/ Throw(l) \/ RecordFailure(l)
  \/ ThrowOutside(l) \/ StartUnanswered(l)

Next ==
  \/ RegisterCompany \/ RegisterForOwner \/ LinkExpires
  \/ \E c \in Callers : CallBegins(c) \/ CallGoesOn(c) \/ CallerDies(c)
  \/ \E l \in Lanes : LaneTakes(l) \/ LaneGoesOn(l) \/ LosesLock(l)
  \/ Recover \/ WorkerDies

Spec == Init /\ [][Next]_vars

\* A request that has committed queues its job, a lane takes jobs and goes on
\* with them, and the worker starts now and then: with every deployment.
Fairness ==
  /\ \A c \in Callers : WF_vars(Enqueue(c))
  /\ \A l \in Lanes : WF_vars(LaneTakes(l) \/ LaneGoesOn(l))
  /\ WF_vars(Recover)

FairSpec == Spec /\ Fairness

-----------------------------------------------------------------------------
Complete == done = AllParts /\ verified

\* The trial begins, and the worker opens the workspace, only when every part of
\* it exists and the owner's address is verified, whichever runs share the work
\* (tenantProvisioningService.ts 97-219); a workspace that is open without them
\* was opened by hand.
TrialAfterParts ==
  /\ trial \/ subscriptions > 0 => Complete
  /\ tenant = "active" => Complete \/ contracts > 0

\* Violated: the contracts do not look at the parts.
OpenWithParts == tenant = "active" => Complete

\* Without an operator's retry, repeated links, repeated attempts and a death
\* after any statement create one subscription (tenantProvisioningService.ts
\* 98-99); it has no key, so that every hand-over of a run that goes on without
\* its lock, and every lost answer to its end, may cost one more.
OneSubscription == asked = 0 => subscriptions <= 1 + repeats

\* Violated: the state machine is idempotent, as the documentation says it.  A
\* lost lock, a lost answer, or the console's retry of a job that runs or has
\* completed makes a second run create a second subscription.
IdempotentRuns == subscriptions <= 1

\* The link of an owner's activation sets one password and one consent,
\* also when it is opened twice at once.
ActivatedOnce == activations <= 1

\* A verified company whose job is not queued yet is decided: the server may
\* die before it queues the job, the worker within it.
RegistrationDecided ==
  verified /\ queue[Own].state = "none" ~> job.status \in {"completed", "failed"}
=============================================================================
