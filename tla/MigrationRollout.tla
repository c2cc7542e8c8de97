-------------------------- MODULE MigrationRollout --------------------------
(***************************************************************************)
(* A schema migration rolled out over the fleet of tenants, in the stages  *)
(* internal, 5%, 25% and 100%.  Operators start, pause, advance and retry  *)
(* a rollout; each call reads the rollout once and then writes.  A job per *)
(* tenant waits in the queue under the identifier of its target row, and   *)
(* workers claim the row before they migrate the tenant's database.        *)
(*                                                                         *)
(* The queue is external: it ignores a job whose identifier it knows,      *)
(* makes one attempt, gives the job of a worker that lost its lock to      *)
(* another worker once, and forgets jobs that ended long ago.              *)
(***************************************************************************)
EXTENDS Naturals, Sequences

CONSTANTS Internal,   \* internal tenants
          External,   \* the other tenants, in the order of their identifiers
          Operators,  \* operators' calls the servers handle at the same time
          Workers,
          MaxCalls,   \* bound on the calls made
          Mortal,     \* the kinds of process that may die
          None

Targets == Internal \cup {External[i] : i \in DOMAIN External}

ASSUME RolloutAssumption ==
  /\ External \in Seq(Targets)
  /\ \A t \in Internal, i \in DOMAIN External : External[i] # t
  /\ None \notin Targets /\ None \notin Workers
  /\ MaxCalls \in Nat /\ Mortal \subseteq {"server", "worker"}

VARIABLES
  status,    \* of the rollout
  stage,     \* its current stage
  target,    \* status of each tenant's row
  tried,     \* rows whose attemptCount is not zero
  job,       \* the job of a target in the queue
  holder,    \* the worker that holds the lock of a job
  stalled,   \* targets whose job was taken from a worker once
  call,      \* the operators' calls
  work,      \* what each worker is doing
  calls      \* the number of calls made

rows    == <<status, stage, target, tried>>
queue   == <<job, holder, stalled>>
vars    == <<rows, queue, call, work, calls>>

-----------------------------------------------------------------------------
\* Stages

Larger(a, b) == IF a > b THEN a ELSE b

\* Math.ceil of a percentage of the external tenants.
Share(percent) == (Len(External) * percent + 99) \div 100

FivePercent       == Larger(1, Share(5))
TwentyFivePercent == Larger(FivePercent, Share(25))

Among(t, n) == \E i \in DOMAIN External : i <= n /\ External[i] = t

StageOf(t) ==
  IF t \in Internal THEN 0
  ELSE IF Among(t, FivePercent) THEN 1
  ELSE IF Among(t, TwentyFivePercent) THEN 2
  ELSE 3

-----------------------------------------------------------------------------
Idle == [at |-> "idle", op |-> "none", stage |-> 0]

\* "retryRollout" is the second write of a retry, "again" a start whose first
\* stage has no tenants and which goes on as an advance.
CallSteps == {"idle", "write", "retryRollout", "enqueue", "again"}
Ops == {"none", "create", "start", "pause", "removeDraft", "advance", "finish", "retry"}
WorkSteps == {"idle", "claim", "deploy", "record", "fail"}

TypeOK ==
  /\ status \in {"none", "draft", "running", "paused", "completed", "removed"}
  /\ stage \in 0..3
  /\ target \in [Targets -> {"none", "pending", "running", "completed", "failed"}]
  /\ tried \in SUBSET Targets
  /\ job \in [Targets -> {"none", "waiting", "active", "completed", "failed"}]
  /\ holder \in [Targets -> Workers \cup {None}]
  /\ stalled \in SUBSET Targets
  /\ call \in [Operators -> [at: CallSteps, op: Ops, stage: 0..3]]
  /\ work \in [Workers -> [at: WorkSteps, target: Targets \cup {None}]]
  /\ calls \in 0..MaxCalls

Init ==
  /\ status = "none"
  /\ stage = 0
  /\ target = [t \in Targets |-> "none"]
  /\ tried = {}
  /\ job = [t \in Targets |-> "none"]
  /\ holder = [t \in Targets |-> None]
  /\ stalled = {}
  /\ call = [o \in Operators |-> Idle]
  /\ work = [w \in Workers |-> [at |-> "idle", target |-> None]]
  /\ calls = 0

-----------------------------------------------------------------------------
\* The operators' calls

Exists == status \notin {"none", "removed"}

Goes(o, at, op, s) == call' = [call EXCEPT ![o] = [at |-> at, op |-> op, stage |-> s]]
Returns(o) == call' = [call EXCEPT ![o] = Idle]

CallsOnce(o) ==
  /\ call[o] = Idle
  /\ calls < MaxCalls
  /\ calls' = calls + 1

NewTargets == target' = [t \in Targets |-> "pending"]

CreateDraft(o) ==
  /\ CallsOnce(o)
  /\ status = "none" /\ Targets # {}
  /\ status' = "draft"
  /\ NewTargets
  /\ UNCHANGED <<stage, tried, queue, call, work>>

\* The older call creates a rollout that runs at once.
Create(o) ==
  /\ CallsOnce(o)
  /\ status = "none" /\ Targets # {}
  /\ status' = "running"
  /\ NewTargets
  /\ Goes(o, "enqueue", "create", 0)
  /\ UNCHANGED <<stage, tried, queue, work>>

StageDoneWhenBegun(s) ==
  \A t \in Targets : StageOf(t) = s => target[t] \in {"running", "completed"}
StageDone(s) == \A t \in Targets : StageOf(t) = s => target[t] = "completed"
LastStageEarly(s) == s = 2 \/ \A t \in Targets : StageOf(t) <= s
LastStage(s) == s = 3 \/ \A t \in Targets : StageOf(t) <= s

\* advance looks at the rollout and its targets, and decides.
LooksToAdvance(o) ==
  /\ status \notin {"paused", "failed"}
  /\ StageDone(stage)
  /\ IF LastStage(stage)
       THEN Goes(o, "write", "finish", stage)
       ELSE Goes(o, "write", "advance", stage + 1)

Allowed(op) ==
  CASE op \in {"start", "removeDraft"} -> status = "draft"
    [] op = "pause" -> status = "running"
    [] OTHER -> TRUE

Look(o, op) ==
  /\ CallsOnce(o)
  /\ Exists
  /\ \/ /\ op \in {"start", "pause", "removeDraft", "retry"}
        /\ Allowed(op)
        /\ Goes(o, "write", op, IF op = "start" THEN 0 ELSE stage)
     \/ /\ op = "advance"
        /\ LooksToAdvance(o)
  /\ UNCHANGED <<rows, queue, work>>

\* The advance inside a start or a create; it throws unless it may go on.
LookAgain(o) ==
  /\ call[o].at = "again"
  /\ IF Exists /\ status \notin {"paused", "failed"} /\ StageDone(stage)
       THEN LooksToAdvance(o)
       ELSE Returns(o)
  /\ UNCHANGED <<rows, queue, work, calls>>

\* Writing to a rollout that was removed meanwhile throws.
RowGone(o) ==
  /\ ~Exists
  /\ \/ call[o].at = "write" /\ call[o].op # "retry"
     \/ call[o].at = "retryRollout"
  /\ Returns(o)
  /\ UNCHANGED <<rows, queue, work, calls>>

WriteStart(o) ==
  /\ call[o].at = "write" /\ call[o].op = "start" /\ Exists
  /\ status' = "running" /\ stage' = 0
  /\ Goes(o, "enqueue", "start", 0)
  /\ UNCHANGED <<target, tried, queue, work, calls>>

WritePause(o) ==
  /\ call[o].at = "write" /\ call[o].op = "pause" /\ Exists
  /\ status' = "paused"
  /\ Returns(o)
  /\ UNCHANGED <<stage, target, tried, queue, work, calls>>

\* The rows of the targets go with the rollout; the jobs stay in the queue.
WriteRemoveDraft(o) ==
  /\ call[o].at = "write" /\ call[o].op = "removeDraft" /\ Exists
  /\ status' = "removed"
  /\ target' = [t \in Targets |-> "none"]
  /\ tried' = {}
  /\ Returns(o)
  /\ UNCHANGED <<stage, queue, work, calls>>

WriteFinish(o) ==
  /\ call[o].at = "write" /\ call[o].op = "finish" /\ Exists
  /\ status' = "completed"
  /\ Returns(o)
  /\ UNCHANGED <<stage, target, tried, queue, work, calls>>

WriteAdvanceCounts(o) ==
  /\ call[o].at = "write" /\ call[o].op = "advance" /\ Exists
  /\ status' = "running" /\ stage' = stage + 1
  /\ Goes(o, "enqueue", "advance", call[o].stage)
  /\ UNCHANGED <<target, tried, queue, work, calls>>

WriteAdvance(o) ==
  /\ call[o].at = "write" /\ call[o].op = "advance" /\ Exists
  /\ status' = "running" /\ stage' = call[o].stage
  /\ Goes(o, "enqueue", "advance", call[o].stage)
  /\ UNCHANGED <<target, tried, queue, work, calls>>

WriteRetry(o) ==
  /\ call[o].at = "write" /\ call[o].op = "retry"
  /\ target' = [t \in Targets |-> IF target[t] = "failed" THEN "pending" ELSE target[t]]
  /\ Goes(o, "retryRollout", "retry", call[o].stage)
  /\ UNCHANGED <<status, stage, tried, queue, work, calls>>

WriteRetryRollout(o) ==
  /\ call[o].at = "retryRollout" /\ Exists
  /\ status' = "running"
  /\ Goes(o, "enqueue", "retry", call[o].stage)
  /\ UNCHANGED <<stage, target, tried, queue, work, calls>>

Pending(s) == {t \in Targets : StageOf(t) = s /\ target[t] = "pending"}

\* The queue ignores a job whose identifier it knows.
Added(S) == [t \in Targets |-> IF t \in S /\ job[t] = "none" THEN "waiting" ELSE job[t]]

EnqueueStage(o) ==
  /\ call[o].at = "enqueue"
  /\ job' = Added(Pending(call[o].stage))
  /\ IF call[o].op \in {"start", "create"} /\ Pending(call[o].stage) = {}
       THEN Goes(o, "again", "advance", 0)
       ELSE Returns(o)
  /\ UNCHANGED <<rows, holder, stalled, work, calls>>

\* The process ends in the middle of a call, also between two jobs it adds.
ServerDies(o) ==
  /\ "server" \in Mortal
  /\ call[o] # Idle
  /\ \E S \in SUBSET Pending(call[o].stage) :
       job' = IF call[o].at = "enqueue" THEN Added(S) ELSE job
  /\ Returns(o)
  /\ UNCHANGED <<rows, holder, stalled, work, calls>>

-----------------------------------------------------------------------------
\* The queue (external) and the workers

Does(w, at, t) == work' = [work EXCEPT ![w] = [at |-> at, target |-> t]]
Rests(w) == Does(w, "idle", None)

Take(w, t) ==
  /\ work[w].at = "idle" /\ job[t] = "waiting"
  /\ job' = [job EXCEPT ![t] = "active"]
  /\ holder' = [holder EXCEPT ![t] = w]
  /\ Does(w, "claim", t)
  /\ UNCHANGED <<rows, stalled, call, calls>>

\* The end of a job counts only while the worker holds its lock.
JobEnds(w, t, result) ==
  IF holder[t] = w
    THEN /\ job' = [job EXCEPT ![t] = result]
         /\ holder' = [holder EXCEPT ![t] = None]
         /\ UNCHANGED stalled
    ELSE UNCHANGED queue

ClaimableAfterLease(t) == target[t] \in {"pending", "running"}
ClaimableAgain(t) == target[t] \in {"pending", "completed"}
Claimable(t) == target[t] = "pending"

\* The conditional update that claims a row: its lease is free while it is pending.
Claim(w) ==
  LET t == work[w].target IN
  /\ work[w].at = "claim"
  /\ IF Claimable(t)
       THEN /\ target' = [target EXCEPT ![t] = "running"]
            /\ tried' = tried \cup {t}
            /\ Does(w, "deploy", t)
            /\ UNCHANGED queue
       ELSE /\ JobEnds(w, t, "completed")
            /\ Rests(w)
            /\ UNCHANGED <<target, tried>>
  /\ UNCHANGED <<status, stage, call, calls>>

\* The migration of the tenant's database succeeds or not.
Deploy(w) ==
  /\ work[w].at = "deploy"
  /\ \E at \in {"record", "fail"} : Does(w, at, work[w].target)
  /\ UNCHANGED <<rows, queue, call, calls>>

RecordCompleted(w) ==
  LET t == work[w].target IN
  /\ work[w].at = "record" /\ target[t] # "none"
  /\ target' = [target EXCEPT ![t] = "completed"]
  /\ JobEnds(w, t, "completed")
  /\ Rests(w)
  /\ UNCHANGED <<status, stage, tried, call, calls>>

\* The write is refused, or the row is gone: the handler takes it for a failure.
RecordThrows(w) ==
  /\ work[w].at = "record"
  /\ Does(w, "fail", work[w].target)
  /\ UNCHANGED <<rows, queue, call, calls>>

\* One transaction for the target and the rollout.
RecordFailed(w) ==
  LET t == work[w].target IN
  /\ work[w].at = "fail" /\ target[t] # "none"
  /\ target' = [target EXCEPT ![t] = "failed"]
  /\ status' = "paused"
  /\ JobEnds(w, t, "failed")
  /\ Rests(w)
  /\ UNCHANGED <<stage, tried, call, calls>>

\* The transaction itself throws, and nothing is recorded.
FailureThrows(w) ==
  LET t == work[w].target IN
  /\ work[w].at = "fail"
  /\ JobEnds(w, t, "failed")
  /\ Rests(w)
  /\ UNCHANGED <<rows, call, calls>>

WorkerDies(w) ==
  /\ "worker" \in Mortal
  /\ work[w].at # "idle"
  /\ Rests(w)
  /\ UNCHANGED <<rows, queue, call, calls>>

\* A worker that died or was too busy to renew its lock loses it.
Stall(t) ==
  /\ job[t] = "active"
  /\ holder' = [holder EXCEPT ![t] = None]
  /\ IF t \in stalled
       THEN job' = [job EXCEPT ![t] = "failed"] /\ UNCHANGED stalled
       ELSE job' = [job EXCEPT ![t] = "waiting"] /\ stalled' = stalled \cup {t}
  /\ UNCHANGED <<rows, call, work, calls>>

\* Completed jobs are removed after a day, failed ones after a week.
Forget(t) ==
  /\ job[t] \in {"completed", "failed"}
  /\ job' = [job EXCEPT ![t] = "none"]
  /\ stalled' = stalled \ {t}
  /\ UNCHANGED <<rows, holder, call, work, calls>>

-----------------------------------------------------------------------------
Write(o) ==
  \/ RowGone(o) \/ WriteStart(o) \/ WritePause(o) \/ WriteRemoveDraft(o)
  \/ WriteFinish(o) \/ WriteAdvance(o) \/ WriteRetry(o) \/ WriteRetryRollout(o)

CallGoesOn(o) == LookAgain(o) \/ Write(o) \/ EnqueueStage(o)

WorkGoesOn(w) ==
  \/ Claim(w) \/ Deploy(w) \/ RecordCompleted(w) \/ RecordFailed(w)

Next ==
  \/ \E o \in Operators :
       \/ CreateDraft(o) \/ Create(o) \/ CallGoesOn(o) \/ ServerDies(o)
       \/ \E op \in Ops : Look(o, op)
  \/ \E w \in Workers :
       \/ \E t \in Targets : Take(w, t)
       \/ WorkGoesOn(w) \/ RecordThrows(w) \/ FailureThrows(w) \/ WorkerDies(w)
  \/ \E t \in Targets : Stall(t) \/ Forget(t)

Spec == Init /\ [][Next]_vars

\* Calls return, a worker takes a job that waits and goes on with it.
FairSpec ==
  /\ Spec
  /\ \A o \in Operators : WF_vars(CallGoesOn(o))
  /\ \A w \in Workers : WF_vars(\E t \in Targets : Take(w, t)) /\ WF_vars(WorkGoesOn(w))

-----------------------------------------------------------------------------
\* Properties

Migrated == {t \in Targets : target[t] = "completed"}

\* A tenant of a later stage is migrated, or was tried, only when all tenants
\* of the stages before it are migrated: "The current rollout stage is not
\* complete" (advance), whatever calls overlap and wherever a process dies.
StageGate ==
  \A t \in tried, u \in Targets : StageOf(u) < StageOf(t) => u \in Migrated

\* A rollout that says completed has migrated every tenant it was made for.
CompletedMeansAll == status = "completed" => Migrated = Targets

\* Two workers never migrate the same database at the same time, also when the
\* queue gives the job of a worker that is only slow to another one.
OneWorkerPerTenant ==
  \A v, w \in Workers :
    /\ v # w
    /\ work[v].at \in {"deploy", "record", "fail"}
    /\ work[w].at \in {"deploy", "record", "fail"}
    => work[v].target # work[w].target

\* Violated: a target that is pending in a stage the rollout has reached is
\* migrated or tried while the rollout runs ("resumable failures").
RetriedTargetsRun ==
  \A t \in Targets :
    (target[t] = "pending" /\ status = "running" /\ StageOf(t) <= stage)
      ~> (target[t] # "pending" \/ status # "running")

\* The rollout keeps the promise of StagedRollout.
Staged == INSTANCE StagedRollout WITH
  Tenants <- Targets, Stage <- [t \in Targets |-> StageOf(t)],
  touched <- tried, migrated <- Migrated, open <- (status # "removed")

KeepsStages == Staged!Spec
=============================================================================
