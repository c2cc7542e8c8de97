----------------------- MODULE MigrationRolloutProofs -----------------------
(***************************************************************************)
(* Theorems about MigrationRollout, for any tenants, operators, workers    *)
(* and calls, among them that it implements StagedRollout.  What a call    *)
(* has read stays true because migrated tenants stay migrated: whatever    *)
(* stage a call, a job or a worker is about, the stages before it are      *)
(* done, until the rollout is removed and nothing of it can be claimed.    *)
(***************************************************************************)
EXTENDS MigrationRollout, TLAPS

Statuses   == {"none", "draft", "running", "paused", "completed", "removed"}
RowStates  == {"none", "pending", "running", "completed", "failed"}
JobStates  == {"none", "waiting", "active", "completed", "failed"}
CallRecord == [at: CallSteps, op: Ops, stage: 0..3]
WorkRecord == [at: WorkSteps, target: Targets \cup {None}]

\* Targets have rows while the rollout exists, and no longer.
RowsExist ==
  /\ Exists => \A t \in Targets : target[t] # "none"
  /\ ~Exists => tried = {} /\ \A t \in Targets : target[t] = "none"

Migrates(w) == work[w].at \in {"deploy", "record", "fail"}

\* A worker that migrates a tenant has its row, and is the only one to have it.
RowsAreHeld ==
  \A w \in Workers :
    /\ work[w].at # "idle" => work[w].target \in Targets
    /\ Migrates(w) => \/ status = "removed"
                      \/ target[work[w].target] = "running" /\ work[w].target \in tried

\* Only an active job is locked.
LocksActive == \A t \in Targets : holder[t] # None => job[t] = "active"

\* All tenants of the stages before s are migrated.
Gated(s) == \A u \in Targets : StageOf(u) < s => u \in Migrated

GatesHold ==
  status # "removed" =>
    /\ Gated(stage)
    /\ \A o \in Operators : /\ Gated(call[o].stage)
                            /\ call[o].at = "write" /\ call[o].op = "finish" => Migrated = Targets
    /\ \A t \in Targets : job[t] # "none" => Gated(StageOf(t))
    /\ \A w \in Workers : work[w].at = "claim" => Gated(StageOf(work[w].target))
    /\ CompletedMeansAll

IInv == TypeOK /\ RowsExist /\ RowsAreHeld /\ LocksActive /\ OneWorkerPerTenant /\ GatesHold /\ StageGate
-----------------------------------------------------------------------------
(* What the parts of an action do. *)

LEMMA Types ==
  TypeOK <=> /\ status \in Statuses /\ stage \in 0..3
             /\ target \in [Targets -> RowStates] /\ tried \in SUBSET Targets
             /\ job \in [Targets -> JobStates]
             /\ holder \in [Targets -> Workers \cup {None}] /\ stalled \in SUBSET Targets
             /\ call \in [Operators -> CallRecord] /\ work \in [Workers -> WorkRecord]
             /\ calls \in 0..MaxCalls
BY DEF TypeOK, Statuses, RowStates, JobStates, CallRecord, WorkRecord

LEMMA Stages == \A t \in Targets : StageOf(t) \in 0..3
BY DEF StageOf

LEMMA GoesTo ==
  ASSUME TypeOK, NEW o \in Operators, NEW at \in CallSteps, NEW op \in Ops, NEW s \in 0..3,
         Goes(o, at, op, s)
  PROVE  /\ call' \in [Operators -> CallRecord]
         /\ call'[o] = [at |-> at, op |-> op, stage |-> s]
         /\ \A p \in Operators \ {o} : call'[p] = call[p]
BY Types DEF Goes, CallRecord

LEMMA ReturnsTo ==
  ASSUME TypeOK, NEW o \in Operators, Returns(o)
  PROVE  /\ call' \in [Operators -> CallRecord]
         /\ call'[o] = Idle /\ Idle.at = "idle" /\ Idle.stage = 0
         /\ \A p \in Operators \ {o} : call'[p] = call[p]
BY Types DEF Returns, Idle, CallRecord, CallSteps, Ops

LEMMA DoesTo ==
  ASSUME TypeOK, NEW w \in Workers, NEW at \in WorkSteps, NEW t \in Targets \cup {None},
         Does(w, at, t)
  PROVE  /\ work' \in [Workers -> WorkRecord]
         /\ work'[w].at = at /\ work'[w].target = t
         /\ \A v \in Workers \ {w} : work'[v] = work[v]
BY Types DEF Does, WorkRecord

LEMMA Ends ==
  ASSUME TypeOK, LocksActive, NEW w \in Workers, NEW t \in Targets,
         NEW result \in {"completed", "failed"}, JobEnds(w, t, result)
  PROVE  /\ job' \in [Targets -> JobStates]
         /\ holder' \in [Targets -> Workers \cup {None}]
         /\ stalled' = stalled /\ LocksActive'
         /\ \A u \in Targets : job'[u] # "none" => job[u] # "none"
<1>1. CASE holder[t] = w
  BY <1>1, Types, RolloutAssumption DEF JobEnds, JobStates, LocksActive
<1>2. CASE holder[t] # w
  BY <1>2, Types DEF JobEnds, queue, LocksActive
<1> QED BY <1>1, <1>2

LEMMA Adds ==
  ASSUME TypeOK, LocksActive, NEW S \in SUBSET Targets, job' = Added(S), holder' = holder
  PROVE  /\ job' \in [Targets -> JobStates] /\ LocksActive'
         /\ \A u \in Targets : job'[u] # "none" => job[u] # "none" \/ u \in S
BY Types DEF Added, JobStates, LocksActive

-----------------------------------------------------------------------------
(* Types and the locks of jobs. *)

LEMMA LookTypes ==
  ASSUME TypeOK, NEW o \in Operators, LooksToAdvance(o)
  PROVE  call' \in [Operators -> CallRecord]
<1>1. LastStage(stage) \/ stage + 1 \in 0..3
  BY Types DEF LastStage
<1> QED BY <1>1, Types, GoesTo DEF LooksToAdvance, CallSteps, Ops

LEMMA CallTypes ==
  ASSUME TypeOK, NEW o \in Operators, CallGoesOn(o)
  PROVE  call' \in [Operators -> CallRecord]
<1>1. call[o].stage \in 0..3
  BY Types DEF CallRecord
<1>2. CASE Returns(o)
  BY <1>2, ReturnsTo
<1>3. CASE LookAgain(o)
  BY <1>2, <1>3, LookTypes DEF LookAgain
<1>4. CASE Write(o)
  <2>1. \/ Returns(o)
        \/ \E at \in CallSteps, op \in Ops : Goes(o, at, op, call[o].stage) \/ Goes(o, at, op, 0)
    BY <1>4 DEF Write, RowGone, WriteStart, WritePause, WriteRemoveDraft, WriteFinish,
                WriteAdvance, WriteRetry, WriteRetryRollout, CallSteps, Ops
  <2>2. ASSUME NEW at \in CallSteps, NEW op \in Ops,
               Goes(o, at, op, call[o].stage) \/ Goes(o, at, op, 0)
        PROVE  call' \in [Operators -> CallRecord]
    <3>1. 0 \in 0..3
      OBVIOUS
    <3> QED BY <1>1, <2>2, <3>1, GoesTo
  <2> QED BY <1>2, <2>1, <2>2
<1>5. CASE EnqueueStage(o)
  <2>1. Returns(o) \/ Goes(o, "again", "advance", 0)
    BY <1>5 DEF EnqueueStage
  <2>2. "again" \in CallSteps /\ "advance" \in Ops /\ 0 \in 0..3
    BY DEF CallSteps, Ops
  <2> QED BY <1>2, <2>1, <2>2, GoesTo
<1> QED BY <1>3, <1>4, <1>5 DEF CallGoesOn

LEMMA TypeStep ==
  TypeOK /\ RowsAreHeld /\ LocksActive /\ [Next]_vars => TypeOK' /\ LocksActive'
<1> SUFFICES ASSUME TypeOK, RowsAreHeld, LocksActive, [Next]_vars
             PROVE  TypeOK' /\ LocksActive'
  OBVIOUS
<1>types. ASSUME status' \in Statuses, stage' \in 0..3, target' \in [Targets -> RowStates],
                 tried' \in SUBSET Targets, job' \in [Targets -> JobStates],
                 holder' \in [Targets -> Workers \cup {None}], stalled' \in SUBSET Targets,
                 call' \in [Operators -> CallRecord], work' \in [Workers -> WorkRecord],
                 calls' \in 0..MaxCalls
          PROVE  TypeOK'
  BY <1>types DEF TypeOK, Statuses, RowStates, JobStates, CallRecord, WorkRecord
<1>1. ASSUME NEW o \in Operators,
             \/ CreateDraft(o) \/ Create(o) \/ \E op \in Ops : Look(o, op)
      PROVE  TypeOK' /\ LocksActive'
  <2>1. calls' \in 0..MaxCalls
    BY <1>1, Types, RolloutAssumption DEF CreateDraft, Create, Look, CallsOnce
  <2>2. call' \in [Operators -> CallRecord]
    <3>1. ASSUME NEW op \in Ops, Look(o, op) PROVE <2>2
      <4>1. CASE LooksToAdvance(o)
        BY <4>1, LookTypes
      <4>2. CASE Goes(o, "write", op, IF op = "start" THEN 0 ELSE stage)
        <5>1. (IF op = "start" THEN 0 ELSE stage) \in 0..3
          BY Types
        <5> QED BY <4>2, <5>1, GoesTo DEF CallSteps
      <4> QED BY <3>1, <4>1, <4>2 DEF Look
    <3>2. CASE CreateDraft(o)
      BY <3>2, Types DEF CreateDraft
    <3>3. CASE Create(o)
      <4>1. "enqueue" \in CallSteps /\ "create" \in Ops /\ 0 \in 0..3
        BY DEF CallSteps, Ops
      <4>2. Goes(o, "enqueue", "create", 0)
        BY <3>3 DEF Create
      <4> QED BY <4>1, <4>2, GoesTo
    <3> QED BY <1>1, <3>1, <3>2, <3>3
  <2>3. UNCHANGED <<queue, stage, tried, work>>
    BY <1>1 DEF CreateDraft, Create, Look, rows
  <2>4. status' \in Statuses /\ target' \in [Targets -> RowStates]
    BY <1>1, Types DEF CreateDraft, Create, Look, rows, NewTargets, Statuses, RowStates
  <2> QED BY <1>types, <2>1, <2>2, <2>3, <2>4, Types DEF queue, LocksActive
<1>2. ASSUME NEW o \in Operators, CallGoesOn(o) PROVE TypeOK' /\ LocksActive'
  <2>1. call' \in [Operators -> CallRecord]
    BY <1>2, CallTypes
  <2>2. CASE EnqueueStage(o)
    <3>1. job' \in [Targets -> JobStates] /\ LocksActive'
      BY <2>2, Adds DEF EnqueueStage, Pending
    <3> QED BY <1>types, <2>1, <2>2, <3>1, Types DEF EnqueueStage, rows
  <2>3. CASE LookAgain(o)
    BY <1>types, <2>1, <2>3, Types DEF LookAgain, rows, queue, LocksActive
  <2>4. CASE Write(o)
    <3>1. status' \in Statuses /\ stage' \in 0..3 /\ tried' \in SUBSET Targets
      BY <2>4, Types
      DEF Write, RowGone, WriteStart, WritePause, WriteRemoveDraft, WriteFinish,
          WriteAdvance, WriteRetry, WriteRetryRollout, rows, Statuses, CallRecord
    <3>2. target' \in [Targets -> RowStates]
      BY <2>4, Types
      DEF Write, RowGone, WriteStart, WritePause, WriteRemoveDraft, WriteFinish,
          WriteAdvance, WriteRetry, WriteRetryRollout, rows, RowStates
    <3>3. UNCHANGED <<queue, work, calls>>
      BY <2>4 DEF Write, RowGone, WriteStart, WritePause, WriteRemoveDraft, WriteFinish,
                  WriteAdvance, WriteRetry, WriteRetryRollout
    <3> QED BY <1>types, <2>1, <3>1, <3>2, <3>3, Types DEF queue, LocksActive
  <2> QED BY <1>2, <2>2, <2>3, <2>4 DEF CallGoesOn
<1>3. ASSUME NEW o \in Operators, ServerDies(o) PROVE TypeOK' /\ LocksActive'
  <2>1. PICK S \in SUBSET Targets : job' = Added(S) \/ job' = job
    BY <1>3 DEF ServerDies, Pending
  <2>2. job' \in [Targets -> JobStates] /\ LocksActive' /\ call' \in [Operators -> CallRecord]
    BY <1>3, <2>1, Adds, ReturnsTo, Types DEF ServerDies, LocksActive
  <2> QED BY <1>types, <1>3, <2>2, Types DEF ServerDies, rows
<1>4. ASSUME NEW w \in Workers, NEW t \in Targets, Take(w, t) PROVE TypeOK' /\ LocksActive'
  <2>1. job' \in [Targets -> JobStates] /\ holder' \in [Targets -> Workers \cup {None}]
    BY <1>4, Types DEF Take, JobStates
  <2>2. work' \in [Workers -> WorkRecord]
    BY <1>4, DoesTo DEF Take, WorkSteps
  <2>3. LocksActive'
    BY <1>4, Types DEF Take, LocksActive
  <2> QED BY <1>types, <1>4, <2>1, <2>2, <2>3, Types DEF Take, rows
<1>5. ASSUME NEW w \in Workers, work[w].at # "idle",
             \/ Claim(w) \/ Deploy(w) \/ RecordCompleted(w) \/ RecordFailed(w)
             \/ RecordThrows(w) \/ FailureThrows(w) \/ WorkerDies(w)
      PROVE  TypeOK' /\ LocksActive'
  <2> DEFINE t == work[w].target
  <2>1. t \in Targets
    BY <1>5 DEF RowsAreHeld
  <2>2. work' \in [Workers -> WorkRecord]
    BY <1>5, <2>1, DoesTo
    DEF Claim, Deploy, RecordCompleted, RecordFailed, RecordThrows, FailureThrows, WorkerDies,
        Rests, WorkSteps
  <2>3. /\ status' \in Statuses /\ stage' = stage
        /\ tried' \in SUBSET Targets /\ call' = call /\ calls' = calls
    BY <1>5, <2>1, Types
    DEF Claim, Deploy, RecordCompleted, RecordFailed, RecordThrows, FailureThrows, WorkerDies,
        rows, Statuses
  <2>4. target' \in [Targets -> RowStates]
    BY <1>5, <2>1, Types
    DEF Claim, Deploy, RecordCompleted, RecordFailed, RecordThrows, FailureThrows, WorkerDies,
        rows, RowStates
  <2>5. /\ job' \in [Targets -> JobStates] /\ holder' \in [Targets -> Workers \cup {None}]
        /\ stalled' = stalled /\ LocksActive'
    <3>1. CASE UNCHANGED queue
      BY <3>1, Types DEF queue, LocksActive
    <3>2. CASE \E result \in {"completed", "failed"} : JobEnds(w, t, result)
      BY <2>1, <3>2, Ends
    <3> QED BY <1>5, <3>1, <3>2
            DEF Claim, Deploy, RecordCompleted, RecordFailed, RecordThrows, FailureThrows, WorkerDies
  <2> QED BY <1>types, <2>2, <2>3, <2>4, <2>5, Types
<1>6. ASSUME NEW t \in Targets, Stall(t) \/ Forget(t) PROVE TypeOK' /\ LocksActive'
  <2>1. /\ job' \in [Targets -> JobStates] /\ holder' \in [Targets -> Workers \cup {None}]
        /\ stalled' \in SUBSET Targets
    BY <1>6, Types DEF Stall, Forget, JobStates
  <2>2. LocksActive'
    BY <1>6, Types DEF Stall, Forget, LocksActive
  <2> QED BY <1>types, <1>6, <2>1, <2>2, Types DEF Stall, Forget, rows
<1>7. CASE UNCHANGED vars
  BY <1>7, <1>types, Types DEF vars, rows, queue, LocksActive
<1>8. \A w \in Workers :
        \/ Claim(w) \/ Deploy(w) \/ RecordCompleted(w) \/ RecordFailed(w)
        \/ RecordThrows(w) \/ FailureThrows(w) \/ WorkerDies(w)
        => work[w].at # "idle"
  BY DEF Claim, Deploy, RecordCompleted, RecordFailed, RecordThrows, FailureThrows, WorkerDies
<1> QED BY <1>1, <1>2, <1>3, <1>4, <1>5, <1>6, <1>7, <1>8 DEF Next, WorkGoesOn
-----------------------------------------------------------------------------
(* Rows, and the workers that hold them. *)

\* Steps of the calls: no worker moves and no held row changes, unless the
\* rollout is removed.
LEMMA HeldKept ==
  ASSUME RowsAreHeld, OneWorkerPerTenant, UNCHANGED <<work>>,
         status = "removed" => status' = "removed",
         \/ status' = "removed"
         \/ /\ tried \subseteq tried'
            /\ \A t \in Targets : target[t] = "running" => target'[t] = "running"
  PROVE  RowsAreHeld' /\ OneWorkerPerTenant'
BY DEF RowsAreHeld, OneWorkerPerTenant, Migrates

LEMMA ClaimRows ==
  ASSUME TypeOK, RowsExist, RowsAreHeld, OneWorkerPerTenant, NEW w \in Workers, Claim(w)
  PROVE  RowsExist' /\ RowsAreHeld' /\ OneWorkerPerTenant'
<1> DEFINE t == work[w].target
<1>1. t \in Targets /\ status' = status
  BY DEF Claim, RowsAreHeld
<1>2. CASE Claimable(t)
  <2>1. target' = [target EXCEPT ![t] = "running"] /\ tried' = tried \cup {t}
    BY <1>2 DEF Claim
  <2>2. /\ work'[w].at = "deploy" /\ work'[w].target = t
        /\ \A v \in Workers \ {w} : work'[v] = work[v]
    BY <1>1, <1>2, DoesTo DEF Claim, WorkSteps
  <2>3. Exists /\ status # "removed"
    BY <1>1, <1>2 DEF Claimable, RowsExist, Exists
  <2>4. \A v \in Workers : Migrates(v) => work[v].target # t
    BY <1>2, <2>3 DEF RowsAreHeld, Claimable
  <2>5. RowsExist'
    BY <1>1, <2>1, <2>3, Types DEF RowsExist, Exists
  <2>6. RowsAreHeld'
    BY <1>1, <2>1, <2>2, <2>3, Types DEF RowsAreHeld, Migrates
  <2> QED BY <2>2, <2>4, <2>5, <2>6 DEF OneWorkerPerTenant, Migrates
<1>3. CASE ~Claimable(t)
  <2>1. /\ work'[w].at = "idle" /\ \A v \in Workers \ {w} : work'[v] = work[v]
        /\ UNCHANGED <<target, tried>>
    BY <1>3, DoesTo DEF Claim, Rests, WorkSteps
  <2> QED BY <1>1, <2>1 DEF RowsExist, Exists, RowsAreHeld, OneWorkerPerTenant, Migrates
<1> QED BY <1>2, <1>3

\* The later steps of a worker: it goes on with its row or lets go of it.
LEMMA WorkerRows ==
  ASSUME TypeOK, RowsExist, RowsAreHeld, OneWorkerPerTenant, NEW w \in Workers,
         \/ Deploy(w) \/ RecordCompleted(w) \/ RecordFailed(w)
         \/ RecordThrows(w) \/ FailureThrows(w) \/ WorkerDies(w)
  PROVE  RowsExist' /\ RowsAreHeld' /\ OneWorkerPerTenant'
<1> DEFINE t == work[w].target
<1>1. t \in Targets
  BY DEF Deploy, RecordCompleted, RecordFailed, RecordThrows, FailureThrows, WorkerDies, RowsAreHeld
<1>2. \A v \in Workers \ {w} : work'[v] = work[v]
  BY <1>1, DoesTo DEF Deploy, RecordCompleted, RecordFailed, RecordThrows, FailureThrows,
                      WorkerDies, Rests, WorkSteps
<1>3. CASE Deploy(w) \/ RecordThrows(w)
  <2>1. Migrates(w) /\ work'[w].at \in {"record", "fail"} /\ work'[w].target = t
    BY <1>1, <1>3, DoesTo DEF Deploy, RecordThrows, Migrates, WorkSteps
  <2>2. UNCHANGED <<status, target, tried>>
    BY <1>3 DEF Deploy, RecordThrows, rows
  <2> QED BY <1>2, <2>1, <2>2 DEF RowsExist, Exists, RowsAreHeld, OneWorkerPerTenant, Migrates
<1>4. CASE FailureThrows(w) \/ WorkerDies(w)
  <2>1. work'[w].at = "idle"
    BY <1>4, DoesTo DEF FailureThrows, WorkerDies, Rests, WorkSteps
  <2>2. UNCHANGED <<status, target, tried>>
    BY <1>4 DEF FailureThrows, WorkerDies, rows
  <2> QED BY <1>2, <2>1, <2>2 DEF RowsExist, Exists, RowsAreHeld, OneWorkerPerTenant, Migrates
<1>5. CASE RecordCompleted(w) \/ RecordFailed(w)
  <2>1. work'[w].at = "idle"
    BY <1>5, DoesTo DEF RecordCompleted, RecordFailed, Rests, WorkSteps
  <2>2. Migrates(w) /\ Exists
    BY <1>1, <1>5 DEF RecordCompleted, RecordFailed, Migrates, RowsExist
  <2>3. PICK e \in {"completed", "failed"} : target' = [target EXCEPT ![t] = e]
    BY <1>5 DEF RecordCompleted, RecordFailed
  <2>4. Exists' /\ status' # "removed" /\ status # "removed" /\ tried' = tried
    BY <1>5, <2>2 DEF RecordCompleted, RecordFailed, Exists
  <2>5. \A v \in Workers \ {w} : Migrates(v) => work[v].target # t
    BY <2>2 DEF OneWorkerPerTenant, Migrates
  <2>6. RowsExist'
    BY <1>1, <2>2, <2>3, <2>4, Types DEF RowsExist
  <2>7. RowsAreHeld'
    BY <1>1, <1>2, <2>1, <2>3, <2>4, <2>5, Types DEF RowsAreHeld, Migrates
  <2> QED BY <1>2, <2>1, <2>6, <2>7 DEF OneWorkerPerTenant, Migrates
<1> QED BY <1>3, <1>4, <1>5

LEMMA CallRows ==
  ASSUME TypeOK, RowsExist, RowsAreHeld, OneWorkerPerTenant, NEW o \in Operators,
         \/ CreateDraft(o) \/ Create(o) \/ CallGoesOn(o) \/ ServerDies(o)
         \/ \E op \in Ops : Look(o, op)
  PROVE  RowsExist' /\ RowsAreHeld' /\ OneWorkerPerTenant'
<1>1. work' = work
  BY DEF CreateDraft, Create, CallGoesOn, ServerDies, Look, LookAgain, Write, EnqueueStage,
         RowGone, WriteStart, WritePause, WriteRemoveDraft, WriteFinish, WriteAdvance,
         WriteRetry, WriteRetryRollout
<1>2. CASE CreateDraft(o) \/ Create(o)
  <2>1. /\ status = "none" /\ Exists' /\ tried' = tried
        /\ target' = [t \in Targets |-> "pending"]
    BY <1>2 DEF CreateDraft, Create, NewTargets, Exists
  <2>2. \A t \in Targets : target[t] = "none"
    BY <2>1 DEF RowsExist, Exists
  <2> QED BY <1>1, <2>1, <2>2, HeldKept DEF RowsExist
<1>3. CASE \/ ServerDies(o) \/ LookAgain(o) \/ EnqueueStage(o) \/ RowGone(o)
           \/ \E op \in Ops : Look(o, op)
  <2>1. UNCHANGED <<status, target, tried>>
    BY <1>3 DEF ServerDies, LookAgain, EnqueueStage, RowGone, Look, rows
  <2> QED BY <1>1, <2>1, HeldKept DEF RowsExist, Exists
<1>4. CASE \/ WriteStart(o) \/ WritePause(o) \/ WriteFinish(o) \/ WriteAdvance(o)
           \/ WriteRetryRollout(o)
  <2>1. UNCHANGED <<target, tried>> /\ Exists /\ Exists' /\ status # "removed"
    BY <1>4 DEF WriteStart, WritePause, WriteFinish, WriteAdvance, WriteRetryRollout, Exists
  <2> QED BY <1>1, <2>1, HeldKept DEF RowsExist
<1>5. CASE WriteRemoveDraft(o)
  BY <1>1, <1>5, HeldKept DEF WriteRemoveDraft, RowsExist, Exists
<1>6. CASE WriteRetry(o)
  <2>1. /\ UNCHANGED <<status, tried>>
        /\ \A t \in Targets : target'[t] # target[t] => target[t] = "failed" /\ target'[t] = "pending"
    BY <1>6 DEF WriteRetry
  <2> QED BY <1>1, <2>1, HeldKept DEF RowsExist, Exists
<1> QED BY <1>2, <1>3, <1>4, <1>5, <1>6 DEF CallGoesOn, Write

LEMMA RowStep ==
  TypeOK /\ RowsExist /\ RowsAreHeld /\ OneWorkerPerTenant /\ [Next]_vars
    => RowsExist' /\ RowsAreHeld' /\ OneWorkerPerTenant'
<1> SUFFICES ASSUME TypeOK, RowsExist, RowsAreHeld, OneWorkerPerTenant, [Next]_vars
             PROVE  RowsExist' /\ RowsAreHeld' /\ OneWorkerPerTenant'
  OBVIOUS
<1>1. ASSUME NEW w \in Workers, NEW t \in Targets, Take(w, t)
      PROVE  RowsExist' /\ RowsAreHeld' /\ OneWorkerPerTenant'
  <2>1. /\ work'[w].at = "claim" /\ work'[w].target = t
        /\ \A v \in Workers \ {w} : work'[v] = work[v]
    BY <1>1, DoesTo DEF Take, WorkSteps
  <2>2. UNCHANGED <<status, target, tried>>
    BY <1>1 DEF Take, rows
  <2> QED BY <2>1, <2>2 DEF RowsExist, Exists, RowsAreHeld, OneWorkerPerTenant, Migrates
<1>2. ASSUME UNCHANGED <<status, target, tried, work>>
      PROVE  RowsExist' /\ RowsAreHeld' /\ OneWorkerPerTenant'
  BY <1>2, HeldKept DEF RowsExist, Exists
<1>3. ASSUME NEW t \in Targets, Stall(t) \/ Forget(t)
      PROVE  UNCHANGED <<status, target, tried, work>>
  BY <1>3 DEF Stall, Forget, rows
<1>4. UNCHANGED vars => UNCHANGED <<status, target, tried, work>>
  BY DEF vars, rows
<1> QED BY <1>1, <1>2, <1>3, <1>4, ClaimRows, WorkerRows, CallRows DEF Next, WorkGoesOn
-----------------------------------------------------------------------------
(* Gates: migrated tenants stay migrated, so a gate that is open stays open. *)

\* A removed rollout stays removed, and until then no tenant is unmigrated.
LEMMA MigratedStay ==
  ASSUME TypeOK, RowsExist, RowsAreHeld, [Next]_vars, status' # "removed"
  PROVE  status # "removed" /\ Migrated \subseteq Migrated'
<1>1. ASSUME UNCHANGED <<status, target>> PROVE status # "removed" /\ Migrated \subseteq Migrated'
  BY <1>1 DEF Migrated
<1>2. ASSUME NEW o \in Operators, CreateDraft(o) \/ Create(o)
      PROVE  status # "removed" /\ Migrated \subseteq Migrated'
  BY <1>2 DEF CreateDraft, Create, RowsExist, Exists, Migrated
<1>3. ASSUME NEW o \in Operators, Write(o)
      PROVE  status # "removed" /\ Migrated \subseteq Migrated'
  <2>1. status # "removed"
    BY <1>3 DEF Write, RowGone, WriteStart, WritePause, WriteRemoveDraft, WriteFinish,
                WriteAdvance, WriteRetry, WriteRetryRollout, Exists, rows
  <2>2. CASE WriteRetry(o)
    BY <2>1, <2>2 DEF WriteRetry, Migrated
  <2>3. CASE ~WriteRetry(o)
    <3>1. target' = target
      BY <1>3, <2>3 DEF Write, RowGone, WriteStart, WritePause, WriteRemoveDraft, WriteFinish,
                        WriteAdvance, WriteRetryRollout, rows
    <3> QED BY <2>1, <3>1 DEF Migrated
  <2> QED BY <2>2, <2>3
<1>4. ASSUME NEW o \in Operators,
             LookAgain(o) \/ EnqueueStage(o) \/ ServerDies(o) \/ \E op \in Ops : Look(o, op)
      PROVE  UNCHANGED <<status, target>>
  BY <1>4 DEF LookAgain, EnqueueStage, ServerDies, Look, rows
<1>5. ASSUME NEW w \in Workers, Claim(w) PROVE status # "removed" /\ Migrated \subseteq Migrated'
  BY <1>5, Types DEF Claim, Claimable, Migrated
<1>6. ASSUME NEW w \in Workers, RecordCompleted(w) \/ RecordFailed(w)
      PROVE  status # "removed" /\ Migrated \subseteq Migrated'
  <2>1. work[w].target \in Targets /\ status # "removed" /\ target[work[w].target] = "running"
    BY <1>6 DEF RecordCompleted, RecordFailed, RowsAreHeld, RowsExist, Exists, Migrates
  <2> QED BY <1>6, <2>1, Types DEF RecordCompleted, RecordFailed, Migrated
<1>7. ASSUME NEW w \in Workers,
             \/ \E t \in Targets : Take(w, t)
             \/ Deploy(w) \/ RecordThrows(w) \/ FailureThrows(w) \/ WorkerDies(w)
      PROVE  UNCHANGED <<status, target>>
  BY <1>7 DEF Take, Deploy, RecordThrows, FailureThrows, WorkerDies, rows
<1>8. ASSUME NEW t \in Targets, Stall(t) \/ Forget(t) PROVE UNCHANGED <<status, target>>
  BY <1>8 DEF Stall, Forget, rows
<1>9. UNCHANGED vars => UNCHANGED <<status, target>>
  BY DEF vars, rows
<1> QED BY <1>1, <1>2, <1>3, <1>4, <1>5, <1>6, <1>7, <1>8, <1>9 DEF Next, CallGoesOn, WorkGoesOn

\* Whatever the next state points at is behind a gate that is open already.
StageOpens == Gated(stage') /\ (status' = "completed" => Migrated = Targets)
CallsOpen ==
  \A o \in Operators : /\ Gated(call'[o].stage)
                       /\ call'[o].at = "write" /\ call'[o].op = "finish" => Migrated = Targets
JobsOpen == \A t \in Targets : job'[t] # "none" => Gated(StageOf(t))
WorkOpens ==
  /\ \A w \in Workers : work'[w].at = "claim" => Gated(StageOf(work'[w].target))
  /\ \A t \in tried' : Gated(StageOf(t))

LEMMA GateKept ==
  ASSUME TypeOK', RowsExist',
         status' # "removed" => /\ Migrated \subseteq Migrated'
                                /\ StageOpens /\ CallsOpen /\ JobsOpen /\ WorkOpens
  PROVE  GatesHold' /\ StageGate'
<1>1. CASE status' = "removed"
  BY <1>1 DEF GatesHold, RowsExist, Exists, StageGate
<1>2. CASE status' # "removed"
  <2>1. Migrated \subseteq Migrated' /\ Migrated' \subseteq Targets
    BY <1>2 DEF Migrated
  <2>2. \A s : Gated(s) => Gated(s)'
    BY <2>1 DEF Gated
  <2>3. StageOpens /\ CallsOpen /\ JobsOpen /\ WorkOpens
    BY <1>2
  <2>4. Gated(stage)' /\ CompletedMeansAll'
    <3>1. Gated(stage') => \A u \in Targets : StageOf(u) < stage' => u \in Migrated'
      BY <2>1 DEF Gated
    <3> QED BY <2>1, <2>3, <3>1 DEF StageOpens, Gated, CompletedMeansAll
  <2>5. \A o \in Operators : /\ Gated(call[o].stage)'
                             /\ call'[o].at = "write" /\ call'[o].op = "finish" => Migrated' = Targets
    BY <2>1, <2>3 DEF CallsOpen, Gated
  <2>6. \A t \in Targets : job'[t] # "none" => Gated(StageOf(t))'
    BY <2>2, <2>3 DEF JobsOpen, Gated
  <2>7. \A w \in Workers : work'[w].at = "claim" => Gated(StageOf(work[w].target))'
    BY <2>1, <2>3 DEF WorkOpens, Gated
  <2>8. StageGate'
    BY <2>1, <2>3 DEF WorkOpens, Gated, StageGate
  <2> QED BY <2>4, <2>5, <2>6, <2>7, <2>8 DEF GatesHold
<1> QED BY <1>1, <1>2

LEMMA FirstStageOpen == Gated(0)
BY Stages DEF Gated

LEMMA AdvanceOpens ==
  ASSUME TypeOK, GatesHold, status # "removed", NEW o \in Operators, LooksToAdvance(o)
  PROVE  CallsOpen
<1>1. Gated(stage) /\ StageDone(stage) /\ stage \in 0..3
  BY Types DEF LooksToAdvance, GatesHold
<1>g. "write" \in CallSteps /\ "finish" \in Ops /\ "advance" \in Ops
  BY DEF CallSteps, Ops
<1>2. CASE LastStage(stage)
  <2>1. Migrated = Targets
    BY <1>1, <1>2, Stages DEF LastStage, StageDone, Gated, Migrated
  <2>2. /\ call'[o].stage = stage
        /\ \A p \in Operators \ {o} : call'[p] = call[p]
    <3>1. Goes(o, "write", "finish", stage)
      BY <1>2 DEF LooksToAdvance
    <3>2. /\ call'[o] = [at |-> "write", op |-> "finish", stage |-> stage]
          /\ \A p \in Operators \ {o} : call'[p] = call[p]
      BY <1>1, <1>g, <3>1, GoesTo
    <3> QED BY <3>2
  <2> QED BY <1>1, <2>1, <2>2 DEF CallsOpen, GatesHold
<1>3. CASE ~LastStage(stage)
  <2>1. stage + 1 \in 0..3
    BY <1>1, <1>3 DEF LastStage
  <2>2. Gated(stage + 1)
    BY <1>1, Stages DEF StageDone, Gated, Migrated
  <2>3. /\ call'[o] = [at |-> "write", op |-> "advance", stage |-> stage + 1]
        /\ \A p \in Operators \ {o} : call'[p] = call[p]
    <3>1. Goes(o, "write", "advance", stage + 1)
      BY <1>3 DEF LooksToAdvance
    <3> QED BY <1>g, <2>1, <3>1, GoesTo
  <2> QED BY <2>2, <2>3 DEF CallsOpen, GatesHold
<1> QED BY <1>2, <1>3

LEMMA CallOpens ==
  ASSUME TypeOK, GatesHold, status # "removed", NEW o \in Operators,
         \/ Returns(o)
         \/ \E at \in CallSteps, op \in Ops \ {"finish"}, s \in {0, stage, call[o].stage} :
              Goes(o, at, op, s)
  PROVE  CallsOpen
<1>1. CASE Returns(o)
  BY <1>1, ReturnsTo, FirstStageOpen DEF CallsOpen, GatesHold
<1>2. ASSUME NEW at \in CallSteps, NEW op \in Ops \ {"finish"},
             NEW s \in {0, stage, call[o].stage}, Goes(o, at, op, s)
      PROVE  CallsOpen
  <2>1. s \in 0..3
    BY Types DEF CallRecord
  <2>2. Gated(s)
    BY FirstStageOpen DEF GatesHold
  <2>3. /\ call'[o] = [at |-> at, op |-> op, stage |-> s]
        /\ \A p \in Operators \ {o} : call'[p] = call[p]
    BY <1>2, <2>1, GoesTo
  <2>4. call'[o].stage = s /\ call'[o].op # "finish"
    BY <2>3
  <2> QED BY <2>2, <2>3, <2>4 DEF CallsOpen, GatesHold
<1> QED BY <1>1, <1>2

\* The calls of the operators.
LEMMA CallGates ==
  ASSUME TypeOK, LocksActive, GatesHold, StageGate, status # "removed", status' # "removed",
         NEW o \in Operators,
         \/ CreateDraft(o) \/ Create(o) \/ CallGoesOn(o) \/ ServerDies(o)
         \/ \E op \in Ops : Look(o, op)
  PROVE  StageOpens /\ CallsOpen /\ JobsOpen /\ WorkOpens
<1> DEFINE Writes ==
      \/ RowGone(o) \/ WriteStart(o) \/ WritePause(o) \/ WriteFinish(o)
      \/ WriteAdvance(o) \/ WriteRetry(o) \/ WriteRetryRollout(o)
<1>1. WorkOpens
  <2>1. work' = work /\ tried' = tried
    BY DEF CreateDraft, Create, CallGoesOn, ServerDies, Look, LookAgain, Write, EnqueueStage,
           RowGone, WriteStart, WritePause, WriteRemoveDraft, WriteFinish, WriteAdvance,
           WriteRetry, WriteRetryRollout, rows
  <2> QED BY <2>1 DEF WorkOpens, GatesHold, StageGate, Gated
<1>2. ~WriteRemoveDraft(o)
  BY DEF WriteRemoveDraft
<1>3. CASE Writes
  <2>1. StageOpens
    BY <1>3, FirstStageOpen
    DEF RowGone, WriteStart, WritePause, WriteFinish, WriteAdvance, WriteRetry,
        WriteRetryRollout, rows, StageOpens, GatesHold, CompletedMeansAll
  <2>2. job' = job
    BY <1>3 DEF RowGone, WriteStart, WritePause, WriteFinish, WriteAdvance, WriteRetry,
                WriteRetryRollout, queue
  <2>3. CallsOpen
    <3>1. \/ Returns(o)
          \/ \E at \in CallSteps, op \in Ops \ {"finish"}, s \in {0, stage, call[o].stage} :
               Goes(o, at, op, s)
      BY <1>3 DEF RowGone, WriteStart, WritePause, WriteFinish, WriteAdvance, WriteRetry,
                  WriteRetryRollout, CallSteps, Ops
    <3> QED BY <3>1, CallOpens
  <2> QED BY <1>1, <2>1, <2>2, <2>3 DEF JobsOpen, GatesHold
<1>4. CASE LookAgain(o) \/ \E op \in Ops : Look(o, op)
  <2>1. UNCHANGED <<status, stage, job>>
    BY <1>4 DEF LookAgain, Look, rows, queue
  <2>2. CallsOpen
    <3>1. \/ LooksToAdvance(o) \/ Returns(o)
          \/ \E op \in Ops \ {"finish"}, s \in {0, stage} : Goes(o, "write", op, s)
      BY <1>4 DEF LookAgain, Look, Ops
    <3>2. "write" \in CallSteps
      BY DEF CallSteps
    <3> QED BY <3>1, <3>2, AdvanceOpens, CallOpens
  <2> QED BY <1>1, <2>1, <2>2 DEF StageOpens, JobsOpen, GatesHold, CompletedMeansAll
<1>5. CASE CreateDraft(o) \/ Create(o)
  <2>1. UNCHANGED <<stage, job>> /\ status' # "completed"
    BY <1>5 DEF CreateDraft, Create, queue
  <2>2. CallsOpen
    <3>1. \/ call' = call
          \/ Goes(o, "enqueue", "create", 0)
      BY <1>5 DEF CreateDraft, Create
    <3>2. "enqueue" \in CallSteps /\ "create" \in Ops \ {"finish"}
      BY DEF CallSteps, Ops
    <3>3. call' = call => CallsOpen
      BY DEF CallsOpen, GatesHold
    <3> QED BY <3>1, <3>2, <3>3, CallOpens
  <2> QED BY <1>1, <2>1, <2>2 DEF StageOpens, JobsOpen, GatesHold
<1>6. CASE EnqueueStage(o) \/ ServerDies(o)
  <2>1. UNCHANGED <<status, stage, holder>>
    BY <1>6 DEF EnqueueStage, ServerDies, rows
  <2>2. CallsOpen
    <3>1. Returns(o) \/ Goes(o, "again", "advance", 0)
      BY <1>6 DEF EnqueueStage, ServerDies
    <3>2. "again" \in CallSteps /\ "advance" \in Ops \ {"finish"}
      BY DEF CallSteps, Ops
    <3> QED BY <3>1, <3>2, CallOpens
  <2>3. JobsOpen
    <3>1. \/ job' = job
          \/ \E S \in SUBSET Pending(call[o].stage) : job' = Added(S)
      BY <1>6 DEF EnqueueStage, ServerDies
    <3>2. Pending(call[o].stage) \subseteq {t \in Targets : StageOf(t) = call[o].stage}
      BY DEF Pending
    <3>3. \A t \in Targets : job'[t] # "none" => job[t] # "none" \/ StageOf(t) = call[o].stage
      BY <2>1, <3>1, <3>2, Adds
    <3> QED BY <3>3 DEF JobsOpen, GatesHold
  <2> QED BY <1>1, <2>1, <2>2, <2>3 DEF StageOpens, GatesHold, CompletedMeansAll
<1> QED BY <1>2, <1>3, <1>4, <1>5, <1>6 DEF CallGoesOn, Write

\* The workers: a job was added behind an open gate, and what it claims is there.
LEMMA WorkGates ==
  ASSUME TypeOK, RowsAreHeld, LocksActive, GatesHold, StageGate, status # "removed",
         NEW w \in Workers,
         \/ \E t \in Targets : Take(w, t)
         \/ WorkGoesOn(w) \/ RecordThrows(w) \/ FailureThrows(w) \/ WorkerDies(w)
  PROVE  StageOpens /\ CallsOpen /\ JobsOpen /\ WorkOpens
<1>1. StageOpens /\ CallsOpen
  <2>1. UNCHANGED <<stage, call>> /\ (status' = status \/ status' = "paused")
    BY DEF Take, WorkGoesOn, Claim, Deploy, RecordCompleted, RecordFailed, RecordThrows,
           FailureThrows, WorkerDies, rows
  <2> QED BY <2>1 DEF StageOpens, CallsOpen, GatesHold, CompletedMeansAll
<1>2. ASSUME NEW t \in Targets, Take(w, t) PROVE JobsOpen /\ WorkOpens
  <2>1. /\ work'[w].target = t /\ \A v \in Workers \ {w} : work'[v] = work[v]
    BY <1>2, DoesTo DEF Take, WorkSteps
  <2>2. Gated(StageOf(t)) /\ job' = [job EXCEPT ![t] = "active"] /\ tried' = tried
    BY <1>2 DEF Take, GatesHold, rows
  <2> QED BY <2>1, <2>2, Types DEF JobsOpen, WorkOpens, GatesHold, StageGate, Gated
<1>3. CASE WorkGoesOn(w) \/ RecordThrows(w) \/ FailureThrows(w) \/ WorkerDies(w)
  <2> DEFINE t == work[w].target
  <2>1. t \in Targets
    BY <1>3 DEF WorkGoesOn, Claim, Deploy, RecordCompleted, RecordFailed, RecordThrows,
                FailureThrows, WorkerDies, RowsAreHeld
  <2>2. JobsOpen
    <3>1. UNCHANGED queue \/ \E result \in {"completed", "failed"} : JobEnds(w, t, result)
      BY <1>3 DEF WorkGoesOn, Claim, Deploy, RecordCompleted, RecordFailed, RecordThrows,
                  FailureThrows, WorkerDies
    <3>2. \A u \in Targets : job'[u] # "none" => job[u] # "none"
      BY <2>1, <3>1, Ends DEF queue
    <3> QED BY <3>2 DEF JobsOpen, GatesHold
  <2>3. work'[w].at # "claim" /\ \A v \in Workers \ {w} : work'[v] = work[v]
    BY <1>3, <2>1, DoesTo
    DEF WorkGoesOn, Claim, Deploy, RecordCompleted, RecordFailed, RecordThrows,
        FailureThrows, WorkerDies, Rests, WorkSteps
  <2>4. \A u \in tried' : u \in tried \/ (work[w].at = "claim" /\ u = t)
    BY <1>3 DEF WorkGoesOn, Claim, Deploy, RecordCompleted, RecordFailed, RecordThrows,
                FailureThrows, WorkerDies, rows
  <2>5. \A u \in tried' : Gated(StageOf(u))
    BY <2>4 DEF GatesHold, StageGate, Gated
  <2> QED BY <1>1, <2>2, <2>3, <2>5 DEF WorkOpens, GatesHold
<1> QED BY <1>1, <1>2, <1>3

LEMMA GateStep == IInv /\ [Next]_vars => GatesHold' /\ StageGate'
<1> SUFFICES ASSUME IInv, [Next]_vars PROVE GatesHold' /\ StageGate'
  OBVIOUS
<1>1. TypeOK' /\ RowsExist'
  BY TypeStep, RowStep DEF IInv
<1>2. CASE status' = "removed"
  BY <1>1, <1>2, GateKept
<1>3. CASE status' # "removed"
  <2>1. status # "removed" /\ Migrated \subseteq Migrated'
    BY <1>3, MigratedStay DEF IInv
  <2>2. StageOpens /\ CallsOpen /\ JobsOpen /\ WorkOpens
    <3>1. ASSUME NEW t \in Targets, Stall(t) \/ Forget(t) PROVE <2>2
      <4>1. /\ UNCHANGED <<rows, call, work>>
            /\ \A u \in Targets : job'[u] # "none" => job[u] # "none"
        BY <3>1, Types DEF Stall, Forget, IInv
      <4> QED BY <2>1, <4>1 DEF IInv, GatesHold, StageGate, CompletedMeansAll, Gated, rows,
                                StageOpens, CallsOpen, JobsOpen, WorkOpens
    <3>2. CASE UNCHANGED vars
      BY <2>1, <3>2 DEF IInv, GatesHold, StageGate, CompletedMeansAll, Gated, vars, rows, queue,
                        StageOpens, CallsOpen, JobsOpen, WorkOpens
    <3> QED BY <1>3, <2>1, <3>1, <3>2, CallGates, WorkGates DEF Next, IInv
  <2> QED BY <1>1, <2>1, <2>2, GateKept
<1> QED BY <1>2, <1>3
-----------------------------------------------------------------------------
LEMMA InitHolds == Init => IInv
<1> SUFFICES ASSUME Init PROVE IInv
  OBVIOUS
<1>1. TypeOK
  <2>1. call \in [Operators -> CallRecord]
    BY DEF Init, Idle, CallRecord, CallSteps, Ops
  <2>2. work \in [Workers -> WorkRecord]
    BY DEF Init, WorkRecord, WorkSteps
  <2>3. stage \in 0..3 /\ calls \in 0..MaxCalls
    BY RolloutAssumption DEF Init
  <2> QED BY <2>1, <2>2, <2>3, Types DEF Init, Statuses, RowStates, JobStates
<1>2. RowsExist /\ RowsAreHeld /\ LocksActive /\ OneWorkerPerTenant
  BY DEF Init, RowsExist, Exists, RowsAreHeld, Migrates, LocksActive, OneWorkerPerTenant
<1>3. GatesHold /\ StageGate
  BY FirstStageOpen DEF Init, Idle, GatesHold, CompletedMeansAll, StageGate
<1> QED BY <1>1, <1>2, <1>3 DEF IInv

LEMMA Invariance == Spec => []IInv
<1>1. IInv /\ [Next]_vars => IInv'
  BY TypeStep, RowStep, GateStep DEF IInv
<1> QED BY <1>1, InitHolds, PTL DEF Spec

\* Every reachable state has the types of MigrationRollout.
THEOREM TypeCorrect == Spec => []TypeOK
BY Invariance, PTL DEF IInv

\* No tenant is tried before all tenants of the stages before its own are
\* migrated: an overlapping advance, a retry and a queue that runs a job late
\* all read a gate that, once open, stays open.
THEOREM StagesInOrder == Spec => []StageGate
BY Invariance, PTL DEF IInv

\* A rollout that says completed has migrated every tenant it was made for.
THEOREM CompletionIsTrue == Spec => []CompletedMeansAll
<1>1. IInv => CompletedMeansAll
  BY DEF IInv, GatesHold, CompletedMeansAll
<1> QED BY <1>1, Invariance, PTL

\* Two workers never migrate the same database at the same time.
THEOREM WorkersApart == Spec => []OneWorkerPerTenant
BY Invariance, PTL DEF IInv
-----------------------------------------------------------------------------
(* The rollout implements StagedRollout. *)

\* The fields of StagedRollout as the rollout has them.
StagedVars == <<tried, Migrated, status # "removed">>

\* A step of the abstract rollout begins with a gate that is open.
LEMMA BeforeTenant ==
  ASSUME NEW t \in Targets, Gated(StageOf(t))
  PROVE  Staged!Before(t) \subseteq Migrated
BY DEF Staged!Before, Gated

LEMMA StagedInit == Init => Staged!Init
BY DEF Init, Staged!Init, Migrated

\* The calls only withdraw the rollout: nothing else they write is in StagedRollout.
LEMMA CallStages ==
  ASSUME TypeOK, RowsExist, NEW o \in Operators,
         \/ CreateDraft(o) \/ Create(o) \/ CallGoesOn(o) \/ ServerDies(o)
         \/ \E op \in Ops : Look(o, op)
  PROVE  Staged!Withdraw \/ UNCHANGED StagedVars
<1>1. CASE WriteRemoveDraft(o)
  BY <1>1 DEF WriteRemoveDraft, Staged!Withdraw, Migrated
<1>2. CASE ~WriteRemoveDraft(o)
  <2>1. tried' = tried /\ (status' = "removed" <=> status = "removed")
    BY <1>2 DEF CreateDraft, Create, CallGoesOn, ServerDies, Look, LookAgain, Write, EnqueueStage,
                RowGone, WriteStart, WritePause, WriteFinish, WriteAdvance, WriteRetry,
                WriteRetryRollout, rows, Exists
  <2>2. \A t \in Targets : target'[t] = "completed" <=> target[t] = "completed"
    BY <1>2 DEF CreateDraft, Create, CallGoesOn, ServerDies, Look, LookAgain, Write, EnqueueStage,
                RowGone, WriteStart, WritePause, WriteFinish, WriteAdvance, WriteRetry,
                WriteRetryRollout, rows, NewTargets, RowsExist, Exists
  <2> QED BY <2>1, <2>2 DEF StagedVars, Migrated
<1> QED BY <1>1, <1>2

\* A claim touches its tenant, a recorded success migrates it.
LEMMA WorkStages ==
  ASSUME TypeOK, RowsExist, RowsAreHeld, GatesHold, NEW w \in Workers,
         \/ \E t \in Targets : Take(w, t)
         \/ WorkGoesOn(w) \/ RecordThrows(w) \/ FailureThrows(w) \/ WorkerDies(w)
  PROVE  \/ \E t \in Targets : Staged!Touch(t) \/ Staged!Migrate(t)
         \/ UNCHANGED StagedVars
<1> DEFINE t == work[w].target
<1>1. CASE Claim(w) /\ Claimable(t)
  <2>1. t \in Targets /\ target[t] = "pending" /\ work[w].at = "claim"
    BY <1>1 DEF Claim, Claimable, RowsAreHeld
  <2>2. status # "removed" /\ status' = status
    BY <1>1, <2>1 DEF Claim, RowsExist, Exists
  <2>3. Gated(StageOf(t))
    BY <2>1, <2>2 DEF GatesHold
  <2>4. Staged!Before(t) \subseteq Migrated
    BY <2>1, <2>3, BeforeTenant
  <2>5. Migrated' = Migrated /\ tried' = tried \cup {t}
    BY <1>1, <2>1, Types DEF Claim, Migrated
  <2>6. Staged!Touch(t)
    BY <2>2, <2>4, <2>5 DEF Staged!Touch
  <2> QED BY <2>1, <2>6
<1>2. CASE RecordCompleted(w)
  <2>1. t \in Targets /\ target[t] # "none" /\ Migrates(w)
    BY <1>2 DEF RecordCompleted, RowsAreHeld, Migrates
  <2>2. t \in tried /\ status # "removed"
    BY <2>1 DEF RowsExist, Exists, RowsAreHeld
  <2>3. UNCHANGED <<status, tried>> /\ Migrated' = Migrated \cup {t}
    BY <1>2, <2>1, Types DEF RecordCompleted, Migrated
  <2>4. Staged!Migrate(t)
    BY <2>2, <2>3 DEF Staged!Migrate
  <2> QED BY <2>1, <2>4
<1>3. CASE RecordFailed(w)
  <2>1. t \in Targets /\ target[t] # "none" /\ Migrates(w)
    BY <1>3 DEF RecordFailed, RowsAreHeld, Migrates
  <2>2. status # "removed" /\ target[t] = "running"
    BY <2>1 DEF RowsExist, Exists, RowsAreHeld
  <2>3. status' = "paused" /\ tried' = tried /\ Migrated' = Migrated
    BY <1>3, <2>1, <2>2, Types DEF RecordFailed, Migrated
  <2> QED BY <2>2, <2>3 DEF StagedVars
<1>4. CASE UNCHANGED <<status, target, tried>>
  BY <1>4 DEF StagedVars, Migrated
<1>5. \/ Claim(w) /\ Claimable(t)
      \/ RecordCompleted(w) \/ RecordFailed(w)
      \/ UNCHANGED <<status, target, tried>>
  BY DEF WorkGoesOn, Claim, Take, Deploy, RecordThrows, FailureThrows, WorkerDies, rows
<1> QED BY <1>1, <1>2, <1>3, <1>4, <1>5

\* Each step of the rollout is a step of StagedRollout or changes nothing in it.
LEMMA StagedStep == IInv /\ [Next]_vars => [Staged!Next]_StagedVars
<1> SUFFICES ASSUME IInv, Next \/ UNCHANGED vars PROVE Staged!Next \/ UNCHANGED StagedVars
  OBVIOUS
<1>1. ASSUME NEW t \in Targets, Stall(t) \/ Forget(t) PROVE UNCHANGED StagedVars
  BY <1>1 DEF Stall, Forget, rows, StagedVars, Migrated
<1>2. CASE UNCHANGED vars
  BY <1>2 DEF vars, rows, StagedVars, Migrated
<1> QED BY <1>1, <1>2, CallStages, WorkStages DEF Next, IInv, Staged!Next

\* The rollout implements StagedRollout: tenants are migrated stage by stage.
THEOREM StagedRefinement == Spec => KeepsStages
<1>1. IInv /\ [Next]_vars => [Staged!Next]_Staged!vars
  BY StagedStep DEF StagedVars, Staged!vars
<1> QED BY <1>1, StagedInit, Invariance, PTL DEF Spec, KeepsStages, Staged!Spec
=============================================================================
