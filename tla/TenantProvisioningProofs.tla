---------------------- MODULE TenantProvisioningProofs ----------------------
(***************************************************************************)
(* Theorems about TenantProvisioning, for any number of requests, lanes,   *)
(* attempts, operators' calls and faults.  A job that is active belongs to *)
(* one lane that holds its lock; the parts a lane has passed exist; and as *)
(* long as no operator calls, every run that may still create a            *)
(* subscription is the first one or was handed on in a way that counts.    *)
(***************************************************************************)
EXTENDS TenantProvisioning, FiniteSetTheorems, TLAPS

Busy(l)  == lane[l].at # "idle"
Holds(l) == Busy(l) /\ ~lane[l].lost

Job  == [state: {"none", "waiting", "active", "completed", "failed"},
         failed: 0..MaxAttempts, stalled: BOOLEAN]
Row  == [status: {"none", "pending", "processing", "completed", "failed"},
         count: 0..MaxRuns, started: BOOLEAN]
Lane == [at: LaneSteps, id: JobIds \cup {NoJob}, lost: BOOLEAN]
Call == [at: CallSteps, id: JobIds \cup {NoJob}]

\* A lane that holds its lock runs an active job that no other such lane runs;
\* a job that will be tried again has attempts left; a request that is to queue
\* a job knows which.
JobsApart ==
  /\ \A l \in Lanes : Busy(l) => lane[l].id \in JobIds
  /\ \A l \in Lanes : Holds(l) => queue[lane[l].id].state = "active"
  /\ \A l, k \in Lanes : l # k /\ Holds(l) /\ Holds(k) => lane[l].id # lane[k].id
  /\ \A id \in JobIds : queue[id].state \in {"none", "waiting", "active"}
                          => queue[id].failed < MaxAttempts
  /\ \A c \in Callers : call[c].at \in {"verify", "activate", "retry", "keyed", "enqueue"}
                          => call[c].id \in JobIds

\* Before the registration there is nothing to act upon.
Unborn ==
  tenant = "none" =>
    /\ job.status = "none" /\ ~verified
    /\ \A c \in Callers : call[c].at = "idle"
    /\ \A l \in Lanes : ~Busy(l)

\* The parts that a run has passed.
Passed(at) ==
  CASE at = "schema"  -> {"database"}
    [] at = "owner"   -> {"database", "schema"}
    [] at = "storage" -> {"database", "schema", "owner"}
    [] at \in {"finish", "report"} -> {"database", "schema", "owner", "storage"}
    [] OTHER -> {}

PartsPassed ==
  /\ \A l \in Lanes : Busy(l) => verified /\ Passed(lane[l].at) \subseteq done
  /\ \A c \in Callers : call[c].at = "open" => contracts > 0
  /\ TrialAfterParts

LinkTaken == (activations > 0 => link.used) /\ ActivatedOnce

\* Without operators there is one job.
OwnJobOnly ==
  /\ \A c \in Callers : /\ call[c].at \in {"verify", "activate", "enqueue"} => call[c].id = Own
                        /\ call[c].at \notin {"retry", "keyed", "cancel", "contract", "open"}
  /\ \A id \in JobIds \ {Own} : queue[id].state = "none"

\* The lanes that may still create a subscription, if not in this attempt.
Open == {l \in Lanes : lane[l].at \in {"start", "finish", "record"} \cup AllParts}

\* Whether the tenant's job may bring about a run besides the open ones: a lane
\* that waits to report keeps it closed only while the row says completed.
Due ==
  \/ queue[Own].state = "none"
  \/ queue[Own].state = "waiting" /\ (job.status # "completed" \/ Open # {})
  \/ queue[Own].state = "active" /\ Open = {} /\ job.status # "completed"

RunsCounted ==
  /\ IsFiniteSet(Open)
  /\ subscriptions + Cardinality(Open) + (IF Due THEN 1 ELSE 0) <= 1 + repeats

Counted == OwnJobOnly /\ RunsCounted

IInv == TypeOK /\ JobsApart /\ Unborn /\ PartsPassed /\ LinkTaken /\ (asked = 0 => Counted)
-----------------------------------------------------------------------------
(* What the actions do to the queue, the lanes and the requests. *)

LEMMA Types ==
  TypeOK <=> /\ tenant \in {"none", "pending_activation", "pending", "provisioning", "active", "failed"}
             /\ link \in [used: BOOLEAN, expired: BOOLEAN]
             /\ verified \in BOOLEAN /\ activations \in Nat
             /\ job \in Row /\ done \in SUBSET AllParts
             /\ trial \in BOOLEAN /\ subscriptions \in Nat /\ contracts \in Nat
             /\ queue \in [JobIds -> Job]
             /\ lane \in [Lanes -> Lane] /\ call \in [Callers -> Call]
             /\ asked \in 0..MaxAsked /\ faults \in 0..MaxFaults /\ repeats \in Nat
BY DEF TypeOK, Row, Job, Lane, Call

LEMMA Names ==
  /\ Own \in JobIds
  /\ \A n \in 1..(MaxRuns + 1) : Retry(n) \in JobIds
  /\ \A n \in 1..MaxAsked : Keyed(n) \in JobIds
BY DEF JobIds

LEMMA PartsAre ==
  /\ DOMAIN Parts = 1..4 /\ Len(Parts) = 4
  /\ Parts[1] = "database" /\ Parts[2] = "schema" /\ Parts[3] = "owner" /\ Parts[4] = "storage"
  /\ AllParts = {"database", "schema", "owner", "storage"}
<1>1. /\ DOMAIN Parts = 1..4 /\ Len(Parts) = 4
      /\ Parts[1] = "database" /\ Parts[2] = "schema" /\ Parts[3] = "owner" /\ Parts[4] = "storage"
  BY DEF Parts
<1>2. 1..4 = {1, 2, 3, 4}
  OBVIOUS
<1> QED BY <1>1, <1>2 DEF AllParts

LEMMA Added ==
  ASSUME TypeOK, NEW id \in JobIds, Add(id)
  PROVE  /\ queue' \in [JobIds -> Job]
         /\ \A i \in JobIds : \/ queue'[i] = queue[i]
                             \/ /\ i = id /\ queue[id].state = "none"
                                /\ queue'[i].state = "waiting"
                                /\ queue'[i].failed = queue[i].failed
BY Types DEF Add, Job

LEMMA SetsState ==
  ASSUME TypeOK, NEW id \in JobIds, NEW e \in {"active", "completed"},
         queue' = [queue EXCEPT ![id].state = e]
  PROVE  /\ queue' \in [JobIds -> Job]
         /\ queue'[id].state = e /\ queue'[id].failed = queue[id].failed
         /\ \A i \in JobIds \ {id} : queue'[i] = queue[i]
BY Types DEF Job

LEMMA FailsOnce ==
  ASSUME TypeOK, NEW id \in JobIds, queue[id].failed < MaxAttempts, AttemptFails(id)
  PROVE  /\ queue' \in [JobIds -> Job]
         /\ queue'[id].state \in {"waiting", "failed"}
         /\ queue'[id].state = "waiting" => queue'[id].failed < MaxAttempts
         /\ \A i \in JobIds \ {id} : queue'[i] = queue[i]
<1> DEFINE n == queue[id].failed + 1
           e == IF n < MaxAttempts THEN "waiting" ELSE "failed"
<1>1. queue \in [JobIds -> Job] /\ n \in 0..MaxAttempts
  BY Types, ProvisioningAssumption DEF Job
<1>2. queue' = [queue EXCEPT ![id] = [state |-> e, failed |-> n, stalled |-> queue[id].stalled]]
  BY DEF AttemptFails
<1>3. [state |-> e, failed |-> n, stalled |-> queue[id].stalled] \in Job
  BY <1>1 DEF Job
<1> QED BY <1>1, <1>2, <1>3

LEMMA StallsOne ==
  \A q \in Job : /\ Stalled(q) \in Job
                 /\ q.state # "active" => Stalled(q) = q
                 /\ Stalled(q).failed = q.failed
                 /\ Stalled(q).state # "active"
                 /\ Stalled(q).state = "none" => q.state = "none"
BY DEF Job, Stalled

LEMMA StallsAll ==
  ASSUME TypeOK, queue' = [id \in JobIds |-> Stalled(queue[id])]
  PROVE  /\ queue' \in [JobIds -> Job]
         /\ \A id \in JobIds : /\ queue[id].state # "active" => queue'[id] = queue[id]
                               /\ queue'[id].failed = queue[id].failed
                               /\ queue'[id].state # "active"
                               /\ queue'[id].state = "none" => queue[id].state = "none"
BY Types, StallsOne

LEMMA GoesTo ==
  ASSUME TypeOK, NEW l \in Lanes, NEW at \in LaneSteps, LaneGoes(l, at)
  PROVE  /\ lane' \in [Lanes -> Lane]
         /\ lane'[l].at = at /\ lane'[l].id = lane[l].id /\ lane'[l].lost = lane[l].lost
         /\ \A k \in Lanes \ {l} : lane'[k] = lane[k]
BY Types DEF LaneGoes, Lane

LEMMA Rests ==
  ASSUME TypeOK, NEW l \in Lanes, lane' = [lane EXCEPT ![l] = Rest]
  PROVE  /\ lane' \in [Lanes -> Lane] /\ lane'[l].at = "idle"
         /\ \A k \in Lanes \ {l} : lane'[k] = lane[k]
BY Types DEF Rest, Lane, LaneSteps

\* A lane that begins with a job holds its lock.
LEMMA Begins ==
  ASSUME TypeOK, NEW l \in Lanes, NEW id \in JobIds,
         lane' = [lane EXCEPT ![l] = [at |-> "start", id |-> id, lost |-> FALSE]]
  PROVE  /\ lane' \in [Lanes -> Lane]
         /\ lane'[l].at = "start" /\ lane'[l].id = id /\ ~lane'[l].lost
         /\ \A k \in Lanes \ {l} : lane'[k] = lane[k]
<1>1. [at |-> "start", id |-> id, lost |-> FALSE] \in Lane
  BY DEF Lane, LaneSteps
<1> QED BY <1>1, Types

\* The steps in the middle of a run, and its ends.
LEMMA Moves ==
  ASSUME TypeOK, NEW l \in Lanes,
         Start(l) \/ MakePart(l) \/ Finish(l) \/ FinishUnanswered(l) \/ Throw(l)
  PROVE  /\ Busy(l) /\ lane[l].at \notin {"record", "report"}
         /\ lane' \in [Lanes -> Lane]
         /\ lane'[l].at # "idle" /\ lane'[l].id = lane[l].id /\ lane'[l].lost = lane[l].lost
         /\ lane'[l].at = "report" <=> Finish(l)
         /\ \A k \in Lanes \ {l} : lane'[k] = lane[k]
         /\ queue' = queue
<1>1. CASE Start(l)
  <2>1. LaneGoes(l, "database") /\ lane[l].at = "start" /\ queue' = queue
    BY <1>1, PartsAre DEF Start
  <2> QED BY <2>1, GoesTo, PartsAre DEF LaneSteps, Busy, Finish, Finishes
<1>2. CASE MakePart(l)
  <2>1. PICK i \in {1, 2, 3, 4} :
          /\ lane[l].at = Parts[i]
          /\ LaneGoes(l, IF i = 4 THEN "finish" ELSE Parts[i + 1])
    <3>1. 1..4 = {1, 2, 3, 4}
      OBVIOUS
    <3> QED BY <1>2, <3>1, PartsAre DEF MakePart
  <2>2. PICK at \in {"schema", "owner", "storage", "finish"} : LaneGoes(l, at)
    BY <2>1, PartsAre
  <2>3. queue' = queue /\ lane[l].at \in AllParts
    BY <1>2, <2>1, PartsAre DEF MakePart
  <2> QED BY <2>2, <2>3, GoesTo, PartsAre DEF LaneSteps, Busy, Finish, Finishes
<1>3. CASE Finish(l)
  <2>1. LaneGoes(l, "report") /\ lane[l].at = "finish" /\ queue' = queue
    BY <1>3 DEF Finish, Finishes
  <2> QED BY <1>3, <2>1, GoesTo DEF LaneSteps, Busy
<1>4. CASE FinishUnanswered(l) \/ Throw(l)
  <2>1. LaneGoes(l, "record") /\ lane[l].at \in AllParts \cup {"finish"} /\ queue' = queue
    BY <1>4 DEF FinishUnanswered, Finishes, Throw
  <2>2. lane'[l].at = "record"
    BY <2>1, GoesTo DEF LaneSteps
  <2>3. ~Finish(l)
    BY <2>2, GoesTo DEF Finish, LaneSteps
  <2> QED BY <2>1, <2>2, <2>3, GoesTo, PartsAre DEF LaneSteps, Busy
<1> QED BY <1>1, <1>2, <1>3, <1>4

Ends(l) == Report(l) \/ RecordFailure(l) \/ ThrowOutside(l) \/ StartUnanswered(l)

LEMMA EndsRun ==
  ASSUME TypeOK, JobsApart, NEW l \in Lanes, Ends(l)
  PROVE  /\ Busy(l) /\ lane[l].id \in JobIds
         /\ lane' \in [Lanes -> Lane] /\ lane'[l].at = "idle"
         /\ \A k \in Lanes \ {l} : lane'[k] = lane[k]
         /\ queue' \in [JobIds -> Job]
         /\ lane[l].lost => queue' = queue
         /\ ~lane[l].lost => /\ queue'[lane[l].id].state \in {"waiting", "completed", "failed"}
                             /\ Report(l) => queue'[lane[l].id].state = "completed"
         /\ queue'[lane[l].id].state = "waiting" => queue'[lane[l].id].failed < MaxAttempts
         /\ \A i \in JobIds \ {lane[l].id} : queue'[i] = queue[i]
<1>1. Busy(l) /\ lane' = [lane EXCEPT ![l] = Rest] /\ (Report(l) => lane[l].at = "report")
  BY DEF Ends, Report, RecordFailure, ThrowOutside, StartUnanswered, LaneFails, Busy
<1>2. lane[l].id \in JobIds
  BY <1>1 DEF JobsApart
<1>3. queue[lane[l].id].state = "waiting" => queue[lane[l].id].failed < MaxAttempts
  BY <1>2 DEF JobsApart
<1>4. CASE lane[l].lost
  <2>1. queue' = queue
    BY <1>4 DEF Ends, Report, RecordFailure, ThrowOutside, StartUnanswered, LaneFails
  <2> QED BY <1>1, <1>2, <1>3, <1>4, <2>1, Rests, Types
<1>5. CASE ~lane[l].lost
  <2>1. queue[lane[l].id].failed < MaxAttempts
    BY <1>1, <1>2, <1>5 DEF JobsApart, Holds
  <2>2. CASE Report(l)
    BY <1>1, <1>2, <1>5, <2>2, SetsState, Rests DEF Report
  <2>3. CASE RecordFailure(l) \/ ThrowOutside(l) \/ StartUnanswered(l)
    <3>1. AttemptFails(lane[l].id) /\ ~Report(l)
      BY <1>5, <2>3 DEF RecordFailure, ThrowOutside, StartUnanswered, LaneFails, Report
    <3> QED BY <1>1, <1>2, <1>5, <2>1, <3>1, FailsOnce, Rests
  <2> QED BY <2>2, <2>3 DEF Ends
<1> QED BY <1>4, <1>5

LEMMA CallGoes ==
  ASSUME TypeOK, NEW c \in Callers, NEW at \in CallSteps, NEW id \in JobIds \cup {NoJob},
         Goes(c, at, id)
  PROVE  /\ call' \in [Callers -> Call]
         /\ call'[c].at = at /\ call'[c].id = id
         /\ \A d \in Callers \ {c} : call'[d] = call[d]
BY Types DEF Goes, Call

LEMMA CallReturns ==
  ASSUME TypeOK, NEW c \in Callers, Returns(c)
  PROVE  /\ call' \in [Callers -> Call] /\ call'[c].at = "idle"
         /\ \A d \in Callers \ {c} : call'[d] = call[d]
BY Types DEF Returns, Call, Idle, CallSteps
-----------------------------------------------------------------------------
(* Types, and jobs that belong to one lane each. *)

LEMMA CallsApart ==
  ASSUME JobsApart, UNCHANGED <<queue, lane>>,
         \A c \in Callers : \/ call'[c] = call[c]
                            \/ call'[c].at \in {"idle", "cancel", "contract", "open"}
                            \/ call'[c].id \in JobIds
  PROVE  JobsApart'
BY DEF JobsApart, Busy, Holds

LEMMA BeginsTypes ==
  ASSUME TypeOK, JobsApart, NEW c \in Callers, CallBegins(c)
  PROVE  TypeOK' /\ JobsApart'
<1>1. UNCHANGED <<account, job, workspace, queue, lane, trouble>>
  BY DEF CallBegins, OpenVerification, OpenActivation, AskRetry, AskKeyedRetry, AskCancel,
         AskContract, Asks
<1>2. asked' \in 0..MaxAsked
  BY Types, ProvisioningAssumption
  DEF CallBegins, OpenVerification, OpenActivation, AskRetry, AskKeyedRetry, AskCancel,
      AskContract, Asks
<1>3. \E at \in CallSteps, id \in JobIds \cup {NoJob} :
        Goes(c, at, id) /\ (at \in {"cancel", "contract"} \/ id \in JobIds)
  <2>1. CASE OpenVerification(c) \/ OpenActivation(c)
    BY <2>1, Names DEF OpenVerification, OpenActivation, CallSteps
  <2>2. CASE AskRetry(c)
    <3>1. job.count + 1 \in 1..(MaxRuns + 1)
      BY Types, ProvisioningAssumption DEF Row
    <3> QED BY <2>2, <3>1, Names DEF AskRetry, CallSteps
  <2>3. CASE AskKeyedRetry(c)
    <3>1. asked + 1 \in 1..MaxAsked
      BY <2>3, Types, ProvisioningAssumption DEF AskKeyedRetry, Asks
    <3> QED BY <2>3, <3>1, Names DEF AskKeyedRetry, CallSteps
  <2>4. CASE AskCancel(c) \/ AskContract(c)
    BY <2>4 DEF AskCancel, AskContract, CallSteps
  <2> QED BY <2>1, <2>2, <2>3, <2>4 DEF CallBegins
<1>4. /\ call' \in [Callers -> Call]
      /\ \A d \in Callers : \/ call'[d] = call[d] \/ call'[d].at \in {"cancel", "contract"}
                             \/ call'[d].id \in JobIds
  BY <1>3, CallGoes
<1>5. TypeOK'
  BY <1>1, <1>2, <1>4 DEF TypeOK, account, workspace, trouble, Call
<1> QED BY <1>1, <1>4, <1>5, CallsApart

LEMMA CallTypes ==
  ASSUME TypeOK, JobsApart, NEW c \in Callers, CallGoesOn(c) \/ CallerDies(c)
  PROVE  TypeOK' /\ JobsApart'
<1>1. /\ tenant' \in {"none", "pending_activation", "pending", "provisioning", "active", "failed"}
      /\ link' \in [used: BOOLEAN, expired: BOOLEAN]
      /\ verified' \in BOOLEAN /\ activations' \in Nat /\ job' \in Row
      /\ UNCHANGED <<done, trial, subscriptions, lane, asked>>
      /\ contracts' \in Nat
      /\ faults' \in 0..MaxFaults /\ repeats' \in Nat
  <2>1. CASE Verify(c) \/ Activate(c)
    <3>1. [link EXCEPT !.used = TRUE] \in [used: BOOLEAN, expired: BOOLEAN]
      BY DEF TypeOK
    <3>2. activations + 1 \in Nat
      BY DEF TypeOK
    <3> QED BY <2>1, <3>1, <3>2, Types DEF Verify, Activate, workspace, trouble
  <2>2. CASE ActivationRefused(c) \/ Enqueue(c)
    BY <2>2, Types DEF ActivationRefused, Enqueue, account, workspace, trouble
  <2>3. CASE ResetForRetry(c) \/ ResetForKeyedRetry(c) \/ Cancel(c)
    BY <2>3, Types DEF ResetForRetry, ResetForKeyedRetry, Cancel, SetsRows, Row, workspace, trouble
  <2>4. CASE CreateContract(c) \/ OpenByHand(c)
    BY <2>4, Types DEF CreateContract, OpenByHand, account, workspace, trouble
  <2>5. CASE CallerDies(c)
    BY <2>5, Types, ProvisioningAssumption DEF CallerDies, Fault, Fails, account, workspace
  <2> QED BY <2>1, <2>2, <2>3, <2>4, <2>5 DEF CallGoesOn
<1>2. /\ call' \in [Callers -> Call]
      /\ \A d \in Callers : \/ call'[d] = call[d] \/ call'[d].at \in {"idle", "open"}
                             \/ call'[d].id \in JobIds
  <2>1. CASE Returns(c)
    BY <2>1, CallReturns
  <2>2. CASE Goes(c, "enqueue", Own) \/ Goes(c, "open", NoJob)
    BY <2>2, Names, CallGoes DEF CallSteps
  <2>3. CASE ResetForRetry(c) \/ ResetForKeyedRetry(c)
    <3>1. call[c].id \in JobIds
      BY <2>3 DEF ResetForRetry, ResetForKeyedRetry, JobsApart
    <3>2. Goes(c, "enqueue", call[c].id) /\ "enqueue" \in CallSteps
      BY <2>3 DEF ResetForRetry, ResetForKeyedRetry, CallSteps
    <3>3. /\ call' \in [Callers -> Call] /\ call'[c].id = call[c].id
          /\ \A d \in Callers \ {c} : call'[d] = call[d]
      BY <3>1, <3>2, CallGoes
    <3> QED BY <3>1, <3>3
  <2> QED BY <2>1, <2>2, <2>3
          DEF CallGoesOn, CallerDies, Verify, Activate, ActivationRefused, Enqueue, Cancel,
              CreateContract, OpenByHand
<1>3. CASE Enqueue(c)
  <2>1. call[c].id \in JobIds
    BY <1>3 DEF Enqueue, JobsApart
  <2>2. /\ queue' \in [JobIds -> Job]
        /\ \A i \in JobIds : \/ queue'[i] = queue[i]
                            \/ /\ queue[i].state = "none"
                               /\ queue'[i].state = "waiting"
                               /\ queue'[i].failed = queue[i].failed
    BY <1>3, <2>1, Added DEF Enqueue
  <2>3. TypeOK'
    BY <1>1, <1>2, <2>2 DEF TypeOK, Call, Job, Row
  <2>4. lane' = lane
    BY <1>1
  <2> QED BY <1>2, <2>2, <2>3, <2>4 DEF JobsApart, Busy, Holds
<1>4. CASE ~Enqueue(c)
  <2>1. queue' = queue
    BY <1>4 DEF CallGoesOn, CallerDies, Verify, Activate, ActivationRefused,
                ResetForRetry, ResetForKeyedRetry, Cancel, SetsRows, CreateContract, OpenByHand
  <2>2. TypeOK'
    BY <1>1, <1>2, <2>1 DEF TypeOK, Call, Row
  <2> QED BY <1>1, <1>2, <2>1, <2>2, CallsApart
<1> QED BY <1>3, <1>4

LEMMA TakesTypes ==
  ASSUME TypeOK, JobsApart, NEW l \in Lanes, NEW id \in Waiting,
         SkipCompleted(l, id) \/ RefuseUnverified(l, id) \/ Take(l, id)
  PROVE  TypeOK' /\ JobsApart'
<1>1. /\ UNCHANGED <<account, job, workspace, call, asked, trouble>>
      /\ id \in JobIds /\ queue[id].state = "waiting" /\ lane[l] = Rest
  BY DEF SkipCompleted, RefuseUnverified, Take, TakesUp, Waiting, FreeLane
<1>2. /\ \A k \in Lanes : Holds(k) => lane[k].id # id
      /\ ~Busy(l)
  BY <1>1 DEF JobsApart, Busy, Rest, Holds
<1>3. queue[id].failed < MaxAttempts
  BY <1>1 DEF JobsApart
<1>4. ASSUME queue' \in [JobIds -> Job], lane' \in [Lanes -> Lane] PROVE TypeOK'
  BY <1>1, <1>4 DEF TypeOK, account, workspace, trouble, Job, Lane
<1>5. CASE Take(l, id)
  <2>1. /\ queue' \in [JobIds -> Job]
        /\ queue'[id].state = "active" /\ queue'[id].failed = queue[id].failed
        /\ \A i \in JobIds \ {id} : queue'[i] = queue[i]
    BY <1>1, <1>5, SetsState DEF Take
  <2>2. /\ lane' \in [Lanes -> Lane]
        /\ lane'[l].at = "start" /\ lane'[l].id = id /\ ~lane'[l].lost
        /\ \A k \in Lanes \ {l} : lane'[k] = lane[k]
    BY <1>1, <1>5, Begins DEF Take
  <2>3. call' = call
    BY <1>1
  <2> QED BY <1>1, <1>2, <1>3, <1>4, <2>1, <2>2, <2>3 DEF JobsApart, Busy, Holds
<1>6. CASE SkipCompleted(l, id) \/ RefuseUnverified(l, id)
  <2>1. /\ queue' \in [JobIds -> Job]
        /\ queue'[id].state # "active"
        /\ queue'[id].state \in {"waiting", "none"} => queue'[id].failed < MaxAttempts
        /\ \A i \in JobIds \ {id} : queue'[i] = queue[i]
    BY <1>1, <1>3, <1>6, SetsState, FailsOnce DEF SkipCompleted, RefuseUnverified
  <2>2. lane' = lane /\ lane' \in [Lanes -> Lane]
    BY <1>6, Types DEF SkipCompleted, RefuseUnverified
  <2> QED BY <1>1, <1>2, <1>4, <2>1, <2>2 DEF JobsApart, Busy, Holds
<1> QED BY <1>5, <1>6

LEMMA LaneTypes ==
  ASSUME TypeOK, JobsApart, NEW l \in Lanes, LaneGoesOn(l)
  PROVE  TypeOK' /\ JobsApart'
<1>1. /\ tenant' \in {"none", "pending_activation", "pending", "provisioning", "active", "failed"}
      /\ job' \in Row /\ done' \in SUBSET AllParts /\ trial' \in BOOLEAN
      /\ subscriptions' \in Nat /\ contracts' \in Nat
      /\ faults' \in 0..MaxFaults /\ repeats' \in Nat
      /\ UNCHANGED <<link, verified, activations, call, asked>>
  <2>1. CASE Start(l) \/ StartUnanswered(l)
    <3>1. Starts /\ (UNCHANGED trouble \/ Fault)
      BY <2>1 DEF Start, StartUnanswered
    <3> QED BY <3>1, Types, ProvisioningAssumption DEF Starts, Fault, Fails, Row, workspace, trouble
  <2>2. CASE MakePart(l)
    BY <2>2, Types DEF MakePart, AllParts, account, trouble
  <2>3. CASE Finish(l) \/ FinishUnanswered(l)
    <3>1. Finishes(l) /\ (UNCHANGED trouble \/ Fails(1))
      BY <2>3 DEF Finish, FinishUnanswered
    <3> QED BY <3>1, Types, ProvisioningAssumption DEF Finishes, Fails, Row, trouble
  <2>4. CASE Report(l) \/ Throw(l) \/ RecordFailure(l) \/ ThrowOutside(l)
    BY <2>4, Types, ProvisioningAssumption
    DEF Report, Throw, RecordFailure, ThrowOutside, Fault, Fails, Row, account, workspace, trouble
  <2> QED BY <2>1, <2>2, <2>3, <2>4 DEF LaneGoesOn
<1>2. call' = call
  BY <1>1
<1>3. ASSUME queue' \in [JobIds -> Job], lane' \in [Lanes -> Lane] PROVE TypeOK'
  BY <1>1, <1>3 DEF TypeOK, Row, Job, Lane, Call
<1>4. CASE Start(l) \/ MakePart(l) \/ Finish(l) \/ FinishUnanswered(l) \/ Throw(l)
  <2>1. /\ Busy(l) /\ lane' \in [Lanes -> Lane]
        /\ lane'[l].at # "idle" /\ lane'[l].id = lane[l].id /\ lane'[l].lost = lane[l].lost
        /\ \A k \in Lanes \ {l} : lane'[k] = lane[k]
        /\ queue' = queue
    BY <1>4, Moves
  <2>2. \A k \in Lanes : /\ lane'[k].id = lane[k].id
                         /\ (lane'[k].at # "idle" /\ ~lane'[k].lost) <=> Holds(k)
    BY <2>1 DEF Busy, Holds
  <2>3. \A k \in Lanes : lane'[k].at # "idle" <=> Busy(k)
    BY <2>1 DEF Busy
  <2>4. TypeOK'
    BY <1>3, <2>1, Types
  <2> QED BY <1>2, <2>1, <2>2, <2>3, <2>4 DEF JobsApart, Busy, Holds
<1>5. CASE Ends(l)
  <2>1. /\ Busy(l) /\ lane[l].id \in JobIds
        /\ lane' \in [Lanes -> Lane] /\ lane'[l].at = "idle"
        /\ \A k \in Lanes \ {l} : lane'[k] = lane[k]
        /\ queue' \in [JobIds -> Job]
        /\ lane[l].lost => queue' = queue
        /\ ~lane[l].lost => queue'[lane[l].id].state \in {"waiting", "completed", "failed"}
        /\ queue'[lane[l].id].state = "waiting" => queue'[lane[l].id].failed < MaxAttempts
        /\ \A i \in JobIds \ {lane[l].id} : queue'[i] = queue[i]
    BY <1>5, EndsRun
  <2>2. TypeOK'
    BY <1>3, <2>1
  <2>3. CASE lane[l].lost
    <3>1. \A k \in Lanes : (lane'[k].at # "idle" /\ ~lane'[k].lost) <=> Holds(k)
      BY <2>1, <2>3 DEF Holds, Busy
    <3>2. \A k \in Lanes : lane'[k].at # "idle" => Busy(k) /\ lane'[k] = lane[k]
      BY <2>1 DEF Busy
    <3>3. \A k \in Lanes : Holds(k) => lane'[k] = lane[k]
      BY <2>1, <2>3 DEF Holds
    <3>4. queue' = queue
      BY <2>1, <2>3
    <3> QED BY <1>2, <2>2, <3>1, <3>2, <3>3, <3>4 DEF JobsApart, Busy, Holds
  <2>4. CASE ~lane[l].lost
    <3>1. \A k \in Lanes : (lane'[k].at # "idle" /\ ~lane'[k].lost) <=> (Holds(k) /\ k # l)
      BY <2>1, <2>4 DEF Holds, Busy
    <3>2. \A k \in Lanes : lane'[k].at # "idle" => Busy(k) /\ lane'[k] = lane[k]
      BY <2>1 DEF Busy
    <3>3. \A k \in Lanes : Holds(k) /\ k # l => lane'[k] = lane[k] /\ lane[k].id # lane[l].id
      BY <2>1, <2>4 DEF Holds, JobsApart
    <3>4. queue'[lane[l].id].state \in {"waiting", "completed", "failed"}
      BY <2>1, <2>4
    <3>5. \A k \in Lanes : Holds(k) => lane[k].id \in JobIds /\ queue[lane[k].id].state = "active"
      BY DEF JobsApart, Holds
    <3>6. \A k \in Lanes : lane'[k].at # "idle" => lane'[k].id \in JobIds
      BY <3>2 DEF JobsApart
    <3>7. \A k \in Lanes : lane'[k].at # "idle" /\ ~lane'[k].lost
                             => queue'[lane'[k].id].state = "active"
      BY <2>1, <3>1, <3>3, <3>5
    <3>8. ASSUME NEW k \in Lanes, NEW m \in Lanes, k # m,
                 lane'[k].at # "idle", ~lane'[k].lost, lane'[m].at # "idle", ~lane'[m].lost
          PROVE  lane'[k].id # lane'[m].id
      <4>1. Holds(k) /\ Holds(m) /\ lane'[k] = lane[k] /\ lane'[m] = lane[m]
        BY <3>1, <3>3, <3>8
      <4>2. lane[k].id # lane[m].id
        BY <3>8, <4>1 DEF JobsApart
      <4> QED BY <4>1, <4>2
    <3>9. \A i \in JobIds : queue'[i].state \in {"none", "waiting", "active"}
                               => queue'[i].failed < MaxAttempts
      BY <2>1, <3>4 DEF JobsApart
    <3> QED BY <1>2, <2>2, <3>6, <3>7, <3>8, <3>9 DEF JobsApart, Busy, Holds
  <2> QED BY <2>3, <2>4
<1> QED BY <1>4, <1>5 DEF LaneGoesOn, Ends

LEMMA LockTypes ==
  ASSUME TypeOK, JobsApart, NEW l \in Lanes, LosesLock(l)
  PROVE  TypeOK' /\ JobsApart'
<1> DEFINE id == lane[l].id
<1>1. Holds(l) /\ id \in JobIds /\ queue[id].state = "active"
  BY DEF LosesLock, JobsApart, Holds, Busy
<1>2. /\ lane' \in [Lanes -> Lane] /\ lane'[l].lost /\ lane'[l].id = id /\ lane'[l].at = lane[l].at
      /\ \A k \in Lanes \ {l} : lane'[k] = lane[k]
  BY Types DEF LosesLock, Lane
<1>3. /\ queue' = [queue EXCEPT ![id] = Stalled(queue[id])]
      /\ UNCHANGED <<account, job, workspace, call, asked>>
      /\ faults' \in 0..MaxFaults /\ repeats' \in Nat
  BY Types, ProvisioningAssumption DEF LosesLock, Fails
<1> HIDE DEF id
<1>4. /\ queue' \in [JobIds -> Job] /\ queue'[id].state \in {"none", "waiting", "completed", "failed"}
      /\ queue'[id].failed = queue[id].failed
      /\ \A i \in JobIds \ {id} : queue'[i] = queue[i]
  <2>1. queue[id] \in Job /\ Stalled(queue[id]) \in Job
    BY <1>1, Types, StallsOne
  <2>2. Stalled(queue[id]).state \in {"none", "waiting", "completed", "failed"}
    BY <2>1, StallsOne DEF Job
  <2>3. queue'[id] = Stalled(queue[id]) /\ \A i \in JobIds \ {id} : queue'[i] = queue[i]
    BY <1>1, <1>3, Types
  <2>4. queue' \in [JobIds -> Job]
    BY <1>1, <1>3, <2>1, Types
  <2> QED BY <2>1, <2>2, <2>3, <2>4, StallsOne
<1>5. TypeOK'
  BY <1>2, <1>3, <1>4 DEF TypeOK, account, workspace, Job, Lane
<1>6. /\ \A k \in Lanes : (lane'[k].at # "idle" /\ ~lane'[k].lost) <=> (Holds(k) /\ k # l)
      /\ \A k \in Lanes : (lane'[k].at # "idle" <=> Busy(k)) /\ lane'[k].id = lane[k].id
  BY <1>2 DEF Holds, Busy, id
<1>7. \A k \in Lanes : Holds(k) /\ k # l => lane[k].id # id
  BY <1>1 DEF JobsApart, id
<1>8. \A k \in Lanes : lane'[k].at # "idle" /\ ~lane'[k].lost => queue'[lane'[k].id].state = "active"
  BY <1>4, <1>6, <1>7 DEF JobsApart, Holds
<1>9. call' = call
  BY <1>3
<1>10. \A i \in JobIds : queue'[i].state \in {"none", "waiting", "active"}
                           => queue'[i].failed < MaxAttempts
  BY <1>1, <1>4 DEF JobsApart
<1> QED BY <1>5, <1>6, <1>8, <1>9, <1>10 DEF JobsApart, Busy, Holds

LEMMA TypeStep == TypeOK /\ JobsApart /\ [Next]_vars => TypeOK' /\ JobsApart'
<1> SUFFICES ASSUME TypeOK, JobsApart, [Next]_vars PROVE TypeOK' /\ JobsApart'
  OBVIOUS
<1>1. ASSUME NEW status \in {"pending", "pending_activation"}, Register(status)
      PROVE  TypeOK' /\ JobsApart'
  <2>1. TypeOK'
    BY <1>1 DEF Register, TypeOK, workspace, trouble
  <2> QED BY <1>1, <2>1, CallsApart DEF Register
<1>2. CASE LinkExpires
  <2>1. TypeOK'
    BY <1>2 DEF LinkExpires, TypeOK, workspace, trouble
  <2> QED BY <1>2, <2>1, CallsApart DEF LinkExpires
<1>3. CASE Recover
  <2>1. /\ queue' \in [JobIds -> Job]
        /\ \A i \in JobIds : \/ queue'[i] = queue[i]
                            \/ /\ queue[i].state = "none"
                               /\ queue'[i].state = "waiting"
                               /\ queue'[i].failed = queue[i].failed
    BY <1>3, Names, Added DEF Recover
  <2>2. TypeOK'
    BY <1>3, <2>1 DEF Recover, TypeOK, account, workspace, trouble, Job
  <2>3. lane' = lane /\ call' = call
    BY <1>3 DEF Recover
  <2> QED BY <2>1, <2>2, <2>3 DEF JobsApart, Busy, Holds
<1>4. CASE WorkerDies
  <2>1. /\ queue' \in [JobIds -> Job]
        /\ \A id \in JobIds : /\ queue[id].state # "active" => queue'[id] = queue[id]
                              /\ queue'[id].failed = queue[id].failed
                              /\ queue'[id].state # "active"
    BY <1>4, StallsAll DEF WorkerDies
  <2>2. lane' \in [Lanes -> Lane] /\ \A l \in Lanes : lane'[l].at = "idle"
    BY <1>4 DEF WorkerDies, Lane, Rest, LaneSteps
  <2>3. faults' \in 0..MaxFaults /\ repeats' \in Nat
    BY <1>4, Types, ProvisioningAssumption DEF WorkerDies, Fault, Fails
  <2>4. TypeOK'
    BY <1>4, <2>1, <2>2, <2>3 DEF WorkerDies, TypeOK, account, workspace, Job, Lane
  <2>5. call' = call /\ \A id \in JobIds : queue[id] \in Job
    BY <1>4, Types DEF WorkerDies
  <2> QED BY <2>1, <2>2, <2>4, <2>5 DEF JobsApart, Busy, Holds, Job
<1>5. CASE UNCHANGED vars
  BY <1>5 DEF vars, account, workspace, trouble, TypeOK, JobsApart, Busy, Holds
<1> QED BY <1>1, <1>2, <1>3, <1>4, <1>5, BeginsTypes, CallTypes, TakesTypes, LaneTypes, LockTypes
        DEF Next, RegisterCompany, RegisterForOwner, LaneTakes
-----------------------------------------------------------------------------
(* The registration, the link and the parts. *)

LEMMA UnbornStep == TypeOK /\ Unborn /\ [Next]_vars => Unborn'
<1> SUFFICES ASSUME TypeOK, Unborn, [Next]_vars, tenant' = "none"
             PROVE  /\ job'.status = "none" /\ ~verified'
                    /\ \A c \in Callers : call'[c].at = "idle"
                    /\ \A l \in Lanes : lane'[l].at = "idle"
  BY DEF Unborn, Busy
<1>1. tenant = "none"
  BY DEF Next, vars, account, CallBegins, CallGoesOn, CallerDies, LaneTakes, LaneGoesOn, LosesLock,
         Recover, WorkerDies, RegisterCompany, RegisterForOwner, Register, LinkExpires,
         OpenVerification, OpenActivation, AskRetry, AskKeyedRetry, AskCancel, AskContract, Asks,
         Verify, Activate, ActivationRefused, Enqueue, ResetForRetry, ResetForKeyedRetry,
         Cancel, CreateContract, OpenByHand, SetsRows, SkipCompleted, RefuseUnverified, Take, TakesUp,
         Start, StartUnanswered, Starts, MakePart, Finish, FinishUnanswered, Finishes,
         Report, Throw, RecordFailure, ThrowOutside
<1>2. /\ job.status = "none" /\ ~verified
      /\ \A c \in Callers : call[c].at = "idle"
      /\ \A l \in Lanes : lane[l].at = "idle"
  BY <1>1 DEF Unborn, Busy
<1>3. ~LinkExpires /\ ~RegisterCompany /\ ~RegisterForOwner /\ ~Recover
  BY <1>1, <1>2 DEF LinkExpires, RegisterCompany, RegisterForOwner, Register, Recover
<1>4. \A c \in Callers : ~CallBegins(c) /\ ~CallGoesOn(c) /\ ~CallerDies(c)
  BY <1>1, <1>2
  DEF CallBegins, CallGoesOn, CallerDies, OpenVerification, OpenActivation, FollowsLink,
      AskRetry, AskKeyedRetry, AskCancel, AskContract, Asks, Verify, Activate, ActivationRefused,
      Enqueue, ResetForRetry, ResetForKeyedRetry, Cancel, CreateContract, OpenByHand
<1>5. \A l \in Lanes : ~LaneGoesOn(l) /\ ~LosesLock(l)
  BY <1>2, PartsAre
  DEF LaneGoesOn, Start, StartUnanswered, MakePart, Finish, FinishUnanswered, Finishes, Report,
      Throw, RecordFailure, ThrowOutside, LosesLock
<1>6. CASE WorkerDies
  BY <1>2, <1>6 DEF WorkerDies, account, Rest
<1>7. ASSUME NEW l \in Lanes, LaneTakes(l)
      PROVE  UNCHANGED <<job, verified, call, lane>>
  BY <1>2, <1>7 DEF LaneTakes, SkipCompleted, RefuseUnverified, Take, TakesUp, account
<1> QED BY <1>2, <1>3, <1>4, <1>5, <1>6, <1>7 DEF Next, vars, account

LEMMA LinkStep == TypeOK /\ LinkTaken /\ [Next]_vars => LinkTaken'
<1> SUFFICES ASSUME TypeOK, LinkTaken, [Next]_vars PROVE LinkTaken'
  OBVIOUS
<1>1. ASSUME NEW c \in Callers, Activate(c) PROVE LinkTaken'
  <2>1. link'.used /\ ~link.used
    BY <1>1, Types DEF Activate
  <2>2. activations = 0 /\ activations' = 1
    BY <1>1, <2>1, Types DEF LinkTaken, Activate
  <2> QED BY <2>1, <2>2 DEF LinkTaken, ActivatedOnce
<1>2. ASSUME NEW c \in Callers, Verify(c) PROVE LinkTaken'
  <2>1. link'.used /\ activations' = activations
    BY <1>2, Types DEF Verify
  <2> QED BY <2>1 DEF LinkTaken, ActivatedOnce
<1>3. CASE LinkExpires
  <2>1. link'.used = link.used /\ activations' = activations
    BY <1>3, Types DEF LinkExpires
  <2> QED BY <2>1 DEF LinkTaken, ActivatedOnce
<1>4. ASSUME UNCHANGED <<link, activations>> PROVE LinkTaken'
  BY <1>4 DEF LinkTaken, ActivatedOnce
<1>5. \/ UNCHANGED <<link, activations>> \/ LinkExpires
      \/ \E c \in Callers : Activate(c) \/ Verify(c)
  BY DEF Next, vars, account, CallBegins, CallGoesOn, CallerDies, LaneTakes, LaneGoesOn, LosesLock,
         Recover, WorkerDies, RegisterCompany, RegisterForOwner, Register,
         OpenVerification, OpenActivation, AskRetry, AskKeyedRetry, AskCancel, AskContract, Asks,
         ActivationRefused, Enqueue, ResetForRetry, ResetForKeyedRetry,
         Cancel, CreateContract, OpenByHand, SetsRows, SkipCompleted, RefuseUnverified, Take, TakesUp,
         Start, StartUnanswered, Starts, MakePart, Finish, FinishUnanswered, Finishes,
         Report, Throw, RecordFailure, ThrowOutside
<1> QED BY <1>1, <1>2, <1>3, <1>4, <1>5

\* Steps that move no lane past a part, and open a workspace only by contract.
LEMMA PartsKept ==
  ASSUME PartsPassed, contracts \in Nat, verified => verified',
         UNCHANGED <<done, trial, subscriptions>>,
         contracts' \in Nat /\ contracts' >= contracts,
         tenant' = "active" => tenant = "active" \/ contracts > 0,
         \A c \in Callers : call'[c].at = "open" => call[c].at = "open" \/ contracts' > 0,
         \A l \in Lanes : \/ lane'[l].at = lane[l].at
                          \/ lane'[l].at = "idle"
                          \/ Busy(l) /\ lane'[l].at = "record"
                          \/ verified /\ lane'[l].at = "start"
                          \/ Busy(l) /\ lane'[l].at = "database"
  PROVE  PartsPassed'
<1>1. \A l \in Lanes : lane'[l].at # "idle" => verified' /\ Passed(lane'[l].at) \subseteq done'
  BY DEF PartsPassed, Busy, Passed
<1>2. \A c \in Callers : call'[c].at = "open" => contracts' > 0
  BY DEF PartsPassed
<1>3. TrialAfterParts'
  BY DEF PartsPassed, TrialAfterParts, Complete
<1> QED BY <1>1, <1>2, <1>3 DEF PartsPassed, Busy

LEMMA PartsRequest ==
  ASSUME TypeOK, PartsPassed, NEW c \in Callers, CallBegins(c) \/ CallGoesOn(c) \/ CallerDies(c)
  PROVE  PartsPassed'
<1>1. /\ UNCHANGED <<done, trial, subscriptions, lane>> /\ (verified => verified')
      /\ contracts' \in Nat /\ contracts' >= contracts
  BY Types
  DEF account, workspace, CallBegins, CallGoesOn, CallerDies, OpenVerification, OpenActivation,
      AskRetry, AskKeyedRetry, AskCancel, AskContract, Asks, Verify, Activate, ActivationRefused,
      Enqueue, ResetForRetry, ResetForKeyedRetry, Cancel, CreateContract, OpenByHand, SetsRows
<1>2. tenant' = "active" => tenant = "active" \/ contracts > 0
  <2>1. CASE OpenByHand(c)
    BY <2>1 DEF OpenByHand, PartsPassed
  <2>2. CASE ~OpenByHand(c)
    BY <2>2
    DEF account, CallBegins, CallGoesOn, CallerDies, OpenVerification, OpenActivation,
        AskRetry, AskKeyedRetry, AskCancel, AskContract, Asks, Verify, Activate, ActivationRefused,
        Enqueue, ResetForRetry, ResetForKeyedRetry, Cancel, CreateContract, SetsRows
  <2> QED BY <2>1, <2>2
<1>3. \A d \in Callers : call'[d].at = "open" => call[d].at = "open" \/ contracts' > 0
  <2>1. CASE CreateContract(c)
    <3>1. contracts' > 0
      BY <2>1, Types DEF CreateContract
    <3> QED BY <3>1
  <2>2. CASE ~CreateContract(c)
    <3>1. \/ Returns(c)
          \/ \E at \in CallSteps \ {"open"} : \E id : Goes(c, at, id)
      BY <2>2
      DEF CallBegins, CallGoesOn, CallerDies, OpenVerification, OpenActivation,
          AskRetry, AskKeyedRetry, AskCancel, AskContract, Verify, Activate, ActivationRefused,
          Enqueue, ResetForRetry, ResetForKeyedRetry, Cancel, OpenByHand, CallSteps
    <3>2. \A d \in Callers \ {c} : call'[d] = call[d]
      BY <3>1, Types DEF Returns, Goes
    <3>3. call'[c].at # "open"
      BY <3>1, Types DEF Returns, Goes, Idle
    <3> QED BY <3>2, <3>3
  <2> QED BY <2>1, <2>2
<1> QED BY <1>1, <1>2, <1>3, PartsKept, Types

LEMMA PartsLane ==
  ASSUME TypeOK, JobsApart, PartsPassed, NEW l \in Lanes, LaneGoesOn(l)
  PROVE  PartsPassed'
<1>1. call' = call /\ contracts' = contracts /\ contracts \in Nat
  BY Types
  DEF LaneGoesOn, Start, StartUnanswered, Starts, MakePart, Finish, FinishUnanswered, Finishes,
      Report, Throw, RecordFailure, ThrowOutside, workspace
<1>2. CASE MakePart(l)
  <2>1. PICK i \in 1..4 :
          /\ lane[l].at = Parts[i] /\ done' = done \cup {Parts[i]}
          /\ LaneGoes(l, IF i = 4 THEN "finish" ELSE Parts[i + 1])
    BY <1>2, PartsAre DEF MakePart
  <2>2. UNCHANGED <<tenant, verified, trial, subscriptions>>
    BY <1>2 DEF MakePart, account
  <2>3. Busy(l) /\ verified /\ Passed(lane[l].at) \subseteq done
    BY <2>1, PartsAre DEF Busy, PartsPassed
  <2>4. (IF i = 4 THEN "finish" ELSE Parts[i + 1]) \in LaneSteps
    BY PartsAre DEF LaneSteps
  <2>5. /\ lane'[l].at = (IF i = 4 THEN "finish" ELSE Parts[i + 1])
        /\ \A k \in Lanes \ {l} : lane'[k] = lane[k]
    BY <2>1, <2>4, GoesTo
  <2>6. Passed(lane'[l].at) \subseteq done'
    <3>1. i \in {1, 2, 3, 4}
      OBVIOUS
    <3> QED BY <2>1, <2>3, <2>5, <3>1, PartsAre DEF Passed
  <2>7. done = AllParts => done' = AllParts
    BY <2>1, PartsAre
  <2>8. TrialAfterParts'
    BY <1>1, <2>2, <2>7 DEF PartsPassed, TrialAfterParts, Complete
  <2> QED BY <1>1, <2>1, <2>2, <2>3, <2>5, <2>6, <2>8 DEF PartsPassed, Busy
<1>3. CASE Finish(l) \/ FinishUnanswered(l)
  <2>1. Finishes(l)
    BY <1>3 DEF Finish, FinishUnanswered
  <2>2. verified /\ Passed("finish") \subseteq done
    BY <2>1 DEF Finishes, PartsPassed, Busy
  <2>3. done = AllParts
    BY <2>2, PartsAre, Types DEF Passed
  <2>4. /\ lane'[l].at \in {"report", "record"}
        /\ \A k \in Lanes \ {l} : lane'[k] = lane[k]
    BY <1>3, GoesTo DEF Finish, FinishUnanswered, LaneSteps
  <2>5. done' = done /\ verified' = verified
    BY <2>1 DEF Finishes
  <2>6. TrialAfterParts'
    BY <2>2, <2>3, <2>5 DEF TrialAfterParts, Complete
  <2>7. Passed(lane'[l].at) \subseteq done'
    BY <2>2, <2>4, <2>5 DEF Passed
  <2> QED BY <1>1, <2>2, <2>4, <2>5, <2>6, <2>7 DEF PartsPassed, Busy
<1>4. CASE Start(l) \/ Throw(l)
  <2>1. /\ Busy(l) /\ lane'[l].at \in {"database", "record"}
        /\ \A k \in Lanes \ {l} : lane'[k] = lane[k]
    BY <1>4, PartsAre, GoesTo DEF Start, Throw, LaneSteps, Busy
  <2>2. /\ verified' = verified /\ UNCHANGED <<done, trial, subscriptions>>
        /\ tenant' = "active" => tenant = "active"
    BY <1>4 DEF Start, Starts, Throw, account, workspace
  <2> QED BY <1>1, <2>1, <2>2, PartsKept
<1>5. CASE Ends(l)
  <2>1. lane'[l].at = "idle" /\ \A k \in Lanes \ {l} : lane'[k] = lane[k]
    BY <1>5, EndsRun
  <2>2. /\ verified' = verified /\ UNCHANGED <<done, trial, subscriptions>>
        /\ tenant' = "active" => tenant = "active"
    BY <1>5 DEF Ends, StartUnanswered, Starts, Report, RecordFailure, ThrowOutside, account, workspace
  <2> QED BY <1>1, <2>1, <2>2, PartsKept
<1> QED BY <1>2, <1>3, <1>4, <1>5 DEF LaneGoesOn, Ends

LEMMA PartsStep == TypeOK /\ JobsApart /\ PartsPassed /\ [Next]_vars => PartsPassed'
<1> SUFFICES ASSUME TypeOK, JobsApart, PartsPassed, [Next]_vars PROVE PartsPassed'
  OBVIOUS
<1>1. contracts \in Nat
  BY Types
<1>2. ASSUME NEW l \in Lanes, LaneTakes(l) PROVE PartsPassed'
  <2>1. PICK id \in Waiting : SkipCompleted(l, id) \/ RefuseUnverified(l, id) \/ Take(l, id)
    BY <1>2 DEF LaneTakes
  <2>2. \A k \in Lanes : lane'[k] = lane[k] \/ (verified /\ lane'[k].at = "start")
    BY <2>1, Begins DEF SkipCompleted, RefuseUnverified, Take, Waiting
  <2> QED BY <1>1, <2>1, <2>2, PartsKept
          DEF SkipCompleted, RefuseUnverified, Take, TakesUp, account, workspace
<1>3. ASSUME NEW l \in Lanes, LosesLock(l) PROVE PartsPassed'
  <2>1. \A k \in Lanes : lane'[k].at = lane[k].at
    BY <1>3, Types DEF LosesLock, Lane
  <2> QED BY <1>1, <1>3, <2>1, PartsKept DEF LosesLock, account, workspace
<1>4. CASE RegisterCompany \/ RegisterForOwner \/ LinkExpires \/ Recover
  BY <1>1, <1>4, PartsKept
  DEF RegisterCompany, RegisterForOwner, Register, LinkExpires, Recover, account, workspace
<1>5. CASE WorkerDies
  BY <1>1, <1>5, PartsKept DEF WorkerDies, Rest, account, workspace
<1>6. CASE UNCHANGED vars
  BY <1>1, <1>6, PartsKept DEF vars, account, workspace
<1> QED BY <1>2, <1>3, <1>4, <1>5, <1>6, PartsRequest, PartsLane DEF Next
-----------------------------------------------------------------------------
(* One job, and the runs it may bring about, as long as no operator calls. *)

\* Requests that only pass on the tenant's own job, or end.
LEMMA OwnCalls ==
  ASSUME OwnJobOnly,
         \A c \in Callers : \/ call'[c] = call[c] \/ call'[c].at = "idle"
                            \/ /\ call'[c].id = Own
                               /\ call'[c].at \in {"verify", "activate", "enqueue"},
         \A id \in JobIds \ {Own} : queue'[id].state = queue[id].state
  PROVE  OwnJobOnly'
BY DEF OwnJobOnly

\* A step that leaves the subscriptions and the open runs keeps the count, when it
\* makes no run due.
LEMMA CountKept ==
  ASSUME TypeOK, TypeOK', RunsCounted, Due' => Due, subscriptions' = subscriptions,
         repeats' >= repeats,
         \A l \in Lanes : lane'[l].at = lane[l].at
  PROVE  RunsCounted'
<1>1. Open' = Open
  BY DEF Open
<1>2. Cardinality(Open) \in Nat /\ subscriptions \in Nat /\ repeats \in Nat /\ repeats' \in Nat
  BY FS_CardinalityType, Types DEF RunsCounted, TypeOK
<1> QED BY <1>1, <1>2 DEF RunsCounted

LEMMA OpenRuns ==
  ASSUME IsFiniteSet(Open)
  PROVE  Cardinality(Open) \in Nat /\ (Open # {} => Cardinality(Open) >= 1)
BY FS_CardinalityType, FS_EmptySet

LEMMA Opens ==
  ASSUME IsFiniteSet(Open), NEW l \in Lanes, l \notin Open, lane'[l].at = "start",
         \A k \in Lanes \ {l} : lane'[k] = lane[k]
  PROVE  IsFiniteSet(Open') /\ Open' # {} /\ Cardinality(Open') = Cardinality(Open) + 1
<1>1. Open' = Open \cup {l}
  BY DEF Open
<1> QED BY <1>1, FS_AddElement

LEMMA Closes ==
  ASSUME IsFiniteSet(Open), NEW l \in Open, lane'[l].at \in {"idle", "report"},
         \A k \in Lanes \ {l} : lane'[k] = lane[k]
  PROVE  /\ IsFiniteSet(Open') /\ Cardinality(Open') = Cardinality(Open) - 1
         /\ Open' # {} => Open # {}
<1>1. Open' = Open \ {l}
  BY PartsAre DEF Open
<1> QED BY <1>1, FS_RemoveElement

LEMMA OwnRequests ==
  ASSUME TypeOK, TypeOK', Counted, NEW c \in Callers,
         CallBegins(c) \/ CallGoesOn(c) \/ CallerDies(c), asked' = asked
  PROVE  Counted'
<1>1. ~AskRetry(c) /\ ~AskKeyedRetry(c) /\ ~AskCancel(c) /\ ~AskContract(c)
  BY Types, ProvisioningAssumption DEF AskRetry, AskKeyedRetry, AskCancel, AskContract, Asks
<1>2. /\ ~ResetForRetry(c) /\ ~ResetForKeyedRetry(c) /\ ~Cancel(c)
      /\ ~CreateContract(c) /\ ~OpenByHand(c)
  BY DEF Counted, OwnJobOnly, ResetForRetry, ResetForKeyedRetry, Cancel, CreateContract, OpenByHand
<1>3. UNCHANGED <<subscriptions, lane, job>> /\ repeats' = repeats
  BY <1>1, <1>2, Types
  DEF CallBegins, CallGoesOn, CallerDies, OpenVerification, OpenActivation, Verify, Activate,
      ActivationRefused, Enqueue, workspace, trouble, Fault, Fails
<1>4. \A d \in Callers : \/ call'[d] = call[d] \/ call'[d].at = "idle"
                         \/ /\ call'[d].id = Own
                            /\ call'[d].at \in {"verify", "activate", "enqueue"}
  BY <1>1, <1>2, CallGoes, CallReturns, Names
  DEF CallBegins, CallGoesOn, CallerDies, OpenVerification, OpenActivation, Verify, Activate,
      ActivationRefused, Enqueue, CallSteps
<1>5. /\ \A id \in JobIds \ {Own} : queue'[id].state = queue[id].state
      /\ \/ queue'[Own].state = queue[Own].state
         \/ queue[Own].state = "none"
  <2>1. CASE Enqueue(c)
    <3>1. call[c].id = Own /\ Add(Own)
      BY <2>1 DEF Enqueue, Counted, OwnJobOnly
    <3> QED BY <3>1, Names, Added
  <2>2. CASE ~Enqueue(c)
    BY <1>1, <1>2, <2>2
    DEF CallBegins, CallGoesOn, CallerDies, OpenVerification, OpenActivation, Verify, Activate,
        ActivationRefused
  <2> QED BY <2>1, <2>2
<1>6. OwnJobOnly'
  BY <1>4, <1>5, OwnCalls DEF Counted
<1>7. Due' => Due
  BY <1>3, <1>5 DEF Due, Open
<1>8. RunsCounted'
  BY <1>3, <1>7, CountKept, Types DEF Counted
<1> QED BY <1>6, <1>8 DEF Counted

LEMMA OwnTakes ==
  ASSUME TypeOK, TypeOK', JobsApart, Counted, NEW l \in Lanes, LaneTakes(l)
  PROVE  Counted'
<1>1. PICK id \in Waiting : SkipCompleted(l, id) \/ RefuseUnverified(l, id) \/ Take(l, id)
  BY DEF LaneTakes
<1>2. /\ UNCHANGED <<subscriptions, job, call, repeats>> /\ lane[l].at = "idle"
      /\ id \in JobIds /\ queue[id].state = "waiting"
  BY <1>1 DEF SkipCompleted, RefuseUnverified, Take, TakesUp, workspace, trouble, FreeLane, Rest,
              Waiting
<1>3. id = Own
  BY <1>2 DEF Counted, OwnJobOnly
<1>4. queue[Own].failed < MaxAttempts
  BY <1>2, <1>3 DEF JobsApart
<1>5. \A i \in JobIds \ {Own} : queue'[i] = queue[i]
  BY <1>1, <1>2, <1>3, <1>4, SetsState, FailsOnce DEF SkipCompleted, RefuseUnverified, Take
<1>6. OwnJobOnly'
  BY <1>2, <1>5, OwnCalls DEF Counted
<1>7. CASE Take(l, id)
  <2>1. job.status # "completed" /\ queue'[Own].state = "active"
    BY <1>2, <1>3, <1>7, SetsState DEF Take
  <2>2. Due
    BY <1>2, <1>3, <2>1 DEF Due
  <2>3. lane'[l].at = "start" /\ \A k \in Lanes \ {l} : lane'[k] = lane[k]
    BY <1>2, <1>7, Begins DEF Take
  <2>4. l \notin Open
    BY <1>2, PartsAre DEF Open
  <2>5. /\ IsFiniteSet(Open) /\ IsFiniteSet(Open')
        /\ Open' # {} /\ Cardinality(Open') = Cardinality(Open) + 1
    BY <2>3, <2>4, Opens DEF Counted, RunsCounted
  <2>6. ~Due'
    BY <2>1, <2>5 DEF Due
  <2>7. Cardinality(Open) \in Nat /\ subscriptions \in Nat /\ repeats \in Nat
    BY <2>5, OpenRuns, Types
  <2>8. subscriptions + Cardinality(Open) + 1 <= 1 + repeats
    BY <2>2 DEF Counted, RunsCounted
  <2>9. RunsCounted'
    BY <1>2, <2>5, <2>6, <2>7, <2>8 DEF RunsCounted
  <2> QED BY <1>6, <2>9 DEF Counted
<1>8. CASE SkipCompleted(l, id) \/ RefuseUnverified(l, id)
  <2>1. lane' = lane /\ queue'[Own].state \in {"completed", "failed", "waiting"}
    BY <1>2, <1>3, <1>4, <1>8, SetsState, FailsOnce DEF SkipCompleted, RefuseUnverified
  <2>2. Due' => Due
    BY <1>2, <1>3, <2>1 DEF Due, Open
  <2>3. RunsCounted'
    BY <1>2, <2>1, <2>2, CountKept, Types DEF Counted
  <2> QED BY <1>6, <2>3 DEF Counted
<1> QED BY <1>1, <1>7, <1>8

LEMMA OwnLane ==
  ASSUME TypeOK, TypeOK', JobsApart, Counted, NEW l \in Lanes, LaneGoesOn(l)
  PROVE  Counted'
<1>1. /\ call' = call
      /\ IsFiniteSet(Open) /\ Cardinality(Open) \in Nat
      /\ subscriptions \in Nat /\ repeats \in Nat /\ job \in Row
  BY OpenRuns, Types
  DEF Counted, RunsCounted, LaneGoesOn, Start, StartUnanswered, Starts, MakePart,
      Finish, FinishUnanswered, Finishes, Report, Throw, RecordFailure, ThrowOutside
<1>2. CASE Start(l) \/ MakePart(l) \/ Finish(l) \/ FinishUnanswered(l) \/ Throw(l)
  <2>1. /\ queue' = queue
        /\ Busy(l) /\ lane[l].at \notin {"record", "report"}
        /\ lane' \in [Lanes -> Lane] /\ lane'[l].at # "idle"
        /\ lane'[l].at = "report" <=> Finish(l)
        /\ \A k \in Lanes \ {l} : lane'[k] = lane[k]
    BY <1>2, Moves
  <2>2. OwnJobOnly'
    BY <1>1, <2>1, OwnCalls DEF Counted
  <2>3. l \in Open
    BY <2>1, Types DEF Open, Busy, Lane, LaneSteps
  <2>4. CASE Finish(l)
    <3>1. /\ IsFiniteSet(Open') /\ Cardinality(Open') = Cardinality(Open) - 1
          /\ Open' # {} => Open # {}
      BY <1>1, <2>1, <2>3, <2>4, Closes
    <3>2. /\ subscriptions' = subscriptions + 1 /\ repeats' = repeats
          /\ job'.status = "completed"
      BY <1>1, <2>4 DEF Finish, Finishes, trouble, Row
    <3>3. Due' => Due
      BY <2>1, <3>1, <3>2 DEF Due
    <3>4. RunsCounted'
      BY <1>1, <3>1, <3>2, <3>3 DEF Counted, RunsCounted
    <3> QED BY <2>2, <3>4 DEF Counted
  <2>5. CASE ~Finish(l)
    <3>1. Open' = Open
      <4>1. lane'[l].at \in {"start", "finish", "record"} \cup AllParts
        BY <2>1, <2>5 DEF Lane, LaneSteps
      <4> QED BY <2>1, <2>3, <4>1 DEF Open
    <3>2. \/ subscriptions' = subscriptions /\ repeats' = repeats
          \/ subscriptions' = subscriptions + 1 /\ repeats' = repeats + 1
      BY <1>1, <1>2, <2>5
      DEF Start, Starts, MakePart, FinishUnanswered, Finishes, Throw, workspace, trouble, Fault, Fails
    <3>3. Due' => Due
      BY <2>1, <2>3, <3>1 DEF Due
    <3>4. RunsCounted'
      BY <1>1, <3>1, <3>2, <3>3 DEF Counted, RunsCounted
    <3> QED BY <2>2, <3>4 DEF Counted
  <2> QED BY <2>4, <2>5
<1>3. CASE Ends(l)
  <2>1. /\ Busy(l) /\ lane[l].id \in JobIds
        /\ lane'[l].at = "idle" /\ \A k \in Lanes \ {l} : lane'[k] = lane[k]
        /\ lane[l].lost => queue' = queue
        /\ ~lane[l].lost /\ Report(l) => queue'[lane[l].id].state = "completed"
        /\ \A i \in JobIds \ {lane[l].id} : queue'[i] = queue[i]
    BY <1>3, EndsRun
  <2>2. ~lane[l].lost => lane[l].id = Own
    <3>1. ~lane[l].lost => queue[lane[l].id].state = "active"
      BY <2>1 DEF JobsApart, Holds
    <3> QED BY <2>1, <3>1 DEF Counted, OwnJobOnly
  <2>3. OwnJobOnly'
    <3>1. \A id \in JobIds \ {Own} : queue'[id].state = queue[id].state
      BY <2>1, <2>2
    <3> QED BY <1>1, <3>1, OwnCalls DEF Counted
  <2>4. subscriptions' = subscriptions /\ repeats' = repeats
    BY <1>1, <1>3
    DEF Ends, Report, RecordFailure, ThrowOutside, StartUnanswered, Starts, workspace, trouble,
        Fault, Fails
  <2>5. CASE Report(l)
    <3>1. Open' = Open
      <4>1. lane[l].at = "report"
        BY <2>5 DEF Report
      <4> QED BY <2>1, <4>1, PartsAre DEF Open
    <3>2. job' = job
      BY <2>5 DEF Report
    <3>3. Due' => Due
      BY <2>1, <2>2, <2>5, <3>1, <3>2 DEF Due
    <3>4. RunsCounted'
      BY <1>1, <2>4, <3>1, <3>3 DEF Counted, RunsCounted
    <3> QED BY <2>3, <3>4 DEF Counted
  <2>6. CASE RecordFailure(l) \/ ThrowOutside(l) \/ StartUnanswered(l)
    <3>1. l \in Open
      BY <2>6 DEF RecordFailure, ThrowOutside, StartUnanswered, Open
    <3>2. IsFiniteSet(Open') /\ Cardinality(Open') = Cardinality(Open) - 1
      BY <1>1, <2>1, <3>1, Closes
    <3>3. RunsCounted'
      BY <1>1, <2>4, <3>2 DEF Counted, RunsCounted
    <3> QED BY <2>3, <3>3 DEF Counted
  <2> QED BY <1>3, <2>5, <2>6 DEF Ends
<1> QED BY <1>2, <1>3 DEF LaneGoesOn, Ends

LEMMA OwnLock ==
  ASSUME TypeOK, TypeOK', JobsApart, Counted, NEW l \in Lanes, LosesLock(l)
  PROVE  Counted'
<1>1. /\ lane[l].id \in JobIds /\ queue[lane[l].id].state = "active"
      /\ UNCHANGED <<call, subscriptions>> /\ repeats' = repeats + 1
  BY DEF LosesLock, JobsApart, Busy, Holds, workspace, Fails
<1>2. lane[l].id = Own
  BY <1>1 DEF Counted, OwnJobOnly
<1>3. \A id \in JobIds \ {Own} : queue'[id] = queue[id]
  BY <1>2, Types DEF LosesLock
<1>4. OwnJobOnly'
  BY <1>1, <1>3, OwnCalls DEF Counted
<1>5. Open' = Open
  <2>1. \A k \in Lanes : lane'[k].at = lane[k].at
    BY Types DEF LosesLock, Lane
  <2> QED BY <2>1 DEF Open
<1>6. Cardinality(Open) \in Nat /\ subscriptions \in Nat /\ repeats \in Nat
  BY OpenRuns, Types DEF Counted, RunsCounted
<1>7. RunsCounted'
  BY <1>1, <1>5, <1>6 DEF Counted, RunsCounted
<1> QED BY <1>4, <1>7 DEF Counted

LEMMA OwnDies ==
  ASSUME TypeOK, TypeOK', Counted, WorkerDies
  PROVE  Counted'
<1>1. /\ UNCHANGED <<call, job, subscriptions>> /\ repeats' = repeats
      /\ lane' = [k \in Lanes |-> Rest]
  BY Types DEF WorkerDies, workspace, Fault, Fails
<1>2. /\ \A id \in JobIds : /\ queue[id].state # "active" => queue'[id] = queue[id]
                            /\ queue'[id].state # "active"
                            /\ queue'[id].state = "none" => queue[id].state = "none"
  BY StallsAll DEF WorkerDies
<1>3. OwnJobOnly'
  <2>1. \A id \in JobIds \ {Own} : queue'[id] = queue[id]
    BY <1>2 DEF Counted, OwnJobOnly
  <2> QED BY <1>1, <2>1, OwnCalls DEF Counted
<1>4. Open' = {}
  BY <1>1, PartsAre DEF Open, Rest
<1>5. Due' => Due \/ Open # {}
  BY <1>1, <1>2, <1>4, Names DEF Due
<1>6. /\ Cardinality(Open) \in Nat /\ subscriptions \in Nat /\ repeats \in Nat
      /\ Open # {} => Cardinality(Open) >= 1
  BY OpenRuns, Types DEF Counted, RunsCounted
<1>7. IsFiniteSet(Open') /\ Cardinality(Open') = 0
  BY <1>4, FS_EmptySet
<1>8. RunsCounted'
  BY <1>1, <1>5, <1>6, <1>7 DEF Counted, RunsCounted
<1> QED BY <1>3, <1>8 DEF Counted

LEMMA OwnStep ==
  TypeOK /\ TypeOK' /\ JobsApart /\ Unborn /\ (asked = 0 => Counted) /\ [Next]_vars
    => (asked' = 0 => Counted')
<1> SUFFICES ASSUME TypeOK, TypeOK', JobsApart, Unborn, asked = 0 => Counted, [Next]_vars, asked' = 0
             PROVE  Counted'
  OBVIOUS
<1>1. asked = 0
  <2>1. asked' = asked \/ asked' = asked + 1
    BY DEF Next, vars, account, CallBegins, CallGoesOn, CallerDies, LaneTakes, LaneGoesOn, LosesLock,
           Recover, WorkerDies, RegisterCompany, RegisterForOwner, Register, LinkExpires,
           OpenVerification, OpenActivation, AskRetry, AskKeyedRetry, AskCancel, AskContract, Asks,
           Verify, Activate, ActivationRefused, Enqueue, ResetForRetry, ResetForKeyedRetry,
           Cancel, CreateContract, OpenByHand, SetsRows, SkipCompleted, RefuseUnverified, Take,
           TakesUp, Start, StartUnanswered, Starts, MakePart, Finish, FinishUnanswered, Finishes,
           Report, Throw, RecordFailure, ThrowOutside
  <2> QED BY <2>1, Types, ProvisioningAssumption
<1>2. Counted /\ repeats \in Nat
  BY <1>1, Types
<1>3. ASSUME NEW status \in {"pending", "pending_activation"}, Register(status) PROVE Counted'
  <2>1. job.status = "none" /\ job'.status = "pending"
    BY <1>3, Types DEF Register, Unborn, Row
  <2>2. UNCHANGED <<queue, lane, call, subscriptions, repeats>>
    BY <1>3 DEF Register, workspace, trouble
  <2>3. Due' => Due
    BY <2>1, <2>2 DEF Due, Open
  <2>4. RunsCounted'
    BY <1>2, <2>2, <2>3, CountKept DEF Counted
  <2>5. OwnJobOnly'
    BY <1>2, <2>2, OwnCalls DEF Counted
  <2> QED BY <2>4, <2>5 DEF Counted
<1>4. CASE LinkExpires \/ UNCHANGED vars
  <2>1. UNCHANGED <<queue, lane, call, subscriptions, repeats, job>>
    BY <1>4 DEF LinkExpires, vars, account, workspace, trouble
  <2>2. Due' => Due
    BY <2>1 DEF Due, Open
  <2>3. RunsCounted'
    BY <1>2, <2>1, <2>2, CountKept DEF Counted
  <2>4. OwnJobOnly'
    BY <1>2, <2>1, OwnCalls DEF Counted
  <2> QED BY <2>3, <2>4 DEF Counted
<1>5. CASE Recover
  <2>1. /\ \A id \in JobIds \ {Own} : queue'[id] = queue[id]
        /\ UNCHANGED <<lane, call, subscriptions, repeats, job>>
        /\ queue[Own].state = "none"
    BY <1>5, Added, Names DEF Recover, workspace, trouble
  <2>2. Due' => Due
    BY <2>1 DEF Due
  <2>3. RunsCounted'
    BY <1>2, <2>1, <2>2, CountKept DEF Counted
  <2>4. OwnJobOnly'
    BY <1>2, <2>1, OwnCalls DEF Counted
  <2> QED BY <2>3, <2>4 DEF Counted
<1>6. asked' = asked
  BY <1>1
<1> QED BY <1>2, <1>3, <1>4, <1>5, <1>6, OwnRequests, OwnTakes, OwnLane, OwnLock, OwnDies
        DEF Next, RegisterCompany, RegisterForOwner

-----------------------------------------------------------------------------
(* The theorems. *)

LEMMA InitHolds == Init => IInv
<1> SUFFICES ASSUME Init PROVE IInv
  OBVIOUS
<1>1. /\ job \in Row /\ lane \in [Lanes -> Lane] /\ call \in [Callers -> Call]
      /\ queue \in [JobIds -> Job]
  BY ProvisioningAssumption DEF Init, Row, Lane, Call, Job, Idle, Rest, LaneSteps, CallSteps
<1>2. TypeOK
  <2>1. link \in [used: BOOLEAN, expired: BOOLEAN]
    BY DEF Init
  <2>2. /\ activations \in Nat /\ subscriptions \in Nat /\ contracts \in Nat
        /\ asked \in 0..MaxAsked /\ faults \in 0..MaxFaults /\ repeats \in Nat
    BY ProvisioningAssumption DEF Init
  <2>3. done \in SUBSET AllParts /\ verified \in BOOLEAN /\ trial \in BOOLEAN
    BY DEF Init
  <2> QED BY <1>1, <2>1, <2>2, <2>3, Types DEF Init
<1>3. /\ \A l \in Lanes : ~Busy(l)
      /\ \A c \in Callers : call[c].at = "idle"
      /\ \A id \in JobIds : queue[id].state = "none" /\ queue[id].failed < MaxAttempts
  BY ProvisioningAssumption DEF Init, Idle, Rest, Busy
<1>4. JobsApart /\ Unborn
  BY <1>3 DEF Init, JobsApart, Unborn, Holds
<1>5. PartsPassed /\ LinkTaken
  BY <1>3 DEF Init, PartsPassed, TrialAfterParts, LinkTaken, ActivatedOnce
<1>6. OwnJobOnly
  BY <1>3 DEF Init, OwnJobOnly
<1>7. Open = {}
  BY <1>3, PartsAre DEF Open, Busy
<1>8. RunsCounted
  BY <1>7, FS_EmptySet DEF Init, RunsCounted
<1> QED BY <1>2, <1>4, <1>5, <1>6, <1>8 DEF IInv, Counted

LEMMA StepHolds == IInv /\ [Next]_vars => IInv'
  BY TypeStep, UnbornStep, PartsStep, LinkStep, OwnStep DEF IInv

LEMMA Invariance == Spec => []IInv
  BY InitHolds, StepHolds, PTL DEF Spec

\* Every variable keeps its type; the attempts of a job never pass MaxAttempts.
THEOREM TypeCorrect == Spec => []TypeOK
<1>1. IInv => TypeOK
  BY DEF IInv
<1> QED BY <1>1, Invariance, PTL

\* Whatever runs, retries, throws and dies: a trial or its subscription means a
\* complete workspace and a verified owner, and so does an active tenant unless
\* an operator has sold it a contract by hand.
THEOREM TrialIsEarned == Spec => []TrialAfterParts
<1>1. IInv => TrialAfterParts
  BY DEF IInv, PartsPassed
<1> QED BY <1>1, Invariance, PTL

\* Without an operator, repeated links, attempts, deaths and restarts create one
\* subscription, and at most one more for every hand-over of a run that went on
\* without its lock and every lost answer to its end.
THEOREM SubscribedOnce == Spec => []OneSubscription
<1>1. IInv => OneSubscription
  <2> SUFFICES ASSUME IInv, asked = 0 PROVE subscriptions <= 1 + repeats
    BY DEF OneSubscription
  <2>1. RunsCounted /\ TypeOK
    BY DEF IInv, Counted
  <2>2. Cardinality(Open) \in Nat /\ subscriptions \in Nat /\ repeats \in Nat
    BY <2>1, OpenRuns, Types DEF RunsCounted
  <2> QED BY <2>1, <2>2 DEF RunsCounted
<1> QED BY <1>1, Invariance, PTL

\* However many requests follow the link at once, one activates the owner.
THEOREM ActivationIsSingle == Spec => []ActivatedOnce
<1>1. IInv => ActivatedOnce
  BY DEF IInv, LinkTaken
<1> QED BY <1>1, Invariance, PTL
=============================================================================
