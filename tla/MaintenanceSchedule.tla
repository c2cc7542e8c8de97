------------------------ MODULE MaintenanceSchedule ------------------------
(***************************************************************************)
(* One type of maintenance job (travel automation, support, cleanup, ...): *)
(* the cron callback of every server queues one job per tenant, and the    *)
(* slots of the maintenance worker run the queue.                          *)
(*                                                                         *)
(* A slot of the schedule is a tenant and a minute: the callback truncates *)
(* its time to the minute, locks the slot in Redis and queues the job      *)
(* under an id derived from the slot, and the worker opens an execution    *)
(* row that the database keeps unique per job type and minute.             *)
(***************************************************************************)
EXTENDS Naturals, FiniteSets

CONSTANTS Tenants,
          Servers,         \* processes that run the scheduler
          Lanes,           \* jobs the workers run at the same time
          TicksPerMinute,  \* times the cron expression fires in a minute
          Minutes,         \* bound: length of the observed time, in minutes
          MaxAttempts      \* attempts of a queued job

ASSUME TenantsAssumption  == Tenants # {}
ASSUME TicksAssumption    == TicksPerMinute \in Nat \ {0}
ASSUME MinutesAssumption  == Minutes \in Nat \ {0}
ASSUME AttemptsAssumption == MaxAttempts \in Nat \ {0}

VARIABLES
  now,     \* the current tick of the cron expression
  fired,   \* servers whose cron has fired for the current tick
  call,    \* the enqueue call of each server
  locked,  \* slots whose Redis key is set
  job,     \* the queued job of each slot
  row,     \* the execution row of each slot
  lane,    \* the job that each lane is running
  scanned, \* history: minutes some enqueue call ended normally for
  lost,    \* history: slots locked by a call that died before it queued
  works    \* history: times the work of a slot was run

queue == <<job, row, lane, works>>
cron  == <<fired, call, locked, scanned, lost>>
vars  == <<now, cron, queue>>

Ticks     == 0 .. Minutes * TicksPerMinute - 1
Minute(t) == t \div TicksPerMinute
Slots     == Tenants \X (0 .. Minutes - 1)

IdleCall == [pc |-> "idle", minute |-> 0, todo |-> {}, adding |-> {}]
IdleLane == [pc |-> "idle", slot |-> <<>>]
NoJob    == [state |-> "none", made |-> 0, stalls |-> 0]

\* The counts of a job that has ended are not looked at again.
Ended(state) == [NoJob EXCEPT !.state = state]

Init ==
  /\ now     = 0
  /\ fired   = {}
  /\ call    = [s \in Servers |-> IdleCall]
  /\ locked  = {}
  /\ job     = [x \in Slots |-> NoJob]
  /\ row     = [x \in Slots |-> "none"]
  /\ lane    = [l \in Lanes |-> IdleLane]
  /\ scanned = {}
  /\ lost    = {}
  /\ works   = [x \in Slots |-> 0]

Tick ==
  /\ now + 1 \in Ticks
  /\ now' = now + 1
  /\ fired' = {}
  /\ UNCHANGED <<call, locked, scanned, lost, queue>>

-----------------------------------------------------------------------------
(* The cron callback of a server. *)

\* The callback reads the time, truncates it, and lists the active tenants.
Fire(s) ==
  /\ call[s].pc = "idle" /\ s \notin fired
  /\ fired' = fired \cup {s}
  /\ call'  = [call EXCEPT ![s] = [pc |-> "lock", minute |-> Minute(now), todo |-> Tenants, adding |-> {}]]
  /\ UNCHANGED <<now, locked, scanned, lost, queue>>

\* Mutant: the key lacks the tenant.
AcquiredByMinute(x) == \A y \in locked : y[2] # x[2]

Acquired(x) == x \notin locked

\* The call goes on with the tenants that are left, or ends.
GoesThrough(s, left) ==
  IF left = {}
    THEN /\ scanned' = scanned \cup {call[s].minute}
         /\ call' = [call EXCEPT ![s] = IdleCall]
    ELSE /\ call' = [call EXCEPT ![s].pc = "lock", ![s].todo = left, ![s].adding = {}]
         /\ UNCHANGED scanned

\* SET key NX: one call gets the slot, the others skip the tenant.
Lock(s, t) ==
  LET c == call[s]
      x == <<t, c.minute>>
  IN
  /\ c.pc = "lock" /\ t \in c.todo
  /\ locked' = locked \cup {x}
  /\ IF Acquired(x)
       THEN /\ call' = [call EXCEPT ![s].pc = "add", ![s].todo = @ \ {t}, ![s].adding = {x}]
            /\ UNCHANGED scanned
       ELSE GoesThrough(s, c.todo \ {t})
  /\ UNCHANGED <<now, fired, lost, queue>>

\* The queue ignores an add under the id of a job that it still holds.
Add(s) ==
  LET c == call[s] IN
  /\ c.pc = "add"
  /\ job' = [x \in Slots |->
       IF x \in c.adding /\ job[x].state = "none"
         THEN [state |-> "waiting", made |-> 0, stalls |-> 0] ELSE job[x]]
  /\ GoesThrough(s, c.todo)
  /\ UNCHANGED <<now, fired, locked, lost, row, lane, works>>

\* Redis throws and the callback logs it, or the server dies: the tenants that
\* are left, and a slot that is locked and not queued yet, are abandoned.
CallThrows(s) ==
  /\ call[s].pc # "idle"
  /\ lost' = lost \cup call[s].adding
  /\ call' = [call EXCEPT ![s] = IdleCall]
  /\ UNCHANGED <<now, fired, locked, scanned, queue>>

-----------------------------------------------------------------------------
(* The queue and its worker. *)

\* Mutant: one attempt more than the bound.
AttemptsLeftLate(x) == job[x].made <= MaxAttempts

AttemptsLeft(x) == job[x].made + 1 < MaxAttempts

\* The processor threw: the queue delays the job, or gives it up.
Rejected(x) ==
  job' = IF AttemptsLeft(x)
           THEN [job EXCEPT ![x].state = "delayed", ![x].made = @ + 1]
           ELSE [job EXCEPT ![x] = Ended("failed")]

SetState(x, state) ==
  job' = [job EXCEPT ![x].state = state]

Moves(l, step) == lane' = [lane EXCEPT ![l] = [pc |-> step, slot |-> @.slot]]

Take(l, x) ==
  /\ lane[l].pc = "idle" /\ job[x].state = "waiting"
  /\ SetState(x, "active")
  /\ lane' = [lane EXCEPT ![l] = [pc |-> "start", slot |-> x]]
  /\ UNCHANGED <<now, cron, row, works>>

\* Mutant: the row is upserted.
RowFreeAlways(x) == TRUE

RowFree(x) == row[x] = "none"

\* The execution row, created before the try block: the unique key of the slot
\* refuses a second one and the processor throws.
StartRow(l) ==
  LET x == lane[l].slot IN
  /\ lane[l].pc = "start"
  /\ IF RowFree(x)
       THEN /\ row' = [row EXCEPT ![x] = "running"]
            /\ Moves(l, "work")
            /\ UNCHANGED job
       ELSE /\ Rejected(x)
            /\ lane' = [lane EXCEPT ![l] = IdleLane]
            /\ UNCHANGED row
  /\ UNCHANGED <<now, cron, works>>

\* The tenant's runtime cannot be resolved, or the create fails as such.
StartThrows(l) ==
  /\ lane[l].pc = "start"
  /\ Rejected(lane[l].slot)
  /\ lane' = [lane EXCEPT ![l] = IdleLane]
  /\ UNCHANGED <<now, cron, row, works>>

Work(l) ==
  /\ lane[l].pc = "work"
  /\ works' = [works EXCEPT ![lane[l].slot] = @ + 1]
  /\ \E step \in {"complete", "fail"} : Moves(l, step)
  /\ UNCHANGED <<now, cron, job, row>>

CompleteRow(l) ==
  /\ lane[l].pc = "complete"
  /\ row' = [row EXCEPT ![lane[l].slot] = "completed"]
  /\ Moves(l, "resolve")
  /\ UNCHANGED <<now, cron, job, works>>

\* Mutant: the error is swallowed.
CompleteThrowsUnseen(l) ==
  /\ lane[l].pc = "complete"
  /\ Moves(l, "resolve")
  /\ UNCHANGED <<now, cron, job, row, works>>

CompleteThrows(l) ==
  /\ lane[l].pc = "complete"
  /\ Moves(l, "fail")
  /\ UNCHANGED <<now, cron, job, row, works>>

\* The processor resolved: the queue completes the job.
Resolve(l) ==
  /\ lane[l].pc = "resolve"
  /\ job' = [job EXCEPT ![lane[l].slot] = Ended("completed")]
  /\ lane' = [lane EXCEPT ![l] = IdleLane]
  /\ UNCHANGED <<now, cron, row, works>>

\* The catch block marks the row, if it can, and throws on.
FailRow(l) ==
  LET x == lane[l].slot IN
  /\ lane[l].pc = "fail"
  /\ row' \in {row, [row EXCEPT ![x] = "failed"]}
  /\ Rejected(x)
  /\ lane' = [lane EXCEPT ![l] = IdleLane]
  /\ UNCHANGED <<now, cron, works>>

WorkerDies(l) ==
  /\ lane[l].pc # "idle"
  /\ lane' = [lane EXCEPT ![l] = IdleLane]
  /\ UNCHANGED <<now, cron, job, row, works>>

BackoffElapses(x) ==
  /\ job[x].state = "delayed"
  /\ SetState(x, "waiting")
  /\ UNCHANGED <<now, cron, row, lane, works>>

\* Mutant: a job is looked after once.
RecoverableOnce(x) ==
  job[x].state = "active" /\ job[x].stalls = 0 /\ \A l \in Lanes : lane[l].slot # x

Recoverable(x) == job[x].state = "active" /\ \A l \in Lanes : lane[l].slot # x

\* The queue puts the job of a dead worker back once, and then gives it up.
Stalled(x) ==
  /\ Recoverable(x)
  /\ job' = IF job[x].stalls = 0
               THEN [job EXCEPT ![x] = [state |-> "waiting", made |-> job[x].made, stalls |-> 1]]
               ELSE [job EXCEPT ![x] = Ended("failed")]
  /\ UNCHANGED <<now, cron, row, lane, works>>

-----------------------------------------------------------------------------
ServerStep(s) ==
  \/ Fire(s) \/ (\E t \in Tenants : Lock(s, t)) \/ Add(s) \/ CallThrows(s)

LaneProgress(l) ==
  \/ \E x \in Slots : Take(l, x)
  \/ StartRow(l) \/ Work(l) \/ CompleteRow(l) \/ Resolve(l) \/ FailRow(l)

LaneStep(l) == LaneProgress(l) \/ StartThrows(l) \/ CompleteThrows(l) \/ WorkerDies(l)

QueueStep == \E x \in Slots : BackoffElapses(x) \/ Stalled(x)

Next ==
  \/ Tick
  \/ \E s \in Servers : ServerStep(s)
  \/ \E l \in Lanes : LaneStep(l)
  \/ QueueStep

Spec == Init /\ [][Next]_vars

\* Live workers go on, and the queue's own timers fire.
Fairness ==
  /\ \A l \in Lanes : WF_vars(LaneProgress(l))
  /\ WF_vars(QueueStep)

FairSpec == Spec /\ Fairness

-----------------------------------------------------------------------------
(* Properties. *)

JobStates == {"none", "waiting", "active", "delayed", "completed", "failed"}

TypeOK ==
  /\ now \in Ticks
  /\ fired \subseteq Servers
  /\ call \in [Servers -> [pc : {"idle", "lock", "add"}, minute : 0 .. Minutes - 1,
                           todo : SUBSET Tenants, adding : SUBSET Slots]]
  /\ \A s \in Servers : call[s].pc = "add" <=> call[s].adding # {}
  /\ locked \subseteq Slots /\ lost \subseteq Slots /\ scanned \subseteq 0 .. Minutes - 1
  /\ job \in [Slots -> [state : JobStates, made : 0 .. MaxAttempts, stalls : 0 .. 1]]
  /\ row \in [Slots -> {"none", "running", "completed", "failed"}]
  /\ lane \in [Lanes ->
       [pc : {"idle", "start", "work", "complete", "resolve", "fail"}, slot : Slots \cup {<<>>}]]
  /\ works \in [Slots -> Nat]

\* The work of a slot runs at most once, although several servers fire for it,
\* the queue retries what threw and hands the jobs of dead workers out again.
WorkOncePerSlot == \A x \in Slots : works[x] <= 1

\* Once some server has gone through the tenants of a minute, each of them has
\* its job, except where a server died between the lock and the queue.
ScannedMinutesQueued ==
  \A m \in scanned, n \in Tenants :
    LET x == <<n, m>> IN
    \/ job[x].state # "none" \/ x \in lost
    \/ \E s \in Servers : x \in call[s].adding

\* A completed job did its work and says so in its row; a row that is not
\* completed belongs to no completed job.
CompletionRecorded ==
  \A x \in Slots : job[x].state = "completed" => row[x] = "completed" /\ works[x] = 1

\* A slot is queued by one call only, also when several servers or ticks of the
\* same minute go through the tenants at once.
ExclusiveSlots ==
  \A s, z \in Servers : s # z => call[s].adding \cap call[z].adding = {}

\* Every queued job ends, completed or given up: retries that are refused for
\* their old row, and workers that die, do not keep it in the queue for ever.
JobsEnd ==
  \A x \in Slots :
    job[x].state = "waiting" ~> job[x].state \in {"completed", "failed"}
=============================================================================
