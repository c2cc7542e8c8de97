--------------------- MODULE MaintenanceScheduleProofs ---------------------
(***************************************************************************)
(* Proofs about MaintenanceSchedule, for any numbers of tenants, servers,  *)
(* lanes, ticks and attempts.                                              *)
(***************************************************************************)
EXTENDS MaintenanceSchedule, Integers, TLAPS

MinuteIds == 0 .. Minutes - 1

(* What a call is about to add it has locked, and it has locked every      *)
(* tenant it went past.                                                    *)
CallsLock ==
  \A s \in Servers :
    /\ call[s].adding \subseteq locked
    /\ call[s].pc # "idle" =>
         \A n \in Tenants \ call[s].todo : <<n, call[s].minute>> \in locked

(* A locked slot is queued, about to be, or lost.                          *)
Accounted(x) ==
  \/ job[x].state # "none"
  \/ x \in lost
  \/ \E s \in Servers : x \in call[s].adding

LocksLead ==
  /\ \A x \in locked : Accounted(x)
  /\ \A m \in scanned, n \in Tenants : <<n, m>> \in locked

CronInv == CallsLock /\ LocksLead /\ ExclusiveSlots

Busy(l) == lane[l].pc # "idle"

(* A busy lane runs an active job, and no other lane runs the same.        *)
LanesApart ==
  /\ \A l \in Lanes : Busy(l) => lane[l].slot \in Slots /\ job[lane[l].slot].state = "active"
  /\ \A l, k \in Lanes : l # k /\ Busy(l) /\ Busy(k) => lane[l].slot # lane[k].slot

(* The work follows the row, and the steps after it follow the work.       *)
RowLeads ==
  /\ \A x \in Slots : row[x] = "none" => works[x] = 0
  /\ \A l \in Lanes :
       /\ lane[l].pc = "work" => works[lane[l].slot] = 0 /\ row[lane[l].slot] # "none"
       /\ lane[l].pc = "complete" => works[lane[l].slot] = 1
       /\ lane[l].pc = "resolve" => works[lane[l].slot] = 1 /\ row[lane[l].slot] = "completed"

LaneInv == LanesApart /\ RowLeads /\ WorkOncePerSlot /\ CompletionRecorded

-----------------------------------------------------------------------------
(* Type correctness. *)

(* Dividing the ticks into minutes.                                        *)
LEMMA MinuteOfTick ==
  ASSUME NEW m \in Nat \ {0}, NEW p \in Nat \ {0}, NEW t \in 0 .. m * p - 1
  PROVE  t \div p \in 0 .. m - 1
<1> DEFINE q == t \div p
<1>1. /\ t \in Int /\ p \in Int /\ m \in Int /\ m * p \in Int
      /\ p > 0 /\ t >= 0 /\ t < m * p
  BY SMT
<1>2. q \in Int /\ p * q <= t /\ t < p * q + p
  BY <1>1, SMT
<1>3. \A a, b, c \in Int : a > 0 /\ b >= c => a * b >= a * c
  BY SMT
<1> HIDE DEF q
<1>4. ASSUME q >= m PROVE FALSE
  <2>1. p * q >= p * m
    BY <1>1, <1>2, <1>3, <1>4
  <2> QED BY <2>1, <1>1, <1>2, SMT
<1>5. ASSUME q < 0 PROVE FALSE
  <2>1. p * (-1) >= p * q
    BY <1>1, <1>2, <1>3, <1>5, SMT
  <2> QED BY <2>1, <1>1, <1>2, SMT
<1>6. q \in 0 .. m - 1
  BY <1>1, <1>2, <1>4, <1>5, SMT
<1> QED BY <1>6 DEF q

CallType ==
  [pc : {"idle", "lock", "add"}, minute : MinuteIds, todo : SUBSET Tenants, adding : SUBSET Slots]
JobType == [state : JobStates, made : 0 .. MaxAttempts, stalls : 0 .. 1]
LaneType ==
  [pc : {"idle", "start", "work", "complete", "resolve", "fail"}, slot : Slots \cup {<<>>}]

CronType ==
  /\ now \in Ticks
  /\ fired \subseteq Servers
  /\ call \in [Servers -> CallType]
  /\ \A s \in Servers : call[s].pc = "add" <=> call[s].adding # {}
  /\ locked \subseteq Slots /\ lost \subseteq Slots /\ scanned \subseteq MinuteIds

QueueType ==
  /\ job \in [Slots -> JobType]
  /\ row \in [Slots -> {"none", "running", "completed", "failed"}]
  /\ lane \in [Lanes -> LaneType]
  /\ works \in [Slots -> Nat]

LEMMA TypesSplit == TypeOK <=> CronType /\ QueueType
  BY DEF TypeOK, CronType, QueueType, CallType, JobType, LaneType, MinuteIds

LEMMA IdleTypes ==
  /\ IdleCall \in CallType /\ IdleLane \in LaneType /\ NoJob \in JobType
  /\ 0 \in Ticks
<1> USE TicksAssumption, MinutesAssumption, AttemptsAssumption
<1>1. 0 \in MinuteIds
  BY DEF MinuteIds
<1>2. \A a, b \in Nat \ {0} : a * b \in Nat /\ a * b >= 1
  BY SMT
<1>3. 0 \in Ticks
  BY <1>2, SMT DEF Ticks
<1> QED
  BY <1>1, <1>3 DEF IdleCall, IdleLane, NoJob, CallType, LaneType, JobType, JobStates

(* A call that goes on or ends leaves the types of the cron side.          *)
LEMMA GoesThroughTypes ==
  ASSUME CronType, NEW s \in Servers, NEW left \in SUBSET Tenants,
         call[s].pc # "idle", GoesThrough(s, left)
  PROVE  /\ call' \in [Servers -> CallType]
         /\ call'[s].adding = {} /\ call'[s].pc \in {"idle", "lock"}
         /\ \A z \in Servers \ {s} : call'[z] = call[z]
         /\ call'[s].pc # "idle" => call'[s].todo = left /\ call'[s].minute = call[s].minute
         /\ scanned \subseteq scanned' /\ scanned' \subseteq scanned \cup {call[s].minute}
         /\ scanned' # scanned => left = {}
         /\ scanned' \subseteq MinuteIds
<1>1. call \in [Servers -> CallType] /\ call[s] \in CallType /\ scanned \subseteq MinuteIds
  BY DEF CronType
<1>2. CASE left = {}
  <2>1. call' = [call EXCEPT ![s] = IdleCall] /\ scanned' = scanned \cup {call[s].minute}
    BY <1>2 DEF GoesThrough
  <2>2. call'[s] = IdleCall
    BY <2>1, <1>1
  <2> QED BY <1>1, <1>2, <2>1, <2>2, IdleTypes DEF IdleCall, CallType
<1>3. CASE left # {}
  <2>1. /\ call' = [call EXCEPT ![s].pc = "lock", ![s].todo = left, ![s].adding = {}]
        /\ scanned' = scanned
    BY <1>3 DEF GoesThrough
  <2>2. call' \in [Servers -> CallType]
    BY <1>1, <2>1 DEF CallType
  <2>3. /\ call'[s].adding = {} /\ call'[s].pc = "lock"
        /\ call'[s].todo = left /\ call'[s].minute = call[s].minute
    BY <1>1, <2>1 DEF CallType
  <2>4. \A z \in Servers \ {s} : call'[z] = call[z]
    BY <1>1, <2>1
  <2> QED BY <1>1, <1>3, <2>1, <2>2, <2>3, <2>4
<1> QED BY <1>2, <1>3

(* The job side: how the steps of the lanes and the queue change a job.    *)
LEMMA EndedType == \A e \in JobStates : Ended(e) \in JobType /\ Ended(e).state = e
  BY AttemptsAssumption DEF Ended, NoJob, JobType

LEMMA RejectedTypes ==
  ASSUME QueueType, NEW x \in Slots, Rejected(x)
  PROVE  /\ job' \in [Slots -> JobType]
         /\ job'[x].state \in {"delayed", "failed"}
         /\ \A y \in Slots \ {x} : job'[y] = job[y]
<1>1. job \in [Slots -> JobType] /\ job[x] \in JobType
  BY DEF QueueType
<1>2. CASE AttemptsLeft(x)
  <2>1. job' = [job EXCEPT ![x].state = "delayed", ![x].made = @ + 1]
    BY <1>2 DEF Rejected
  <2>2. job[x].made + 1 \in 0 .. MaxAttempts
    BY <1>1, <1>2, AttemptsAssumption DEF AttemptsLeft, JobType
  <2> QED BY <1>1, <2>1, <2>2 DEF JobType, JobStates
<1>3. CASE ~AttemptsLeft(x)
  <2>1. job' = [job EXCEPT ![x] = Ended("failed")]
    BY <1>3 DEF Rejected
  <2>2. Ended("failed") \in JobType /\ Ended("failed").state = "failed"
    BY EndedType DEF JobStates
  <2> QED BY <1>1, <2>1, <2>2
<1> QED BY <1>2, <1>3

LEMMA SetStateTypes ==
  ASSUME QueueType, NEW x \in Slots, NEW e \in JobStates, SetState(x, e)
  PROVE  /\ job' \in [Slots -> JobType]
         /\ job'[x].state = e
         /\ \A y \in Slots \ {x} : job'[y] = job[y]
  BY DEF QueueType, SetState, JobType

LEMMA StalledTypes ==
  ASSUME QueueType, NEW x \in Slots, Stalled(x)
  PROVE  /\ job' \in [Slots -> JobType]
         /\ job'[x].state \in {"waiting", "failed"}
         /\ \A y \in Slots \ {x} : job'[y] = job[y]
<1>1. job \in [Slots -> JobType] /\ job[x] \in JobType
  BY DEF QueueType
<1>2. CASE job[x].stalls = 0
  <2>1. job' = [job EXCEPT ![x] = [state |-> "waiting", made |-> job[x].made, stalls |-> 1]]
    BY <1>2 DEF Stalled
  <2>2. [state |-> "waiting", made |-> job[x].made, stalls |-> 1] \in JobType
    BY <1>1 DEF JobType, JobStates
  <2> QED BY <1>1, <2>1, <2>2
<1>3. CASE job[x].stalls # 0
  <2>1. job' = [job EXCEPT ![x] = Ended("failed")]
    BY <1>3 DEF Stalled
  <2>2. Ended("failed") \in JobType /\ Ended("failed").state = "failed"
    BY EndedType DEF JobStates
  <2> QED BY <1>1, <2>1, <2>2
<1> QED BY <1>2, <1>3

-----------------------------------------------------------------------------
(* The cron side: each step keeps the types and CronInv. *)

(* Steps of the queue and the lanes never unmake a job.                    *)
LEMMA CronKept ==
  ASSUME CronType, CronInv, UNCHANGED <<now, cron>>,
         \A x \in Slots : job[x].state # "none" => job'[x].state # "none"
  PROVE  CronType' /\ CronInv'
<1>1. /\ now' = now /\ fired' = fired /\ call' = call /\ locked' = locked
      /\ scanned' = scanned /\ lost' = lost
  BY DEF cron
<1>2. CronType'
  BY <1>1 DEF CronType
<1>3. CallsLock' /\ ExclusiveSlots'
  BY <1>1 DEF CronInv, CallsLock, ExclusiveSlots
<1>4. LocksLead'
  BY <1>1 DEF CronType, CronInv, LocksLead, Accounted
<1> QED BY <1>2, <1>3, <1>4 DEF CronInv

LEMMA TickCron ==
  ASSUME CronType, CronInv, Tick
  PROVE  CronType' /\ CronInv'
<1>1. /\ now' \in Ticks /\ fired' = {} /\ call' = call /\ locked' = locked
      /\ scanned' = scanned /\ lost' = lost /\ job' = job
  BY DEF Tick, queue
<1> QED BY <1>1 DEF CronType, CronInv, CallsLock, LocksLead, Accounted, ExclusiveSlots

LEMMA FireCron ==
  ASSUME CronType, CronInv, NEW s \in Servers, Fire(s)
  PROVE  CronType' /\ CronInv'
<1> DEFINE begun == [pc |-> "lock", minute |-> Minute(now), todo |-> Tenants, adding |-> {}]
<1>1. /\ now' = now /\ fired' = fired \cup {s} /\ call' = [call EXCEPT ![s] = begun]
      /\ locked' = locked /\ scanned' = scanned /\ lost' = lost /\ job' = job
      /\ call[s].pc = "idle"
  BY DEF Fire, queue
<1>2. Minute(now) \in MinuteIds
  BY MinuteOfTick, TicksAssumption, MinutesAssumption
     DEF CronType, Ticks, Minute, MinuteIds
<1>3. begun \in CallType /\ begun.pc # "add" /\ begun.adding = {} /\ begun.todo = Tenants
  BY <1>2 DEF CallType
<1>4. call[s].adding = {}
  BY <1>1 DEF CronType
<1> HIDE DEF begun
<1>5. /\ call' \in [Servers -> CallType] /\ call'[s] = begun
      /\ \A z \in Servers \ {s} : call'[z] = call[z]
  BY <1>1, <1>3 DEF CronType
<1>6. \A z \in Servers : call'[z].adding = call[z].adding
  BY <1>3, <1>4, <1>5
<1>7. CronType'
  BY <1>1, <1>3, <1>5 DEF CronType
<1>8. CallsLock'
  BY <1>1, <1>3, <1>5, <1>6 DEF CronInv, CallsLock
<1>9. LocksLead' /\ ExclusiveSlots'
  BY <1>1, <1>6 DEF CronInv, LocksLead, Accounted, ExclusiveSlots
<1> QED BY <1>7, <1>8, <1>9 DEF CronInv

LEMMA LockCron ==
  ASSUME CronType, CronInv, NEW s \in Servers, NEW t \in Tenants, Lock(s, t)
  PROVE  CronType' /\ CronInv'
<1> DEFINE x == <<t, call[s].minute>>
<1>1. /\ now' = now /\ fired' = fired /\ lost' = lost /\ job' = job
      /\ locked' = locked \cup {x}
      /\ call[s].pc = "lock" /\ t \in call[s].todo
  BY DEF Lock, queue
<1>2. /\ call \in [Servers -> CallType] /\ call[s] \in CallType /\ x \in Slots
      /\ call[s].adding = {} /\ locked \subseteq Slots
  BY <1>1 DEF CronType, CallType, Slots, MinuteIds
<1> HIDE DEF x
<1>3. CASE x \notin locked
  <2>1. /\ call' = [call EXCEPT ![s].pc = "add", ![s].todo = @ \ {t}, ![s].adding = {x}]
        /\ scanned' = scanned
    BY <1>3 DEF Lock, Acquired, x
  <2>2. /\ call'[s].pc = "add" /\ call'[s].adding = {x} /\ call'[s].todo = call[s].todo \ {t}
        /\ call'[s].minute = call[s].minute
        /\ \A z \in Servers \ {s} : call'[z] = call[z]
    BY <2>1, <1>2 DEF CallType
  <2>3. call' \in [Servers -> CallType]
    BY <2>1, <1>2 DEF CallType
  <2>4. CronType'
    BY <1>1, <1>2, <2>1, <2>2, <2>3 DEF CronType
  <2>5. CallsLock'
    BY <1>1, <1>2, <2>2 DEF CronInv, CallsLock, x
  <2>6. LocksLead'
    BY <1>1, <1>2, <2>1, <2>2 DEF CronInv, LocksLead, Accounted
  <2>7. ExclusiveSlots'
    BY <1>3, <2>2 DEF CronInv, CallsLock, ExclusiveSlots
  <2> QED BY <2>4, <2>5, <2>6, <2>7 DEF CronInv
<1>4. CASE x \in locked
  <2>1. GoesThrough(s, call[s].todo \ {t})
    BY <1>4 DEF Lock, Acquired, x
  <2>2. call[s].todo \ {t} \in SUBSET Tenants
    BY <1>2 DEF CallType
  <2>3. /\ call' \in [Servers -> CallType]
        /\ call'[s].adding = {} /\ call'[s].pc \in {"idle", "lock"}
        /\ \A z \in Servers \ {s} : call'[z] = call[z]
        /\ call'[s].pc # "idle" =>
             call'[s].todo = call[s].todo \ {t} /\ call'[s].minute = call[s].minute
        /\ scanned' \subseteq scanned \cup {call[s].minute}
        /\ scanned' # scanned => call[s].todo \ {t} = {}
        /\ scanned' \subseteq MinuteIds
    BY <1>1, <2>1, <2>2, GoesThroughTypes
  <2>4. locked' = locked
    BY <1>1, <1>4
  <2>5. \A n \in Tenants \ (call[s].todo \ {t}) : <<n, call[s].minute>> \in locked
    BY <1>1, <1>4 DEF CronInv, CallsLock, x
  <2>6. CronType'
    BY <1>1, <2>3, <2>4 DEF CronType
  <2>7. \A z \in Servers : call'[z].adding = call[z].adding
    BY <1>2, <2>3
  <2>8. CallsLock'
    BY <2>3, <2>4, <2>5, <2>7 DEF CronInv, CallsLock
  <2>9. LocksLead' /\ ExclusiveSlots'
    BY <1>1, <2>3, <2>4, <2>5, <2>7 DEF CronInv, LocksLead, Accounted, ExclusiveSlots
  <2> QED BY <2>6, <2>8, <2>9 DEF CronInv
<1> QED BY <1>3, <1>4

LEMMA AddCron ==
  ASSUME CronType, CronInv, QueueType, NEW s \in Servers, Add(s)
  PROVE  CronType' /\ CronInv'
<1> DEFINE made == [state |-> "waiting", made |-> 0, stalls |-> 0]
<1>1. /\ now' = now /\ fired' = fired /\ lost' = lost /\ locked' = locked
      /\ call[s].pc = "add" /\ GoesThrough(s, call[s].todo)
      /\ job' = [x \in Slots |->
           IF x \in call[s].adding /\ job[x].state = "none" THEN made ELSE job[x]]
  BY DEF Add
<1>2. call \in [Servers -> CallType] /\ call[s].todo \in SUBSET Tenants /\ locked \subseteq Slots
  BY DEF CronType, CallType
<1>3. /\ call' \in [Servers -> CallType]
      /\ call'[s].adding = {} /\ call'[s].pc \in {"idle", "lock"}
      /\ \A z \in Servers \ {s} : call'[z] = call[z]
      /\ call'[s].pc # "idle" =>
           call'[s].todo = call[s].todo /\ call'[s].minute = call[s].minute
      /\ scanned' \subseteq scanned \cup {call[s].minute}
      /\ scanned' # scanned => call[s].todo = {}
      /\ scanned' \subseteq MinuteIds
  BY <1>1, <1>2, GoesThroughTypes
<1>4. \A x \in Slots : (x \in call[s].adding \/ job[x].state # "none") => job'[x].state # "none"
  BY <1>1
<1>5. CronType'
  BY <1>1, <1>3 DEF CronType
<1>6. CallsLock'
  BY <1>1, <1>3 DEF CronInv, CallsLock
<1>7. ExclusiveSlots'
  BY <1>3 DEF CronInv, ExclusiveSlots
<1>8. \A x \in locked : Accounted(x)'
  BY <1>1, <1>2, <1>3, <1>4 DEF CronInv, LocksLead, Accounted
<1>9. \A m \in scanned', n \in Tenants : <<n, m>> \in locked
  BY <1>1, <1>3 DEF CronInv, CallsLock, LocksLead
<1> QED BY <1>1, <1>5, <1>6, <1>7, <1>8, <1>9 DEF CronInv, LocksLead

LEMMA CallThrowsCron ==
  ASSUME CronType, CronInv, NEW s \in Servers, CallThrows(s)
  PROVE  CronType' /\ CronInv'
<1>1. /\ now' = now /\ fired' = fired /\ locked' = locked /\ scanned' = scanned /\ job' = job
      /\ lost' = lost \cup call[s].adding /\ call' = [call EXCEPT ![s] = IdleCall]
  BY DEF CallThrows, queue
<1>2. /\ call' \in [Servers -> CallType] /\ call'[s] = IdleCall
      /\ \A z \in Servers \ {s} : call'[z] = call[z]
      /\ call[s].adding \subseteq Slots
  BY <1>1, IdleTypes DEF CronType, CallType
<1>3. IdleCall.adding = {} /\ IdleCall.pc = "idle"
  BY DEF IdleCall
<1>4. CronType'
  BY <1>1, <1>2, <1>3 DEF CronType
<1>5. CallsLock' /\ ExclusiveSlots'
  BY <1>1, <1>2, <1>3 DEF CronInv, CallsLock, ExclusiveSlots
<1>6. LocksLead'
  BY <1>1, <1>2, <1>3 DEF CronInv, LocksLead, Accounted
<1> QED BY <1>4, <1>5, <1>6 DEF CronInv

-----------------------------------------------------------------------------
(* The queue side: each step keeps the types and LaneInv. *)

(* Steps of the cron side only make jobs that no lane runs.                *)
LEMMA LanesKept ==
  ASSUME QueueType, LaneInv, UNCHANGED <<row, lane, works>>,
         job' \in [Slots -> JobType],
         \A x \in Slots : \/ job'[x] = job[x]
                          \/ job[x].state = "none" /\ job'[x].state = "waiting"
  PROVE  QueueType' /\ LaneInv'
<1>1. QueueType'
  BY DEF QueueType
<1>2. LanesApart'
  BY DEF LaneInv, LanesApart, Busy
<1>3. RowLeads' /\ WorkOncePerSlot'
  BY DEF LaneInv, RowLeads, WorkOncePerSlot
<1>4. CompletionRecorded'
  BY DEF LaneInv, CompletionRecorded
<1> QED BY <1>1, <1>2, <1>3, <1>4 DEF LaneInv

(* A lane takes a step that leaves its job active, or rests.  What is      *)
(* written is about the lane's own slot.                                   *)
LEMMA LaneMoves ==
  ASSUME QueueType, LaneInv, NEW l \in Lanes, Busy(l), NEW x, x = lane[l].slot,
         lane' \in [Lanes -> LaneType],
         \A k \in Lanes \ {l} : lane'[k] = lane[k],
         lane'[l].slot = x \/ lane'[l].pc = "idle",
         job' \in [Slots -> JobType],
         \A y \in Slots \ {x} : job'[y] = job[y],
         job'[x].state = "active" \/ lane'[l].pc = "idle",
         row' \in [Slots -> {"none", "running", "completed", "failed"}],
         \A y \in Slots \ {x} : row'[y] = row[y],
         works' \in [Slots -> Nat],
         \A y \in Slots \ {x} : works'[y] = works[y],
         works'[x] <= 1,
         row'[x] = "none" => works'[x] = 0,
         lane'[l].pc = "work" => works'[x] = 0 /\ row'[x] # "none",
         lane'[l].pc = "complete" => works'[x] = 1,
         lane'[l].pc = "resolve" => works'[x] = 1 /\ row'[x] = "completed",
         job'[x].state = "completed" => works'[x] = 1 /\ row'[x] = "completed"
  PROVE  QueueType' /\ LaneInv'
<1>1. x \in Slots
  BY DEF LaneInv, LanesApart
<1>2. \A k \in Lanes \ {l} : Busy(k) => lane[k].slot \in Slots \ {x}
  BY DEF LaneInv, LanesApart
<1>3. QueueType'
  BY DEF QueueType
<1>4. LanesApart'
  BY <1>1, <1>2 DEF LaneInv, LanesApart, Busy
<1>5. \A y \in Slots : row'[y] = "none" => works'[y] = 0
  BY DEF LaneInv, RowLeads
<1>6. ASSUME NEW k \in Lanes
      PROVE  /\ lane'[k].pc = "work" => works'[lane'[k].slot] = 0 /\ row'[lane'[k].slot] # "none"
             /\ lane'[k].pc = "complete" => works'[lane'[k].slot] = 1
             /\ lane'[k].pc = "resolve" =>
                  works'[lane'[k].slot] = 1 /\ row'[lane'[k].slot] = "completed"
  <2>1. CASE k = l
    BY <2>1
  <2>2. CASE k # l
    BY <1>2, <2>2 DEF LaneInv, RowLeads, Busy
  <2> QED BY <2>1, <2>2
<1>7. WorkOncePerSlot' /\ CompletionRecorded'
  BY <1>1 DEF LaneInv, WorkOncePerSlot, CompletionRecorded
<1> QED BY <1>3, <1>4, <1>5, <1>6, <1>7 DEF LaneInv, RowLeads

(* What a busy lane knows.                                                 *)
LEMMA BusyLane ==
  ASSUME QueueType, LaneInv, NEW l \in Lanes, Busy(l)
  PROVE  /\ lane[l] \in LaneType /\ lane[l].slot \in Slots
         /\ job[lane[l].slot] \in JobType /\ job[lane[l].slot].state = "active"
         /\ works[lane[l].slot] \in Nat /\ works[lane[l].slot] <= 1
         /\ row[lane[l].slot] = "none" => works[lane[l].slot] = 0
  BY DEF QueueType, LaneInv, LanesApart, RowLeads, WorkOncePerSlot

(* The two ways a lane changes.                                            *)
LEMMA LaneGoesTo ==
  ASSUME QueueType, NEW l \in Lanes,
         NEW step \in {"start", "work", "complete", "resolve", "fail"},
         Moves(l, step)
  PROVE  /\ lane' \in [Lanes -> LaneType]
         /\ lane'[l].pc = step /\ lane'[l].slot = lane[l].slot
         /\ \A k \in Lanes \ {l} : lane'[k] = lane[k]
<1>1. lane' = [lane EXCEPT ![l] = [pc |-> step, slot |-> lane[l].slot]]
  BY DEF Moves
<1> QED BY <1>1 DEF QueueType, LaneType

LEMMA LaneRests ==
  ASSUME QueueType, NEW l \in Lanes, lane' = [lane EXCEPT ![l] = IdleLane]
  PROVE  /\ lane' \in [Lanes -> LaneType] /\ lane'[l].pc = "idle"
         /\ \A k \in Lanes \ {l} : lane'[k] = lane[k]
<1>1. IdleLane \in LaneType /\ IdleLane.pc = "idle"
  BY IdleTypes DEF IdleLane
<1> QED BY <1>1 DEF QueueType

LEMMA TakeLane ==
  ASSUME QueueType, LaneInv, NEW l \in Lanes, NEW x \in Slots, Take(l, x)
  PROVE  QueueType' /\ LaneInv'
<1>1. /\ lane[l].pc = "idle" /\ job[x].state = "waiting" /\ SetState(x, "active")
      /\ lane' = [lane EXCEPT ![l] = [pc |-> "start", slot |-> x]]
      /\ row' = row /\ works' = works
  BY DEF Take
<1>2. /\ job' \in [Slots -> JobType] /\ job'[x].state = "active"
      /\ \A y \in Slots \ {x} : job'[y] = job[y]
  BY <1>1, SetStateTypes DEF JobStates
<1>3. /\ lane' \in [Lanes -> LaneType] /\ lane'[l].pc = "start" /\ lane'[l].slot = x
      /\ \A k \in Lanes \ {l} : lane'[k] = lane[k]
  BY <1>1 DEF QueueType, LaneType
<1>4. \A k \in Lanes : Busy(k) => lane[k].slot \in Slots \ {x}
  BY <1>1 DEF LaneInv, LanesApart
<1>5. QueueType'
  BY <1>1, <1>2, <1>3 DEF QueueType
<1>6. LanesApart'
  BY <1>2, <1>3, <1>4 DEF LaneInv, LanesApart, Busy
<1>7. RowLeads' /\ WorkOncePerSlot'
  BY <1>1, <1>3, <1>4 DEF LaneInv, RowLeads, WorkOncePerSlot, Busy
<1>8. CompletionRecorded'
  BY <1>1, <1>2 DEF LaneInv, CompletionRecorded
<1> QED BY <1>5, <1>6, <1>7, <1>8 DEF LaneInv

LEMMA StartRowLane ==
  ASSUME QueueType, LaneInv, NEW l \in Lanes, StartRow(l)
  PROVE  QueueType' /\ LaneInv'
<1> DEFINE x == lane[l].slot
<1>1. lane[l].pc = "start" /\ Busy(l) /\ works' = works
  BY DEF StartRow, Busy
<1>2. /\ x \in Slots /\ job[x].state = "active" /\ works[x] \in Nat /\ works[x] <= 1
      /\ row[x] = "none" => works[x] = 0
  BY <1>1, BusyLane
<1>3. /\ job \in [Slots -> JobType] /\ works \in [Slots -> Nat]
      /\ row \in [Slots -> {"none", "running", "completed", "failed"}]
  BY DEF QueueType
<1>4. CASE RowFree(x)
  <2>1. row' = [row EXCEPT ![x] = "running"] /\ Moves(l, "work") /\ job' = job /\ row[x] = "none"
    BY <1>4 DEF StartRow, RowFree
  <2>2. /\ lane' \in [Lanes -> LaneType] /\ lane'[l].pc = "work" /\ lane'[l].slot = x
        /\ \A k \in Lanes \ {l} : lane'[k] = lane[k]
    BY <2>1, LaneGoesTo
  <2>3. /\ row' \in [Slots -> {"none", "running", "completed", "failed"}]
        /\ row'[x] = "running" /\ \A y \in Slots \ {x} : row'[y] = row[y]
    BY <1>2, <1>3, <2>1
  <2> HIDE DEF x
  <2> QED BY <1>1, <1>2, <1>3, <2>1, <2>2, <2>3, LaneMoves DEF x
<1>5. CASE ~RowFree(x)
  <2>1. Rejected(x) /\ lane' = [lane EXCEPT ![l] = IdleLane] /\ row' = row
    BY <1>5 DEF StartRow
  <2>2. /\ lane' \in [Lanes -> LaneType] /\ lane'[l].pc = "idle"
        /\ \A k \in Lanes \ {l} : lane'[k] = lane[k]
    BY <2>1, LaneRests
  <2>3. /\ job' \in [Slots -> JobType] /\ job'[x].state \in {"delayed", "failed"}
        /\ \A y \in Slots \ {x} : job'[y] = job[y]
    BY <1>2, <2>1, RejectedTypes
  <2> HIDE DEF x
  <2> QED BY <1>1, <1>2, <1>3, <2>1, <2>2, <2>3, LaneMoves DEF x
<1> QED BY <1>4, <1>5

LEMMA RejectionLane ==
  ASSUME QueueType, LaneInv, NEW l \in Lanes, StartThrows(l) \/ FailRow(l)
  PROVE  QueueType' /\ LaneInv'
<1> DEFINE x == lane[l].slot
<1>1. /\ Busy(l) /\ works' = works /\ Rejected(x) /\ lane' = [lane EXCEPT ![l] = IdleLane]
      /\ row' = row \/ row' = [row EXCEPT ![x] = "failed"]
  BY DEF StartThrows, FailRow, Busy
<1>2. /\ x \in Slots /\ job[x].state = "active" /\ works[x] \in Nat /\ works[x] <= 1
      /\ row[x] = "none" => works[x] = 0
  BY <1>1, BusyLane
<1>3. /\ works \in [Slots -> Nat]
      /\ row \in [Slots -> {"none", "running", "completed", "failed"}]
  BY DEF QueueType
<1>4. /\ lane' \in [Lanes -> LaneType] /\ lane'[l].pc = "idle"
      /\ \A k \in Lanes \ {l} : lane'[k] = lane[k]
  BY <1>1, LaneRests
<1>5. /\ job' \in [Slots -> JobType] /\ job'[x].state \in {"delayed", "failed"}
      /\ \A y \in Slots \ {x} : job'[y] = job[y]
  BY <1>1, <1>2, RejectedTypes
<1> HIDE DEF x
<1>6. /\ row' \in [Slots -> {"none", "running", "completed", "failed"}]
      /\ \A y \in Slots \ {x} : row'[y] = row[y]
      /\ row'[x] = row[x] \/ row'[x] = "failed"
  BY <1>1, <1>2, <1>3
<1> QED BY <1>1, <1>2, <1>3, <1>4, <1>5, <1>6, LaneMoves DEF x

LEMMA WorkLane ==
  ASSUME QueueType, LaneInv, NEW l \in Lanes, Work(l)
  PROVE  QueueType' /\ LaneInv'
<1> DEFINE x == lane[l].slot
<1>1. /\ Busy(l) /\ lane[l].pc = "work" /\ row' = row /\ job' = job
      /\ works' = [works EXCEPT ![x] = @ + 1]
  BY DEF Work, Busy
<1>2. PICK step \in {"complete", "fail"} : Moves(l, step)
  BY DEF Work
<1>3. x \in Slots /\ job[x].state = "active" /\ works[x] = 0 /\ row[x] # "none"
  BY <1>1, BusyLane DEF LaneInv, RowLeads
<1>4. /\ job \in [Slots -> JobType] /\ works \in [Slots -> Nat]
      /\ row \in [Slots -> {"none", "running", "completed", "failed"}]
  BY DEF QueueType
<1>5. /\ lane' \in [Lanes -> LaneType] /\ lane'[l].pc = step /\ lane'[l].slot = x
      /\ \A k \in Lanes \ {l} : lane'[k] = lane[k]
  BY <1>2, LaneGoesTo
<1> HIDE DEF x
<1>6. /\ works' \in [Slots -> Nat] /\ works'[x] = 1
      /\ \A y \in Slots \ {x} : works'[y] = works[y]
  BY <1>1, <1>3, <1>4
<1> QED BY <1>1, <1>2, <1>3, <1>4, <1>5, <1>6, LaneMoves DEF x

LEMMA CompleteRowLane ==
  ASSUME QueueType, LaneInv, NEW l \in Lanes, CompleteRow(l)
  PROVE  QueueType' /\ LaneInv'
<1> DEFINE x == lane[l].slot
<1>1. /\ Busy(l) /\ lane[l].pc = "complete" /\ works' = works /\ job' = job
      /\ row' = [row EXCEPT ![x] = "completed"] /\ Moves(l, "resolve")
  BY DEF CompleteRow, Busy
<1>2. x \in Slots /\ job[x].state = "active" /\ works[x] = 1
  BY <1>1, BusyLane DEF LaneInv, RowLeads
<1>3. /\ job \in [Slots -> JobType] /\ works \in [Slots -> Nat]
      /\ row \in [Slots -> {"none", "running", "completed", "failed"}]
  BY DEF QueueType
<1>4. /\ lane' \in [Lanes -> LaneType] /\ lane'[l].pc = "resolve" /\ lane'[l].slot = x
      /\ \A k \in Lanes \ {l} : lane'[k] = lane[k]
  BY <1>1, LaneGoesTo
<1> HIDE DEF x
<1>5. /\ row' \in [Slots -> {"none", "running", "completed", "failed"}]
      /\ row'[x] = "completed" /\ \A y \in Slots \ {x} : row'[y] = row[y]
  BY <1>1, <1>2, <1>3
<1> QED BY <1>1, <1>2, <1>3, <1>4, <1>5, LaneMoves DEF x

LEMMA CompleteThrowsLane ==
  ASSUME QueueType, LaneInv, NEW l \in Lanes, CompleteThrows(l)
  PROVE  QueueType' /\ LaneInv'
<1> DEFINE x == lane[l].slot
<1>1. Busy(l) /\ works' = works /\ job' = job /\ row' = row /\ Moves(l, "fail")
  BY DEF CompleteThrows, Busy
<1>2. /\ x \in Slots /\ job[x].state = "active" /\ works[x] \in Nat /\ works[x] <= 1
      /\ row[x] = "none" => works[x] = 0
  BY <1>1, BusyLane
<1>3. /\ job \in [Slots -> JobType] /\ works \in [Slots -> Nat]
      /\ row \in [Slots -> {"none", "running", "completed", "failed"}]
  BY DEF QueueType
<1>4. /\ lane' \in [Lanes -> LaneType] /\ lane'[l].pc = "fail" /\ lane'[l].slot = x
      /\ \A k \in Lanes \ {l} : lane'[k] = lane[k]
  BY <1>1, LaneGoesTo
<1> HIDE DEF x
<1> QED BY <1>1, <1>2, <1>3, <1>4, LaneMoves DEF x

LEMMA ResolveLane ==
  ASSUME QueueType, LaneInv, NEW l \in Lanes, Resolve(l)
  PROVE  QueueType' /\ LaneInv'
<1> DEFINE x == lane[l].slot
<1>1. /\ Busy(l) /\ lane[l].pc = "resolve" /\ works' = works /\ row' = row
      /\ job' = [job EXCEPT ![x] = Ended("completed")]
      /\ lane' = [lane EXCEPT ![l] = IdleLane]
  BY DEF Resolve, Busy
<1>2. x \in Slots /\ works[x] = 1 /\ row[x] = "completed"
  BY <1>1, BusyLane DEF LaneInv, RowLeads
<1>3. /\ job \in [Slots -> JobType] /\ works \in [Slots -> Nat]
      /\ row \in [Slots -> {"none", "running", "completed", "failed"}]
  BY DEF QueueType
<1>4. /\ lane' \in [Lanes -> LaneType] /\ lane'[l].pc = "idle"
      /\ \A k \in Lanes \ {l} : lane'[k] = lane[k]
  BY <1>1, LaneRests
<1>5. Ended("completed") \in JobType
  BY EndedType DEF JobStates
<1> HIDE DEF x
<1>6. job' \in [Slots -> JobType] /\ \A y \in Slots \ {x} : job'[y] = job[y]
  BY <1>1, <1>2, <1>3, <1>5
<1> QED BY <1>1, <1>2, <1>3, <1>4, <1>6, LaneMoves DEF x

LEMMA WorkerDiesLane ==
  ASSUME QueueType, LaneInv, NEW l \in Lanes, WorkerDies(l)
  PROVE  QueueType' /\ LaneInv'
<1> DEFINE x == lane[l].slot
<1>1. /\ Busy(l) /\ works' = works /\ row' = row /\ job' = job
      /\ lane' = [lane EXCEPT ![l] = IdleLane]
  BY DEF WorkerDies, Busy
<1>2. /\ x \in Slots /\ job[x].state = "active" /\ works[x] \in Nat /\ works[x] <= 1
      /\ row[x] = "none" => works[x] = 0
  BY <1>1, BusyLane
<1>3. /\ job \in [Slots -> JobType] /\ works \in [Slots -> Nat]
      /\ row \in [Slots -> {"none", "running", "completed", "failed"}]
  BY DEF QueueType
<1>4. /\ lane' \in [Lanes -> LaneType] /\ lane'[l].pc = "idle"
      /\ \A k \in Lanes \ {l} : lane'[k] = lane[k]
  BY <1>1, LaneRests
<1> HIDE DEF x
<1> QED BY <1>1, <1>2, <1>3, <1>4, LaneMoves DEF x

(* The queue's own steps are about jobs that no lane runs.                 *)
LEMMA IdleJobMoves ==
  ASSUME QueueType, LaneInv, UNCHANGED <<row, lane, works>>, NEW x \in Slots,
         \A l \in Lanes : Busy(l) => lane[l].slot # x,
         job' \in [Slots -> JobType], job'[x].state # "completed",
         \A y \in Slots \ {x} : job'[y] = job[y]
  PROVE  QueueType' /\ LaneInv'
<1>1. QueueType'
  BY DEF QueueType
<1>2. LanesApart'
  BY DEF LaneInv, LanesApart, Busy
<1>3. RowLeads' /\ WorkOncePerSlot'
  BY DEF LaneInv, RowLeads, WorkOncePerSlot
<1>4. CompletionRecorded'
  BY DEF LaneInv, CompletionRecorded
<1> QED BY <1>1, <1>2, <1>3, <1>4 DEF LaneInv

LEMMA BackoffLane ==
  ASSUME QueueType, LaneInv, NEW x \in Slots, BackoffElapses(x)
  PROVE  QueueType' /\ LaneInv'
<1>1. job[x].state = "delayed" /\ SetState(x, "waiting") /\ UNCHANGED <<row, lane, works>>
  BY DEF BackoffElapses
<1>2. /\ job' \in [Slots -> JobType] /\ job'[x].state = "waiting"
      /\ \A y \in Slots \ {x} : job'[y] = job[y]
  BY <1>1, SetStateTypes DEF JobStates
<1>3. \A l \in Lanes : Busy(l) => lane[l].slot # x
  BY <1>1 DEF LaneInv, LanesApart
<1> QED BY <1>1, <1>2, <1>3, IdleJobMoves

LEMMA StalledLane ==
  ASSUME QueueType, LaneInv, NEW x \in Slots, Stalled(x)
  PROVE  QueueType' /\ LaneInv'
<1>1. UNCHANGED <<row, lane, works>> /\ \A l \in Lanes : lane[l].slot # x
  BY DEF Stalled, Recoverable
<1>2. /\ job' \in [Slots -> JobType] /\ job'[x].state \in {"waiting", "failed"}
      /\ \A y \in Slots \ {x} : job'[y] = job[y]
  BY StalledTypes
<1> QED BY <1>1, <1>2, IdleJobMoves

-----------------------------------------------------------------------------
(* The whole. *)

IInv == CronType /\ QueueType /\ CronInv /\ LaneInv

LEMMA InitHolds == Init => IInv
<1> SUFFICES ASSUME Init PROVE IInv
  OBVIOUS
<1> USE DEF Init
<1>1. CronType
  BY IdleTypes DEF CronType, IdleCall
<1>2. QueueType
  BY IdleTypes DEF QueueType
<1>3. CronInv
  BY DEF CronInv, CallsLock, LocksLead, ExclusiveSlots, IdleCall
<1>4. LaneInv
  BY DEF LaneInv, LanesApart, RowLeads, WorkOncePerSlot, CompletionRecorded, Busy, IdleLane, NoJob
<1> QED BY <1>1, <1>2, <1>3, <1>4 DEF IInv

(* A step of a lane does not touch the cron side, and unmakes no job.      *)
LEMMA LaneStepHolds ==
  ASSUME IInv, NEW l \in Lanes, LaneStep(l)
  PROVE  IInv'
<1> USE DEF IInv
<1>1. QueueType' /\ LaneInv' /\ UNCHANGED <<now, cron>>
  <2>1. CASE \E x \in Slots : Take(l, x)
    <3>1. PICK x \in Slots : Take(l, x)
      BY <2>1
    <3>2. UNCHANGED <<now, cron>>
      BY <3>1 DEF Take
    <3> QED BY <3>1, <3>2, TakeLane
  <2>2. CASE StartRow(l)
    BY <2>2, StartRowLane DEF StartRow
  <2>3. CASE Work(l)
    BY <2>3, WorkLane DEF Work
  <2>4. CASE CompleteRow(l)
    BY <2>4, CompleteRowLane DEF CompleteRow
  <2>5. CASE Resolve(l)
    BY <2>5, ResolveLane DEF Resolve
  <2>6. CASE FailRow(l)
    BY <2>6, RejectionLane DEF FailRow
  <2>7. CASE StartThrows(l)
    BY <2>7, RejectionLane DEF StartThrows
  <2>8. CASE CompleteThrows(l)
    BY <2>8, CompleteThrowsLane DEF CompleteThrows
  <2>9. CASE WorkerDies(l)
    BY <2>9, WorkerDiesLane DEF WorkerDies
  <2> QED
    BY <2>1, <2>2, <2>3, <2>4, <2>5, <2>6, <2>7, <2>8, <2>9 DEF LaneStep, LaneProgress
<1>2. \A x \in Slots : job[x].state # "none" => job'[x].state # "none"
  <2>1. CASE \E x \in Slots : Take(l, x)
    <3>1. PICK x \in Slots : Take(l, x)
      BY <2>1
    <3>2. job'[x].state = "active" /\ \A y \in Slots \ {x} : job'[y] = job[y]
      BY <3>1, SetStateTypes DEF Take, JobStates
    <3> QED BY <3>2
  <2>2. CASE job' = job
    BY <2>2
  <2>3. CASE Busy(l) /\ Rejected(lane[l].slot)
    <3>1. lane[l].slot \in Slots
      BY <2>3, BusyLane
    <3> QED BY <2>3, <3>1, RejectedTypes
  <2>4. CASE Resolve(l)
    <3>1. /\ lane[l].slot \in Slots
          /\ job' = [job EXCEPT ![lane[l].slot] = Ended("completed")]
      BY <2>4, BusyLane DEF Resolve, Busy
    <3>2. Ended("completed").state = "completed"
      BY EndedType DEF JobStates
    <3> QED BY <3>1, <3>2 DEF QueueType
  <2> QED
    BY <2>1, <2>2, <2>3, <2>4
       DEF LaneStep, LaneProgress, StartRow, Work, CompleteRow, FailRow, StartThrows,
           CompleteThrows, WorkerDies, Busy
<1> QED BY <1>1, <1>2, CronKept

(* A step of the cron side makes jobs at most.                             *)
LEMMA ServerStepHolds ==
  ASSUME IInv, NEW s \in Servers, ServerStep(s)
  PROVE  IInv'
<1> USE DEF IInv
<1>1. CASE Add(s)
  <2>1. /\ UNCHANGED <<row, lane, works>>
        /\ job' = [x \in Slots |->
             IF x \in call[s].adding /\ job[x].state = "none"
               THEN [state |-> "waiting", made |-> 0, stalls |-> 0] ELSE job[x]]
    BY <1>1 DEF Add
  <2>2. [state |-> "waiting", made |-> 0, stalls |-> 0] \in JobType
    BY AttemptsAssumption DEF JobType, JobStates
  <2>3. job' \in [Slots -> JobType]
    BY <2>1, <2>2 DEF QueueType
  <2>4. \A x \in Slots : \/ job'[x] = job[x]
                         \/ job[x].state = "none" /\ job'[x].state = "waiting"
    BY <2>1
  <2> QED BY <1>1, <2>1, <2>3, <2>4, AddCron, LanesKept
<1>2. CASE Fire(s)
  <2>1. UNCHANGED <<row, lane, works>> /\ job' = job
    BY <1>2 DEF Fire, queue
  <2> QED BY <1>2, <2>1, FireCron, LanesKept DEF QueueType
<1>3. CASE \E t \in Tenants : Lock(s, t)
  <2>1. PICK t \in Tenants : Lock(s, t)
    BY <1>3
  <2>2. UNCHANGED <<row, lane, works>> /\ job' = job
    BY <2>1 DEF Lock, queue
  <2> QED BY <2>1, <2>2, LockCron, LanesKept DEF QueueType
<1>4. CASE CallThrows(s)
  <2>1. UNCHANGED <<row, lane, works>> /\ job' = job
    BY <1>4 DEF CallThrows, queue
  <2> QED BY <1>4, <2>1, CallThrowsCron, LanesKept DEF QueueType
<1> QED BY <1>1, <1>2, <1>3, <1>4 DEF ServerStep

LEMMA QueueStepHolds ==
  ASSUME IInv, QueueStep
  PROVE  IInv'
<1> USE DEF IInv
<1>1. PICK x \in Slots : BackoffElapses(x) \/ Stalled(x)
  BY DEF QueueStep
<1>2. QueueType' /\ LaneInv' /\ UNCHANGED <<now, cron>>
  BY <1>1, BackoffLane, StalledLane DEF BackoffElapses, Stalled
<1>3. /\ job'[x].state # "none" /\ \A y \in Slots \ {x} : job'[y] = job[y]
  BY <1>1, SetStateTypes, StalledTypes DEF BackoffElapses, JobStates
<1> QED BY <1>2, <1>3, CronKept

LEMMA StepHolds == IInv /\ [Next]_vars => IInv'
<1> SUFFICES ASSUME IInv, [Next]_vars PROVE IInv'
  OBVIOUS
<1>1. CASE Tick
  <2>1. UNCHANGED <<row, lane, works>> /\ job' = job
    BY <1>1 DEF Tick, queue
  <2> QED BY <1>1, <2>1, TickCron, LanesKept DEF IInv, QueueType
<1>2. CASE \E s \in Servers : ServerStep(s)
  BY <1>2, ServerStepHolds
<1>3. CASE \E l \in Lanes : LaneStep(l)
  BY <1>3, LaneStepHolds
<1>4. CASE QueueStep
  BY <1>4, QueueStepHolds
<1>5. CASE UNCHANGED vars
  <2>1. UNCHANGED <<now, cron>> /\ UNCHANGED <<row, lane, works>> /\ job' = job
    BY <1>5 DEF vars, queue
  <2> QED BY <2>1, CronKept, LanesKept DEF IInv, QueueType
<1> QED BY <1>1, <1>2, <1>3, <1>4, <1>5 DEF Next

LEMMA Invariance == Spec => []IInv
  BY InitHolds, StepHolds, PTL DEF Spec

(* Every variable keeps its type, for any number of ticks in a minute.     *)
THEOREM TypeCorrect == Spec => []TypeOK
<1>1. IInv => TypeOK
  BY TypesSplit DEF IInv
<1> QED BY <1>1, Invariance, PTL

(* A slot is worked at most once, whatever fires, throws, stalls and dies: *)
(* the unique row of the execution is what retries and redeliveries meet.  *)
THEOREM WorkedOnce == Spec => []WorkOncePerSlot
<1>1. IInv => WorkOncePerSlot
  BY DEF IInv, LaneInv
<1> QED BY <1>1, Invariance, PTL

(* A completed job did its work and its row says so.                       *)
THEOREM CompletionIsRecorded == Spec => []CompletionRecorded
<1>1. IInv => CompletionRecorded
  BY DEF IInv, LaneInv
<1> QED BY <1>1, Invariance, PTL

(* No slot of a scanned minute is without a job, but for those whose       *)
(* server died between the lock and the queue.                             *)
THEOREM MinutesAreQueued == Spec => []ScannedMinutesQueued
<1>1. IInv => ScannedMinutesQueued
  BY DEF IInv, CronInv, LocksLead, Accounted, ScannedMinutesQueued
<1> QED BY <1>1, Invariance, PTL

(* Two calls never queue one slot.                                         *)
THEOREM SlotsAreExclusive == Spec => []ExclusiveSlots
<1>1. IInv => ExclusiveSlots
  BY DEF IInv, CronInv
<1> QED BY <1>1, Invariance, PTL
=============================================================================
