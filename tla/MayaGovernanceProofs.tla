----------------------- MODULE MayaGovernanceProofs -----------------------
(***************************************************************************)
(* Theorems about MayaGovernance, for any sets of proposals, callers,      *)
(* reviewers and batches and any number of attempts.                       *)
(***************************************************************************)
EXTENDS MayaGovernance, SequenceTheorems, TLAPS

-----------------------------------------------------------------------------
(* Type correctness, part by part: each action is checked against the      *)
(* parts it writes, and TypeFrame keeps the others.                        *)

LEMMA SetLast ==
  ASSUME NEW S, NEW s \in Seq(S), NEW e \in S
  PROVE  [s EXCEPT ![Len(s)] = e] \in Seq(S)
<1>1. CASE s = <<>>
  <2>1. [s EXCEPT ![Len(s)] = e] = s
    BY <1>1
  <2> QED BY <2>1
<1>2. CASE s # <<>>
  <2>1. Len(s) \in 1 .. Len(s)
    BY <1>2
  <2> QED BY <2>1, ExceptSeq
<1> QED BY <1>1, <1>2

LEMMA TypeFrame ==
  /\ RowsOK /\ UNCHANGED <<rows, expired>> => RowsOK'
  /\ OutboxOK /\ UNCHANGED outbox => OutboxOK'
  /\ CallersOK /\ UNCHANGED <<killed, caller>> => CallersOK'
  /\ ReviewersOK /\ UNCHANGED reviewer => ReviewersOK'
  /\ BatchesOK /\ UNCHANGED worker => BatchesOK'
  /\ HistoryOK /\ UNCHANGED history => HistoryOK'
<1>1. RowsOK /\ UNCHANGED <<rows, expired>> => RowsOK'
  BY DEF RowsOK, rows
<1>2. OutboxOK /\ UNCHANGED outbox => OutboxOK'
  BY DEF OutboxOK, outbox
<1>3. CallersOK /\ UNCHANGED <<killed, caller>> => CallersOK'
  BY DEF CallersOK
<1>4. ReviewersOK /\ UNCHANGED reviewer => ReviewersOK'
  BY DEF ReviewersOK
<1>5. BatchesOK /\ UNCHANGED worker => BatchesOK'
  BY DEF BatchesOK, worker, local
<1>6. HistoryOK /\ UNCHANGED history => HistoryOK'
  BY DEF HistoryOK, history
<1> QED BY <1>1, <1>2, <1>3, <1>4, <1>5, <1>6

LEMMA TypeEnvironment ==
  ASSUME TypeOK, Environment
  PROVE  TypeOK'
<1>1. ASSUME NEW p \in Proposals, ProposalExpires(p) PROVE TypeOK'
  <2>1. RowsOK'
    BY <1>1 DEF TypeOK, RowsOK, ProposalExpires, rows
  <2> QED BY <1>1, <2>1, TypeFrame DEF TypeOK, ProposalExpires
<1>2. ASSUME NEW p \in Proposals, BackoffElapses(p) PROVE TypeOK'
  <2>1. OutboxOK'
    BY <1>2 DEF TypeOK, OutboxOK, EventStatus, RunStatus, BackoffElapses
  <2> QED BY <1>2, <2>1, TypeFrame DEF TypeOK, BackoffElapses
<1>3. CASE SetKillSwitch
  <2>1. CallersOK'
    BY <1>3 DEF TypeOK, CallersOK, IdleCaller, SetKillSwitch
  <2> QED BY <1>3, <2>1, TypeFrame DEF TypeOK, SetKillSwitch
<1> QED BY <1>1, <1>2, <1>3, Zenon DEF Environment

LEMMA TypeCaller ==
  ASSUME TypeOK, NEW c \in Callers, CallerStep(c)
  PROVE  TypeOK'
<1>1. ASSUME NEW p \in Proposals, LookUp(c, p) PROVE TypeOK'
  <2>1. CallersOK'
    BY <1>1 DEF TypeOK, CallersOK, IdleCaller, LookUp
  <2> QED BY <1>1, <2>1, TypeFrame DEF TypeOK, LookUp
<1>2. CASE Create(c)
  <2>1. RowsOK'
    BY <1>2 DEF TypeOK, RowsOK, CallersOK, ProposalStatus, ExecutionStatus, Create
  <2>2. CallersOK'
    <3> DEFINE p == caller[c].p
               next == [pc |-> "perform", p |-> p, ok |-> FALSE]
    <3>1. p \in Proposals
      BY <1>2 DEF TypeOK, CallersOK, Create
    <3>2. /\ killed' = killed
          /\ \/ caller' = [caller EXCEPT ![c] = IdleCaller]
             \/ caller' = [caller EXCEPT ![c] = next]
      BY <1>2 DEF Create
    <3>3. CASE caller' = [caller EXCEPT ![c] = IdleCaller]
      BY <3>2, <3>3 DEF TypeOK, CallersOK, IdleCaller
    <3>4. CASE caller' = [caller EXCEPT ![c] = next]
      BY <3>1, <3>2, <3>4 DEF TypeOK, CallersOK
    <3> QED BY <3>2, <3>3, <3>4
  <2>3. HistoryOK'
    BY <1>2 DEF TypeOK, HistoryOK, CallersOK, Create
  <2> QED BY <1>2, <2>1, <2>2, <2>3, TypeFrame DEF TypeOK, Create
<1>3. CASE CallerPerforms(c)
  <2>1. CallersOK'
    BY <1>3 DEF TypeOK, CallersOK, IdleCaller, CallerPerforms
  <2>2. HistoryOK'
    BY <1>3 DEF TypeOK, HistoryOK, CallersOK, CallerPerforms
  <2> QED BY <1>3, <2>1, <2>2, TypeFrame DEF TypeOK, CallerPerforms
<1>4. CASE CallerRecords(c)
  <2>1. RowsOK'
    BY <1>4
    DEF TypeOK, RowsOK, CallersOK, ProposalStatus, ExecutionStatus, CallerRecords
  <2>2. CallersOK'
    BY <1>4 DEF TypeOK, CallersOK, IdleCaller, CallerRecords
  <2> QED BY <1>4, <2>1, <2>2, TypeFrame DEF TypeOK, CallerRecords
<1>5. CASE CallerRecordThrows(c)
  <2>1. CallersOK'
    BY <1>5 DEF TypeOK, CallersOK, IdleCaller, CallerRecordThrows
  <2> QED BY <1>5, <2>1, TypeFrame DEF TypeOK, CallerRecordThrows
<1>6. CASE CallerStops(c)
  <2>1. CallersOK'
    BY <1>6 DEF TypeOK, CallersOK, IdleCaller, CallerStops
  <2> QED BY <1>6, <2>1, TypeFrame DEF TypeOK, CallerStops
<1> QED BY <1>1, <1>2, <1>3, <1>4, <1>5, <1>6, Zenon DEF CallerStep

LEMMA TypeReviewer ==
  ASSUME TypeOK, NEW r \in Reviewers, ReviewerStep(r)
  PROVE  TypeOK'
<1>1. ASSUME NEW p \in Proposals, OpenReview(r, p) PROVE TypeOK'
  <2>1. ReviewersOK'
    BY <1>1 DEF TypeOK, ReviewersOK, IdleReviewer, OpenReview
  <2> QED BY <1>1, <2>1, TypeFrame DEF TypeOK, OpenReview
<1>2. CASE ReviewExpires(r)
  <2>1. RowsOK'
    BY <1>2
    DEF TypeOK, RowsOK, ReviewersOK, ProposalStatus, ExecutionStatus, ReviewExpires
  <2>2. ReviewersOK'
    BY <1>2 DEF TypeOK, ReviewersOK, IdleReviewer, ReviewExpires
  <2> QED BY <1>2, <2>1, <2>2, TypeFrame DEF TypeOK, ReviewExpires
<1>3. CASE Approve(r)
  <2>1. RowsOK'
    BY <1>3 DEF TypeOK, RowsOK, ReviewersOK, ProposalStatus, ExecutionStatus, Approve
  <2>2. OutboxOK'
    BY <1>3
    DEF TypeOK, OutboxOK, ReviewersOK, EventStatus, RunStatus, Approve, AppendEvent
  <2>3. ReviewersOK'
    BY <1>3 DEF TypeOK, ReviewersOK, IdleReviewer, Approve
  <2>4. HistoryOK'
    BY <1>3 DEF TypeOK, HistoryOK, ReviewersOK, Approve
  <2> QED BY <1>3, <2>1, <2>2, <2>3, <2>4, TypeFrame DEF TypeOK, Approve
<1>4. CASE Reject(r)
  <2>1. RowsOK'
    BY <1>4 DEF TypeOK, RowsOK, ReviewersOK, ProposalStatus, ExecutionStatus, Reject
  <2>2. ReviewersOK'
    BY <1>4 DEF TypeOK, ReviewersOK, IdleReviewer, Reject
  <2> QED BY <1>4, <2>1, <2>2, TypeFrame DEF TypeOK, Reject
<1>5. CASE ReviewStops(r)
  <2>1. ReviewersOK'
    BY <1>5 DEF TypeOK, ReviewersOK, IdleReviewer, ReviewStops
  <2> QED BY <1>5, <2>1, TypeFrame DEF TypeOK, ReviewStops
<1> QED BY <1>1, <1>2, <1>3, <1>4, <1>5, Zenon DEF ReviewerStep

LEMMA TypeExecutor ==
  ASSUME TypeOK, NEW w \in Workers, Executes(w)
  PROVE  TypeOK'
<1>1. CASE ReadProposal(w)
  <2>1. BatchesOK'
    BY <1>1, NoneAssumption
    DEF TypeOK, RowsOK, BatchesOK, HandlerSteps, FreeSteps, ReadProposal, Moves
  <2> QED BY <1>1, <2>1, TypeFrame DEF TypeOK, ReadProposal
<1>2. CASE Check(w)
  <2>1. BatchesOK'
    BY <1>2, NoneAssumption
    DEF TypeOK, BatchesOK, HandlerSteps, FreeSteps, Check, Moves, local
  <2> QED BY <1>2, <2>1, TypeFrame DEF TypeOK, Check
<1>3. CASE ExecutorExpires(w)
  <2>1. RowsOK'
    BY <1>3, NoneAssumption
    DEF TypeOK, RowsOK, BatchesOK, ProposalStatus, ExecutionStatus, ExecutorExpires,
        FreeSteps
  <2>2. BatchesOK'
    BY <1>3, NoneAssumption
    DEF TypeOK, BatchesOK, HandlerSteps, FreeSteps, ExecutorExpires, Moves, local
  <2> QED BY <1>3, <2>1, <2>2, TypeFrame DEF TypeOK, ExecutorExpires
<1>4. CASE ClaimProposal(w)
  <2>1. RowsOK'
    BY <1>4, NoneAssumption
    DEF TypeOK, RowsOK, BatchesOK, ProposalStatus, ExecutionStatus, ClaimProposal,
        FreeSteps
  <2>2. BatchesOK'
    BY <1>4, NoneAssumption
    DEF TypeOK, BatchesOK, HandlerSteps, FreeSteps, ClaimProposal, Moves, local
  <2>3. HistoryOK'
    BY <1>4, NoneAssumption DEF TypeOK, HistoryOK, BatchesOK, ClaimProposal, FreeSteps
  <2> QED BY <1>4, <2>1, <2>2, <2>3, TypeFrame DEF TypeOK, ClaimProposal
<1>5. CASE RecordExecution(w)
  <2>1. RowsOK'
    BY <1>5, NoneAssumption
    DEF TypeOK, RowsOK, BatchesOK, ProposalStatus, ExecutionStatus, RecordExecution,
        FreeSteps
  <2>2. BatchesOK'
    BY <1>5, NoneAssumption
    DEF TypeOK, BatchesOK, HandlerSteps, FreeSteps, RecordExecution, Moves, local
  <2> QED BY <1>5, <2>1, <2>2, TypeFrame DEF TypeOK, RecordExecution
<1>6. CASE Perform(w)
  <2>1. BatchesOK'
    BY <1>6, NoneAssumption
    DEF TypeOK, BatchesOK, HandlerSteps, FreeSteps, Perform, Moves
  <2>2. HistoryOK'
    BY <1>6, NoneAssumption DEF TypeOK, HistoryOK, BatchesOK, Perform, FreeSteps
  <2> QED BY <1>6, <2>1, <2>2, TypeFrame DEF TypeOK, Perform
<1>7. CASE Finish(w)
  <2>1. RowsOK'
    <3> DEFINE p  == held[w]
               to == IF ok[w] THEN "succeeded" ELSE "failed"
    <3>1. p \in Proposals
      BY <1>7, NoneAssumption DEF TypeOK, BatchesOK, FreeSteps, Finish
    <3>2. /\ expired' = expired
          /\ executions' = [executions EXCEPT ![p][Len(executions[p])] = to]
          /\ proposal' = [proposal EXCEPT ![p] = Outcome(ok[w])]
      BY <1>7 DEF Finish
    <3>3. proposal' \in [Proposals -> ProposalStatus]
      BY <3>1, <3>2 DEF TypeOK, RowsOK, ProposalStatus, Outcome
    <3>4. to \in ExecutionStatus
      BY DEF ExecutionStatus
    <3>5. executions[p] \in Seq(ExecutionStatus)
      BY <3>1 DEF TypeOK, RowsOK
    <3>6. [executions[p] EXCEPT ![Len(executions[p])] = to] \in Seq(ExecutionStatus)
      BY <3>4, <3>5, SetLast
    <3> QED BY <3>1, <3>2, <3>3, <3>6 DEF TypeOK, RowsOK
  <2>2. BatchesOK'
    BY <1>7, NoneAssumption
    DEF TypeOK, BatchesOK, HandlerSteps, FreeSteps, Finish, Moves, local
  <2> QED BY <1>7, <2>1, <2>2, TypeFrame DEF TypeOK, Finish
<1> QED BY <1>1, <1>2, <1>3, <1>4, <1>5, <1>6, <1>7, Zenon DEF Executes

LEMMA TypeDispatcher ==
  ASSUME TypeOK, NEW w \in Workers, Dispatches(w)
  PROVE  TypeOK'
<1>1. CASE StartBatch(w)
  <2>1. RowsOK'
    BY <1>1, NoneAssumption
    DEF TypeOK, RowsOK, BatchesOK, ProposalStatus, ExecutionStatus, StartBatch,
        FreeSteps
  <2>2. BatchesOK'
    BY <1>1, NoneAssumption
    DEF TypeOK, BatchesOK, HandlerSteps, FreeSteps, StartBatch, Moves, local
  <2> QED BY <1>1, <2>1, <2>2, TypeFrame DEF TypeOK, StartBatch
<1>2. CASE SelectDue(w)
  <2>1. BatchesOK'
    BY <1>2, NoneAssumption
    DEF TypeOK, BatchesOK, HandlerSteps, FreeSteps, SelectDue, Moves
  <2> QED BY <1>2, <2>1, TypeFrame DEF TypeOK, SelectDue
<1>3. CASE EndBatch(w)
  <2>1. BatchesOK'
    BY <1>3, NoneAssumption
    DEF TypeOK, BatchesOK, HandlerSteps, FreeSteps, EndBatch, Moves, local
  <2> QED BY <1>3, <2>1, TypeFrame DEF TypeOK, EndBatch
<1>4. ASSUME NEW p \in Proposals, ClaimEvent(w, p) PROVE TypeOK'
  <2>1. OutboxOK'
    BY <1>4, NoneAssumption
    DEF TypeOK, OutboxOK, BatchesOK, EventStatus, RunStatus, ClaimEvent, FreeSteps
  <2>2. BatchesOK'
    BY <1>4, NoneAssumption
    DEF TypeOK, BatchesOK, HandlerSteps, FreeSteps, ClaimEvent, Moves
  <2> QED BY <1>4, <2>1, <2>2, TypeFrame DEF TypeOK, ClaimEvent
<1>5. CASE StartRun(w)
  <2>1. OutboxOK'
    BY <1>5, NoneAssumption
    DEF TypeOK, OutboxOK, BatchesOK, EventStatus, RunStatus, StartRun, FreeSteps
  <2>2. BatchesOK'
    BY <1>5, NoneAssumption
    DEF TypeOK, BatchesOK, HandlerSteps, FreeSteps, StartRun, Moves, local
  <2> QED BY <1>5, <2>1, <2>2, TypeFrame DEF TypeOK, StartRun
<1>6. CASE Publish(w)
  <2>1. OutboxOK'
    BY <1>6, NoneAssumption
    DEF TypeOK, OutboxOK, BatchesOK, EventStatus, RunStatus, Publish, FreeSteps
  <2>2. BatchesOK'
    BY <1>6, NoneAssumption
    DEF TypeOK, BatchesOK, HandlerSteps, FreeSteps, Publish, Moves, local, LetsGo,
        ProposalStatus
  <2> QED BY <1>6, <2>1, <2>2, TypeFrame DEF TypeOK, Publish
<1>7. CASE RecordFailure(w)
  <2>1. OutboxOK'
    BY <1>7, NoneAssumption
    DEF TypeOK, OutboxOK, BatchesOK, EventStatus, RunStatus, RecordFailure, FreeSteps
  <2>2. BatchesOK'
    BY <1>7, NoneAssumption
    DEF TypeOK, BatchesOK, HandlerSteps, FreeSteps, RecordFailure, Moves, local,
        LetsGo, ProposalStatus
  <2> QED BY <1>7, <2>1, <2>2, TypeFrame DEF TypeOK, RecordFailure
<1> QED BY <1>1, <1>2, <1>3, <1>4, <1>5, <1>6, <1>7, Zenon DEF Dispatches

LEMMA TypeFailures ==
  ASSUME TypeOK, NEW w \in Workers, HandlerThrows(w) \/ WorkerStops(w)
  PROVE  TypeOK'
<1>1. CASE HandlerThrows(w)
  <2>1. BatchesOK'
    BY <1>1, NoneAssumption
    DEF TypeOK, BatchesOK, HandlerSteps, FreeSteps, HandlerThrows, Moves, local
  <2> QED BY <1>1, <2>1, TypeFrame DEF TypeOK, HandlerThrows
<1>2. CASE WorkerStops(w)
  <2>1. BatchesOK'
    BY <1>2, NoneAssumption
    DEF TypeOK, BatchesOK, HandlerSteps, FreeSteps, WorkerStops, Moves, local,
        LetsGo, ProposalStatus
  <2> QED BY <1>2, <2>1, TypeFrame DEF TypeOK, WorkerStops
<1> QED BY <1>1, <1>2

LEMMA TypeInit == Init => TypeOK
<1> SUFFICES ASSUME Init PROVE TypeOK
  OBVIOUS
<1>1. RowsOK
  BY DEF Init, RowsOK, ProposalStatus
<1>2. OutboxOK
  BY DEF Init, OutboxOK, EventStatus, RunStatus
<1>3. CallersOK
  BY DEF Init, CallersOK, IdleCaller
<1>4. ReviewersOK
  BY DEF Init, ReviewersOK, IdleReviewer
<1>5. BatchesOK
  BY DEF Init, BatchesOK, FreeSteps, ProposalStatus
<1>6. HistoryOK
  BY DEF Init, HistoryOK
<1> QED BY <1>1, <1>2, <1>3, <1>4, <1>5, <1>6 DEF TypeOK

LEMMA TypeStep == TypeOK /\ [Next]_vars => TypeOK'
<1> SUFFICES ASSUME TypeOK, [Next]_vars PROVE TypeOK'
  OBVIOUS
<1>1. CASE Environment
  BY <1>1, TypeEnvironment
<1>2. ASSUME NEW c \in Callers, CallerStep(c) PROVE TypeOK'
  BY <1>2, TypeCaller
<1>3. ASSUME NEW r \in Reviewers, ReviewerStep(r) PROVE TypeOK'
  BY <1>3, TypeReviewer
<1>4. ASSUME NEW w \in Workers, WorkerStep(w) PROVE TypeOK'
  BY <1>4, TypeExecutor, TypeDispatcher, TypeFailures, Zenon DEF WorkerStep
<1>5. CASE UNCHANGED vars
  BY <1>5, TypeFrame DEF vars, TypeOK
<1> QED BY <1>1, <1>2, <1>3, <1>4, <1>5, Zenon DEF Next

\* Every variable keeps its type, and a batch holds a proposal exactly while it
\* is between the claim of its event and the record of the outcome.
THEOREM TypeCorrect == Spec => []TypeOK
BY TypeInit, TypeStep, PTL DEF Spec

-----------------------------------------------------------------------------
(* No approval acts twice: ApprovalInv is inductive. *)

LEMMA ApprovalFrame ==
  /\ OneHandlerPerEvent /\ UNCHANGED <<held, eventStatus>> => OneHandlerPerEvent'
  /\ ApprovalsCover /\ UNCHANGED <<proposal, expired, history>> => ApprovalsCover'
  /\ BatchesEntitled /\ UNCHANGED <<worker, history>> => BatchesEntitled'
  /\ CallersUnbound /\ UNCHANGED caller => CallersUnbound'
  /\ ReviewersVerified /\ UNCHANGED reviewer => ReviewersVerified'
<1>1. OneHandlerPerEvent /\ UNCHANGED <<held, eventStatus>> => OneHandlerPerEvent'
  BY DEF OneHandlerPerEvent
<1>2. ApprovalsCover /\ UNCHANGED <<proposal, expired, history>> => ApprovalsCover'
  BY DEF ApprovalsCover, history
<1>3. BatchesEntitled /\ UNCHANGED <<worker, history>> => BatchesEntitled'
  BY DEF BatchesEntitled, worker, local, history
<1>4. CallersUnbound /\ UNCHANGED caller => CallersUnbound'
  BY DEF CallersUnbound
<1>5. ReviewersVerified /\ UNCHANGED reviewer => ReviewersVerified'
  BY DEF ReviewersVerified
<1> QED BY <1>1, <1>2, <1>3, <1>4, <1>5

LEMMA ApprovalEnvironment ==
  ASSUME ApprovalInv, TypeOK', Environment
  PROVE  ApprovalInv'
<1>1. ASSUME NEW p \in Proposals, ProposalExpires(p) PROVE ApprovalInv'
  <2>1. ApprovalsCover'
    BY <1>1
    DEF ApprovalInv, TypeOK, ApprovalsCover, RowsOK, HistoryOK, ProposalExpires,
        rows, history, ApprovalBound
  <2> QED BY <1>1, <2>1, ApprovalFrame
      DEF ApprovalInv, ProposalExpires, rows, outbox, worker, local, history
<1>2. ASSUME NEW p \in Proposals, BackoffElapses(p) PROVE ApprovalInv'
  <2> QED BY <1>2, ApprovalFrame
      DEF ApprovalInv, BackoffElapses, rows, outbox, worker, local, history
<1>3. CASE SetKillSwitch
  <2> QED BY <1>3, ApprovalFrame
      DEF ApprovalInv, SetKillSwitch, rows, outbox, worker, local, history
<1> QED BY <1>1, <1>2, <1>3, Zenon DEF Environment

LEMMA ApprovalCaller ==
  ASSUME ApprovalInv, TypeOK', NEW c \in Callers, CallerStep(c)
  PROVE  ApprovalInv'
<1>1. ASSUME NEW p \in Proposals, LookUp(c, p) PROVE ApprovalInv'
  <2>1. CallersUnbound'
    BY <1>1 DEF ApprovalInv, TypeOK, CallersUnbound, CallersOK, LookUp, IdleCaller
  <2> QED BY <1>1, <2>1, ApprovalFrame
      DEF ApprovalInv, LookUp, rows, outbox, worker, local, history
<1>2. CASE Create(c)
  <2>1. ApprovalsCover'
    BY <1>2, ZenonT(30)
    DEF ApprovalInv, TypeOK, ApprovalsCover, RowsOK, HistoryOK, CallersOK,
        CallersUnbound, Create, rows, history, ApprovalBound
  <2>2. BatchesEntitled'
    BY <1>2
    DEF ApprovalInv, TypeOK, BatchesEntitled, BatchesOK, HistoryOK, CallersOK,
        CallersUnbound, Create, worker, local, history, ApprovalBound
  <2>3. CallersUnbound'
    BY <1>2 DEF ApprovalInv, TypeOK, CallersUnbound, CallersOK, Create, IdleCaller
  <2> QED BY <1>2, <2>1, <2>2, <2>3, ApprovalFrame
      DEF ApprovalInv, Create, rows, outbox, worker, local, history
<1>3. CASE CallerPerforms(c)
  <2>1. ApprovalsCover'
    BY <1>3
    DEF ApprovalInv, TypeOK, ApprovalsCover, RowsOK, HistoryOK, CallersOK,
        CallersUnbound, CallerPerforms, rows, history, ApprovalBound
  <2>2. BatchesEntitled'
    BY <1>3
    DEF ApprovalInv, TypeOK, BatchesEntitled, BatchesOK, HistoryOK, CallersOK,
        CallersUnbound, CallerPerforms, worker, local, history, ApprovalBound
  <2>3. CallersUnbound'
    BY <1>3
    DEF ApprovalInv, TypeOK, CallersUnbound, CallersOK, CallerPerforms, IdleCaller
  <2> QED BY <1>3, <2>1, <2>2, <2>3, ApprovalFrame
      DEF ApprovalInv, CallerPerforms, rows, outbox, worker, local, history
<1>4. CASE CallerRecords(c)
  <2>1. ApprovalsCover'
    BY <1>4
    DEF ApprovalInv, TypeOK, ApprovalsCover, RowsOK, HistoryOK, CallersOK,
        CallersUnbound, CallerRecords, rows, history, ApprovalBound
  <2>2. CallersUnbound'
    BY <1>4
    DEF ApprovalInv, TypeOK, CallersUnbound, CallersOK, CallerRecords, IdleCaller
  <2> QED BY <1>4, <2>1, <2>2, ApprovalFrame
      DEF ApprovalInv, CallerRecords, rows, outbox, worker, local, history
<1>5. CASE CallerRecordThrows(c)
  <2>1. CallersUnbound'
    BY <1>5
    DEF ApprovalInv, TypeOK, CallersUnbound, CallersOK, CallerRecordThrows, IdleCaller
  <2> QED BY <1>5, <2>1, ApprovalFrame
      DEF ApprovalInv, CallerRecordThrows, rows, outbox, worker, local, history
<1>6. CASE CallerStops(c)
  <2>1. CallersUnbound'
    BY <1>6 DEF ApprovalInv, TypeOK, CallersUnbound, CallersOK, CallerStops, IdleCaller
  <2> QED BY <1>6, <2>1, ApprovalFrame
      DEF ApprovalInv, CallerStops, rows, outbox, worker, local, history
<1> QED BY <1>1, <1>2, <1>3, <1>4, <1>5, <1>6, Zenon DEF CallerStep

LEMMA ApprovalReviewer ==
  ASSUME ApprovalInv, TypeOK', NEW r \in Reviewers, ReviewerStep(r)
  PROVE  ApprovalInv'
<1>1. ASSUME NEW p \in Proposals, OpenReview(r, p) PROVE ApprovalInv'
  <2>1. ReviewersVerified'
    BY <1>1
    DEF ApprovalInv, TypeOK, ReviewersVerified, ReviewersOK, OpenReview,
        MfaSatisfied, IdleReviewer
  <2> QED BY <1>1, <2>1, ApprovalFrame
      DEF ApprovalInv, OpenReview, rows, outbox, worker, local, history
<1>2. CASE ReviewExpires(r)
  <2>1. ApprovalsCover'
    BY <1>2
    DEF ApprovalInv, TypeOK, ApprovalsCover, RowsOK, HistoryOK, ReviewersOK,
        ReviewersVerified, ReviewExpires, rows, history, ApprovalBound
  <2>2. ReviewersVerified'
    BY <1>2
    DEF ApprovalInv, TypeOK, ReviewersVerified, ReviewersOK, ReviewExpires, IdleReviewer
  <2> QED BY <1>2, <2>1, <2>2, ApprovalFrame
      DEF ApprovalInv, ReviewExpires, rows, outbox, worker, local, history
<1>3. CASE Approve(r)
  <2>1. OneHandlerPerEvent'
    <3>1. /\ held' = held
          /\ \/ eventStatus' = eventStatus
             \/ /\ eventStatus[reviewer[r].p] = "absent"
                /\ eventStatus' = [eventStatus EXCEPT ![reviewer[r].p] = "pending"]
      BY <1>3 DEF Approve, AppendEvent, worker, local
    <3> QED BY <3>1, NoneAssumption
        DEF ApprovalInv, TypeOK, OneHandlerPerEvent, BatchesOK, OutboxOK
  <2>2. ApprovalsCover'
    <3>1. PICK p \in Proposals : p = reviewer[r].p
      BY <1>3 DEF ApprovalInv, TypeOK, ReviewersOK, Approve
    <3>2. /\ proposal' = [proposal EXCEPT ![p] = "approved"]
          /\ approvals' = [approvals EXCEPT ![p] = @ + 1]
          /\ timely' = [timely EXCEPT ![p] = IF expired[p] THEN @ ELSE @ + 1]
          /\ unverified' = [unverified EXCEPT ![p] = @ \/ ~reviewer[r].mfa]
          /\ claims' = claims /\ effects' = effects /\ expired' = expired
      BY <1>3, <3>1 DEF Approve
    <3>3. Risk[p] = "high_risk" => reviewer[r].mfa
      BY <1>3, <3>1 DEF ApprovalInv, ReviewersVerified, Approve
    <3>4. /\ RowsOK /\ HistoryOK /\ ApprovalsCover
      BY DEF ApprovalInv, TypeOK
    <3>5. ASSUME NEW q \in ApprovalBound
          PROVE  /\ proposal'[q] = "approved" => claims'[q] < approvals'[q]
                 /\ timely'[q] <= approvals'[q]
                 /\ ~expired'[q] => timely'[q] = approvals'[q]
                 /\ claims'[q] <= timely'[q] /\ effects'[q] <= claims'[q]
                 /\ Risk[q] = "high_risk" => ~unverified'[q]
      <4>1. CASE q # p
        BY <3>2, <3>4, <4>1 DEF RowsOK, HistoryOK, ApprovalsCover, ApprovalBound
      <4>2. CASE q = p
        <5>1. /\ approvals'[p] = approvals[p] + 1
              /\ timely'[p] = IF expired[p] THEN timely[p] ELSE timely[p] + 1
              /\ claims'[p] = claims[p] /\ effects'[p] = effects[p]
          BY <3>2, <3>4 DEF HistoryOK
        <5>2. Risk[p] = "high_risk" => ~unverified'[p]
          BY <3>2, <3>3, <3>4, <4>2 DEF HistoryOK, ApprovalsCover
        <5>3. /\ timely[p] <= approvals[p] /\ (~expired[p] => timely[p] = approvals[p])
              /\ claims[p] <= timely[p] /\ effects[p] <= claims[p]
              /\ timely[p] \in Nat /\ approvals[p] \in Nat /\ claims[p] \in Nat
          BY <3>4, <4>2 DEF HistoryOK, ApprovalsCover
        <5>4. expired'[p] = expired[p]
          BY <3>2
        <5> QED BY <4>2, <5>1, <5>2, <5>3, <5>4
      <4> QED BY <4>1, <4>2
    <3> QED BY <3>5 DEF ApprovalsCover
  <2>3. BatchesEntitled'
    BY <1>3
    DEF ApprovalInv, TypeOK, BatchesEntitled, BatchesOK, HistoryOK, ReviewersOK,
        Approve, worker, local, history, ApprovalBound
  <2>4. ReviewersVerified'
    BY <1>3
    DEF ApprovalInv, TypeOK, ReviewersVerified, ReviewersOK, Approve, IdleReviewer
  <2> QED BY <1>3, <2>1, <2>2, <2>3, <2>4, ApprovalFrame
      DEF ApprovalInv, Approve, rows, outbox, worker, local, history
<1>4. CASE Reject(r)
  <2>1. ApprovalsCover'
    BY <1>4
    DEF ApprovalInv, TypeOK, ApprovalsCover, RowsOK, HistoryOK, ReviewersOK,
        ReviewersVerified, Reject, rows, history, ApprovalBound
  <2>2. ReviewersVerified'
    BY <1>4
    DEF ApprovalInv, TypeOK, ReviewersVerified, ReviewersOK, Reject, IdleReviewer
  <2> QED BY <1>4, <2>1, <2>2, ApprovalFrame
      DEF ApprovalInv, Reject, rows, outbox, worker, local, history
<1>5. CASE ReviewStops(r)
  <2>1. ReviewersVerified'
    BY <1>5
    DEF ApprovalInv, TypeOK, ReviewersVerified, ReviewersOK, ReviewStops, IdleReviewer
  <2> QED BY <1>5, <2>1, ApprovalFrame
      DEF ApprovalInv, ReviewStops, rows, outbox, worker, local, history
<1> QED BY <1>1, <1>2, <1>3, <1>4, <1>5, Zenon DEF ReviewerStep

LEMMA ApprovalExecutor ==
  ASSUME ApprovalInv, TypeOK', NEW w \in Workers, Executes(w)
  PROVE  ApprovalInv'
<1>1. CASE ReadProposal(w)
  <2>1. BatchesEntitled'
    BY <1>1, NoneAssumption
    DEF ApprovalInv, TypeOK, BatchesEntitled, BatchesOK, HistoryOK, ReadProposal,
        Moves, FreeSteps, ApprovalsCover, RowsOK, worker, local, history, ApprovalBound
  <2> QED BY <1>1, <2>1, ApprovalFrame
      DEF ApprovalInv, ReadProposal, rows, outbox, worker, local, history
<1>2. CASE Check(w)
  <2>1. BatchesEntitled'
    BY <1>2, NoneAssumption
    DEF ApprovalInv, TypeOK, BatchesEntitled, BatchesOK, HistoryOK, Check, Refused,
        Lapsed, Moves, FreeSteps, ApprovalsCover, worker, local, history, ApprovalBound
  <2> QED BY <1>2, <2>1, ApprovalFrame
      DEF ApprovalInv, Check, rows, outbox, worker, local, history
<1>3. CASE ExecutorExpires(w)
  <2>1. ApprovalsCover'
    BY <1>3, NoneAssumption
    DEF ApprovalInv, TypeOK, ApprovalsCover, RowsOK, HistoryOK, BatchesOK,
        BatchesEntitled, ExecutorExpires, Moves, FreeSteps, rows, history, ApprovalBound
  <2>2. BatchesEntitled'
    BY <1>3, NoneAssumption
    DEF ApprovalInv, TypeOK, BatchesEntitled, BatchesOK, HistoryOK, ExecutorExpires,
        Moves, FreeSteps, worker, local, history, ApprovalBound
  <2> QED BY <1>3, <2>1, <2>2, ApprovalFrame
      DEF ApprovalInv, ExecutorExpires, rows, outbox, worker, local, history
<1>4. CASE ClaimProposal(w)
  <2> DEFINE p == held[w]
  <2>1. p \in Proposals
    BY <1>4, NoneAssumption DEF ApprovalInv, TypeOK, BatchesOK, FreeSteps, ClaimProposal
  <2>2. p \in ApprovalBound => claims[p] < timely[p]
    BY <1>4 DEF ApprovalInv, BatchesEntitled, ClaimProposal
  <2>3. /\ UNCHANGED <<expired, approvals, timely, unverified, effects, held, seen>>
        /\ pc[w] = "claim"
    BY <1>4 DEF ClaimProposal, local
  <2>4. \A v \in Workers \ {w} : held[v] # p
    BY <2>1, NoneAssumption DEF ApprovalInv, OneHandlerPerEvent
  <2>5. ASSUME proposal[p] = "approved" PROVE ApprovalsCover' /\ BatchesEntitled'
    <3>1. /\ proposal' = [proposal EXCEPT ![p] = "executing"]
          /\ claims' = [claims EXCEPT ![p] = @ + 1]
          /\ pc' = [pc EXCEPT ![w] = "record"]
      BY <1>4, <2>5 DEF ClaimProposal, Moves
    <3>2. ApprovalsCover'
      BY <2>1, <2>2, <2>3, <3>1
      DEF ApprovalInv, TypeOK, ApprovalsCover, RowsOK, HistoryOK, ApprovalBound
    <3>3. BatchesEntitled'
      BY <2>1, <2>2, <2>3, <2>4, <3>1
      DEF ApprovalInv, TypeOK, ApprovalsCover, BatchesEntitled, BatchesOK, HistoryOK,
          ApprovalBound
    <3> QED BY <3>2, <3>3
  <2>6. ASSUME proposal[p] # "approved" PROVE ApprovalsCover' /\ BatchesEntitled'
    <3>1. UNCHANGED <<proposal, claims>> /\ pc' = [pc EXCEPT ![w] = "handled"]
      BY <1>4, <2>6 DEF ClaimProposal, Moves
    <3>2. ApprovalsCover'
      BY <2>3, <3>1 DEF ApprovalInv, ApprovalsCover
    <3>3. BatchesEntitled'
      BY <2>3, <3>1 DEF ApprovalInv, TypeOK, BatchesEntitled, BatchesOK
    <3> QED BY <3>2, <3>3
  <2> QED BY <1>4, <2>5, <2>6, ApprovalFrame
      DEF ApprovalInv, ClaimProposal, rows, outbox, worker, local, history
<1>5. CASE RecordExecution(w)
  <2>1. BatchesEntitled'
    BY <1>5, NoneAssumption
    DEF ApprovalInv, TypeOK, BatchesEntitled, BatchesOK, HistoryOK, RecordExecution,
        Moves, FreeSteps, worker, local, history, ApprovalBound
  <2> QED BY <1>5, <2>1, ApprovalFrame
      DEF ApprovalInv, RecordExecution, rows, outbox, worker, local, history
<1>6. CASE Perform(w)
  <2>1. ApprovalsCover'
    BY <1>6, NoneAssumption
    DEF ApprovalInv, TypeOK, ApprovalsCover, RowsOK, HistoryOK, BatchesOK,
        BatchesEntitled, Perform, Moves, FreeSteps, rows, history, ApprovalBound
  <2>2. BatchesEntitled'
    BY <1>6, NoneAssumption
    DEF ApprovalInv, TypeOK, BatchesEntitled, BatchesOK, HistoryOK, Perform, Moves,
        FreeSteps, OneHandlerPerEvent, worker, local, history, ApprovalBound
  <2> QED BY <1>6, <2>1, <2>2, ApprovalFrame
      DEF ApprovalInv, Perform, rows, outbox, worker, local, history
<1>7. CASE Finish(w)
  <2>1. ApprovalsCover'
    BY <1>7, NoneAssumption
    DEF ApprovalInv, TypeOK, ApprovalsCover, RowsOK, HistoryOK, BatchesOK,
        BatchesEntitled, Finish, Outcome, Moves, FreeSteps, rows, history, ApprovalBound
  <2>2. BatchesEntitled'
    BY <1>7, NoneAssumption
    DEF ApprovalInv, TypeOK, BatchesEntitled, BatchesOK, HistoryOK, Finish, Moves,
        FreeSteps, worker, local, history, ApprovalBound
  <2> QED BY <1>7, <2>1, <2>2, ApprovalFrame
      DEF ApprovalInv, Finish, rows, outbox, worker, local, history
<1> QED BY <1>1, <1>2, <1>3, <1>4, <1>5, <1>6, <1>7, Zenon DEF Executes

LEMMA ApprovalDispatcher ==
  ASSUME ApprovalInv, TypeOK', NEW w \in Workers, Dispatches(w)
  PROVE  ApprovalInv'
<1>1. CASE StartBatch(w)
  <2>1. ApprovalsCover'
    BY <1>1, NoneAssumption
    DEF ApprovalInv, TypeOK, ApprovalsCover, RowsOK, HistoryOK, BatchesOK,
        BatchesEntitled, StartBatch, Moves, FreeSteps, rows, history, ApprovalBound
  <2>2. BatchesEntitled'
    BY <1>1, NoneAssumption
    DEF ApprovalInv, TypeOK, BatchesEntitled, BatchesOK, HistoryOK, StartBatch,
        Moves, FreeSteps, worker, local, history, ApprovalBound
  <2> QED BY <1>1, <2>1, <2>2, ApprovalFrame
      DEF ApprovalInv, StartBatch, rows, outbox, worker, local, history
<1>2. CASE SelectDue(w)
  <2>1. BatchesEntitled'
    BY <1>2, NoneAssumption
    DEF ApprovalInv, TypeOK, BatchesEntitled, BatchesOK, HistoryOK, SelectDue, Moves,
        FreeSteps, worker, local, history, ApprovalBound
  <2> QED BY <1>2, <2>1, ApprovalFrame
      DEF ApprovalInv, SelectDue, rows, outbox, worker, local, history
<1>3. CASE EndBatch(w)
  <2>1. BatchesEntitled'
    BY <1>3, NoneAssumption
    DEF ApprovalInv, TypeOK, BatchesEntitled, BatchesOK, HistoryOK, EndBatch, Moves,
        FreeSteps, worker, local, history, ApprovalBound
  <2> QED BY <1>3, <2>1, ApprovalFrame
      DEF ApprovalInv, EndBatch, rows, outbox, worker, local, history
<1>4. ASSUME NEW p \in Proposals, ClaimEvent(w, p) PROVE ApprovalInv'
  <2>1. OneHandlerPerEvent'
    BY <1>4, NoneAssumption
    DEF ApprovalInv, TypeOK, OneHandlerPerEvent, BatchesOK, OutboxOK, ClaimEvent,
        Moves, FreeSteps, Claimable, outbox, local
  <2>2. BatchesEntitled'
    BY <1>4, NoneAssumption
    DEF ApprovalInv, TypeOK, BatchesEntitled, BatchesOK, HistoryOK, ClaimEvent,
        Moves, FreeSteps, Claimable, worker, local, history, ApprovalBound
  <2> QED BY <1>4, <2>1, <2>2, ApprovalFrame
      DEF ApprovalInv, ClaimEvent, rows, outbox, worker, local, history
<1>5. CASE StartRun(w)
  <2>1. BatchesEntitled'
    BY <1>5, NoneAssumption
    DEF ApprovalInv, TypeOK, BatchesEntitled, BatchesOK, HistoryOK, StartRun, Moves,
        FreeSteps, worker, local, history, ApprovalBound
  <2> QED BY <1>5, <2>1, ApprovalFrame
      DEF ApprovalInv, StartRun, rows, outbox, worker, local, history
<1>6. CASE Publish(w)
  <2>1. OneHandlerPerEvent'
    BY <1>6, NoneAssumption
    DEF ApprovalInv, TypeOK, OneHandlerPerEvent, BatchesOK, OutboxOK, Publish, Moves,
        FreeSteps, LetsGo, outbox, local
  <2>2. BatchesEntitled'
    BY <1>6, NoneAssumption
    DEF ApprovalInv, TypeOK, BatchesEntitled, BatchesOK, HistoryOK, Publish, Moves,
        FreeSteps, LetsGo, worker, local, history, ApprovalBound
  <2> QED BY <1>6, <2>1, <2>2, ApprovalFrame
      DEF ApprovalInv, Publish, rows, outbox, worker, local, history
<1>7. CASE RecordFailure(w)
  <2>1. OneHandlerPerEvent'
    BY <1>7, NoneAssumption
    DEF ApprovalInv, TypeOK, OneHandlerPerEvent, BatchesOK, OutboxOK, RecordFailure,
        Moves, FreeSteps, LetsGo, outbox, local
  <2>2. BatchesEntitled'
    BY <1>7, NoneAssumption
    DEF ApprovalInv, TypeOK, BatchesEntitled, BatchesOK, HistoryOK, RecordFailure,
        Moves, FreeSteps, LetsGo, worker, local, history, ApprovalBound
  <2> QED BY <1>7, <2>1, <2>2, ApprovalFrame
      DEF ApprovalInv, RecordFailure, rows, outbox, worker, local, history
<1> QED BY <1>1, <1>2, <1>3, <1>4, <1>5, <1>6, <1>7, Zenon DEF Dispatches

LEMMA ApprovalFailures ==
  ASSUME ApprovalInv, TypeOK', NEW w \in Workers, HandlerThrows(w) \/ WorkerStops(w)
  PROVE  ApprovalInv'
<1>1. CASE HandlerThrows(w)
  <2>1. BatchesEntitled'
    BY <1>1, NoneAssumption
    DEF ApprovalInv, TypeOK, BatchesEntitled, BatchesOK, HistoryOK, HandlerThrows,
        Moves, FreeSteps, HandlerSteps, worker, local, history, ApprovalBound
  <2> QED BY <1>1, <2>1, ApprovalFrame
      DEF ApprovalInv, HandlerThrows, rows, outbox, worker, local, history
<1>2. CASE WorkerStops(w)
  <2>1. OneHandlerPerEvent'
    BY <1>2, NoneAssumption
    DEF ApprovalInv, TypeOK, OneHandlerPerEvent, BatchesOK, OutboxOK, WorkerStops,
        Moves, FreeSteps, LetsGo, outbox, local
  <2>2. BatchesEntitled'
    BY <1>2, NoneAssumption
    DEF ApprovalInv, TypeOK, BatchesEntitled, BatchesOK, HistoryOK, WorkerStops,
        Moves, FreeSteps, LetsGo, worker, local, history, ApprovalBound
  <2> QED BY <1>2, <2>1, <2>2, ApprovalFrame
      DEF ApprovalInv, WorkerStops, rows, outbox, worker, local, history
<1> QED BY <1>1, <1>2

LEMMA ApprovalInit == Init => ApprovalInv
<1> SUFFICES ASSUME Init PROVE ApprovalInv
  OBVIOUS
<1>1. TypeOK
  BY TypeInit
<1>2. OneHandlerPerEvent
  BY DEF Init, OneHandlerPerEvent
<1>3. ApprovalsCover
  <2>1. ASSUME NEW p \in ApprovalBound
        PROVE  /\ proposal[p] = "absent"
               /\ approvals[p] = 0 /\ timely[p] = 0 /\ claims[p] = 0 /\ effects[p] = 0
    BY DEF Init, ApprovalBound
  <2>2. ASSUME NEW p \in ApprovalBound PROVE ~unverified[p]
    BY DEF Init, ApprovalBound
  <2> QED BY <2>1, <2>2 DEF ApprovalsCover
<1>4. BatchesEntitled
  BY DEF Init, BatchesEntitled
<1>5. CallersUnbound
  BY DEF Init, CallersUnbound, IdleCaller
<1>6. ReviewersVerified
  BY DEF Init, ReviewersVerified, IdleReviewer
<1> QED BY <1>1, <1>2, <1>3, <1>4, <1>5, <1>6 DEF ApprovalInv

LEMMA ApprovalStep == ApprovalInv /\ [Next]_vars => ApprovalInv'
<1> SUFFICES ASSUME ApprovalInv, [Next]_vars PROVE ApprovalInv'
  OBVIOUS
<1>1. TypeOK'
  BY TypeStep DEF ApprovalInv
<1>2. CASE Environment
  BY <1>1, <1>2, ApprovalEnvironment
<1>3. ASSUME NEW c \in Callers, CallerStep(c) PROVE ApprovalInv'
  BY <1>1, <1>3, ApprovalCaller
<1>4. ASSUME NEW r \in Reviewers, ReviewerStep(r) PROVE ApprovalInv'
  BY <1>1, <1>4, ApprovalReviewer
<1>5. ASSUME NEW w \in Workers, WorkerStep(w) PROVE ApprovalInv'
  BY <1>1, <1>5, ApprovalExecutor, ApprovalDispatcher, ApprovalFailures, Zenon
  DEF WorkerStep
<1>6. CASE UNCHANGED vars
  BY <1>1, <1>6, ApprovalFrame
  DEF vars, rows, outbox, worker, local, history, ApprovalInv
<1> QED BY <1>2, <1>3, <1>4, <1>5, <1>6, Zenon DEF Next

\* The strengthened invariant holds in every reachable state.
THEOREM ApprovalInvariant == Spec => []ApprovalInv
BY ApprovalInit, ApprovalStep, PTL DEF Spec

\* Overlapping batches never handle the same event at once, and the row of an
\* event in hand stays "publishing".
THEOREM ExclusiveHandling == Spec => []OneHandlerPerEvent
<1>1. ApprovalInv => OneHandlerPerEvent
  BY DEF ApprovalInv
<1> QED BY <1>1, ApprovalInvariant, PTL

\* Every effect of an approval-bound action spends a timely, and for high risk
\* verified, approval of its own.
THEOREM ApprovalSafety == Spec => []EffectsSpendTimelyApprovals
<1>1. ApprovalInv => EffectsSpendTimelyApprovals
  <2> SUFFICES ASSUME ApprovalInv, NEW p \in ApprovalBound
               PROVE  /\ effects[p] <= timely[p]
                      /\ Risk[p] = "high_risk" => ~unverified[p]
    BY DEF EffectsSpendTimelyApprovals
  <2>1. {effects[p], claims[p], timely[p]} \subseteq Nat
    BY DEF ApprovalInv, TypeOK, HistoryOK, ApprovalBound
  <2>2. claims[p] <= timely[p] /\ effects[p] <= claims[p]
    BY DEF ApprovalInv, ApprovalsCover
  <2>3. Risk[p] = "high_risk" => ~unverified[p]
    BY DEF ApprovalInv, ApprovalsCover
  <2> QED BY <2>1, <2>2, <2>3
<1> QED BY <1>1, ApprovalInvariant, PTL

-----------------------------------------------------------------------------
(* The outbox agrees with runs and approvals.  Between its claim and its   *)
(* outcome an event is "publishing", with an attempt of its own, and only  *)
(* the batch that holds it moves it.                                       *)

EventAgrees(p) ==
  /\ attempts[p] <= MaxAttempts
  /\ eventStatus[p] = "dead_letter" => attempts[p] = MaxAttempts
  /\ eventStatus[p] \in {"absent", "pending", "failed"} => attempts[p] < MaxAttempts
  /\ eventStatus[p] \in {"failed", "dead_letter"} => run[p] = eventStatus[p]
  /\ eventStatus[p] = "published" <=> run[p] = "succeeded"
  /\ eventStatus[p] # "absent" <=> approvals[p] > 0

OutboxInv == \A p \in Proposals : EventAgrees(p)

\* Nothing happens to the event of p, and its approvals stay as they are.
EventRests(p) ==
  /\ eventStatus'[p] = eventStatus[p] /\ attempts'[p] = attempts[p]
  /\ run'[p] = run[p] /\ approvals'[p] = approvals[p]

LEMMA EventKept ==
  ASSUME NEW p, EventAgrees(p), EventRests(p)
  PROVE  EventAgrees(p)'
BY DEF EventAgrees, EventRests

LEMMA OutboxFrame ==
  ASSUME OutboxInv, UNCHANGED <<eventStatus, attempts, run, approvals>>
  PROVE  OutboxInv'
BY EventKept DEF OutboxInv, EventRests

LEMMA OutboxApprove ==
  ASSUME ApprovalInv, OutboxInv, NEW r \in Reviewers, Approve(r)
  PROVE  OutboxInv'
<1>1. PICK p \in Proposals : p = reviewer[r].p
  BY DEF ApprovalInv, TypeOK, ReviewersOK, Approve
<1>2. OutboxOK /\ HistoryOK
  BY DEF ApprovalInv, TypeOK
<1>3. /\ attempts' = attempts /\ run' = run
      /\ approvals' = [approvals EXCEPT ![p] = @ + 1]
      /\ \/ eventStatus[p] # "absent" /\ eventStatus' = eventStatus
         \/ eventStatus[p] = "absent" /\ eventStatus' = [eventStatus EXCEPT ![p] = "pending"]
  BY <1>1 DEF Approve, AppendEvent
<1>4. EventAgrees(p)'
  <2>1. approvals'[p] > 0 /\ attempts'[p] = attempts[p] /\ run'[p] = run[p]
    BY <1>1, <1>2, <1>3 DEF HistoryOK
  <2>2. \/ eventStatus[p] # "absent" /\ eventStatus'[p] = eventStatus[p]
        \/ eventStatus[p] = "absent" /\ eventStatus'[p] = "pending"
    BY <1>1, <1>2, <1>3 DEF OutboxOK
  <2>3. EventAgrees(p)
    BY <1>1 DEF OutboxInv
  <2> QED BY <2>1, <2>2, <2>3 DEF EventAgrees
<1>5. ASSUME NEW q \in Proposals \ {p} PROVE EventAgrees(q)'
  <2>1. EventRests(q)
    BY <1>2, <1>3 DEF EventRests, OutboxOK, HistoryOK
  <2> QED BY <2>1, EventKept DEF OutboxInv
<1> QED BY <1>4, <1>5 DEF OutboxInv

\* What a batch does to an event that it claims or holds.
LEMMA EventMoves ==
  ASSUME ApprovalInv, OutboxInv, NEW p \in Proposals,
         approvals' = approvals,
         NEW to \in EventStatus \ {"absent", "pending"}, eventStatus' = [eventStatus EXCEPT ![p] = to],
         NEW n \in Nat, attempts' = [attempts EXCEPT ![p] = n], n <= MaxAttempts,
         NEW s \in RunStatus, run' = [run EXCEPT ![p] = s],
         eventStatus[p] # "absent",
         to = "dead_letter" => n = MaxAttempts, to = "failed" => n < MaxAttempts,
         to \in {"failed", "dead_letter"} => s = to, to = "published" <=> s = "succeeded"
  PROVE  OutboxInv'
<1>1. OutboxOK
  BY DEF ApprovalInv, TypeOK
<1>2. EventAgrees(p)'
  <2>1. eventStatus'[p] = to /\ attempts'[p] = n /\ run'[p] = s /\ approvals'[p] = approvals[p]
    BY <1>1 DEF OutboxOK
  <2>2. EventAgrees(p)
    BY DEF OutboxInv
  <2> QED BY <2>1, <2>2 DEF EventAgrees
<1>3. ASSUME NEW q \in Proposals \ {p} PROVE EventAgrees(q)'
  <2>1. EventRests(q)
    BY <1>1 DEF EventRests, OutboxOK
  <2> QED BY <2>1, EventKept DEF OutboxInv
<1> QED BY <1>2, <1>3 DEF OutboxInv

\* A batch that has an event in hand.
LEMMA EventInHand ==
  ASSUME ApprovalInv, OutboxInv, NEW w \in Workers, pc[w] \notin FreeSteps
  PROVE  /\ held[w] \in Proposals /\ eventStatus[held[w]] = "publishing"
         /\ attempts[held[w]] \in Nat /\ attempts[held[w]] <= MaxAttempts
         /\ run[held[w]] \in RunStatus /\ run[held[w]] # "succeeded"
<1>1. held[w] \in Proposals
  BY DEF ApprovalInv, TypeOK, BatchesOK
<1>2. eventStatus[held[w]] = "publishing"
  BY <1>1, NoneAssumption DEF ApprovalInv, OneHandlerPerEvent
<1>3. EventAgrees(held[w])
  BY <1>1 DEF OutboxInv
<1> QED BY <1>1, <1>2, <1>3 DEF ApprovalInv, TypeOK, OutboxOK, EventAgrees

LEMMA OutboxDispatcher ==
  ASSUME ApprovalInv, OutboxInv, NEW w \in Workers, Dispatches(w)
  PROVE  OutboxInv'
<1>1. OutboxOK /\ MaxAttempts \in Nat
  BY MaxAttemptsAssumption DEF ApprovalInv, TypeOK
<1>2. CASE StartBatch(w) \/ SelectDue(w) \/ EndBatch(w)
  BY <1>2, OutboxFrame DEF StartBatch, SelectDue, EndBatch, outbox, history
<1>3. ASSUME NEW p \in Proposals, ClaimEvent(w, p) PROVE OutboxInv'
  <2>1. CASE ~Claimable(p)
    BY <1>3, <2>1, OutboxFrame DEF ClaimEvent, history
  <2>2. CASE Claimable(p)
    <3> DEFINE n == attempts[p] + 1
    <3>1. /\ eventStatus' = [eventStatus EXCEPT ![p] = "publishing"]
          /\ attempts' = [attempts EXCEPT ![p] = n]
          /\ run' = run /\ approvals' = approvals
      BY <1>3, <2>2 DEF ClaimEvent, history
    <3>2. eventStatus[p] \in {"pending", "failed"} /\ EventAgrees(p) /\ attempts[p] \in Nat
      BY <1>1, <2>2 DEF Claimable, OutboxInv, OutboxOK
    <3>3. n \in Nat /\ n <= MaxAttempts /\ run[p] # "succeeded"
      BY <1>1, <3>2 DEF EventAgrees
    <3>4. run' = [run EXCEPT ![p] = run[p]] /\ run[p] \in RunStatus
      BY <1>1, <3>1 DEF OutboxOK
    <3>5. "publishing" \in EventStatus \ {"absent", "pending"}
      BY DEF EventStatus
    <3> HIDE DEF n
    <3> QED BY <3>1, <3>2, <3>3, <3>4, <3>5, EventMoves, ZenonT(30)
  <2> QED BY <2>1, <2>2
<1>4. ASSUME pc[w] \notin FreeSteps,
             NEW to \in EventStatus \ {"absent", "pending"}, NEW s \in RunStatus,
             eventStatus' = [eventStatus EXCEPT ![held[w]] = to],
             run' = [run EXCEPT ![held[w]] = s],
             attempts' = attempts, approvals' = approvals,
             to = "dead_letter" => attempts[held[w]] >= MaxAttempts,
             to = "failed" => attempts[held[w]] < MaxAttempts,
             to \in {"failed", "dead_letter"} => s = to, to = "published" <=> s = "succeeded"
      PROVE  OutboxInv'
  <2>1. /\ held[w] \in Proposals /\ eventStatus[held[w]] = "publishing"
        /\ attempts[held[w]] \in Nat /\ attempts[held[w]] <= MaxAttempts
    BY <1>4, EventInHand
  <2>2. attempts' = [attempts EXCEPT ![held[w]] = attempts[held[w]]]
    BY <1>1, <1>4 DEF OutboxOK
  <2>3. to = "dead_letter" => attempts[held[w]] = MaxAttempts
    BY <1>1, <1>4, <2>1
  <2> QED BY <1>4, <2>1, <2>2, <2>3, EventMoves
<1>5. {"publishing", "published", "failed", "dead_letter"} \subseteq EventStatus \ {"absent", "pending"}
      /\ {"running", "succeeded", "failed", "dead_letter"} \subseteq RunStatus
  BY DEF EventStatus, RunStatus
<1>6. CASE StartRun(w)
  <2>1. pc[w] \notin FreeSteps
    BY <1>6 DEF StartRun, FreeSteps
  <2>2. eventStatus' = [eventStatus EXCEPT ![held[w]] = "publishing"]
    BY <1>1, <1>6, <2>1, EventInHand DEF StartRun, OutboxOK
  <2> QED BY <1>4, <1>5, <1>6, <2>1, <2>2 DEF StartRun, history
<1>7. CASE Publish(w)
  <2>1. pc[w] \notin FreeSteps
    BY <1>7 DEF Publish, FreeSteps
  <2> QED BY <1>4, <1>5, <1>7, <2>1 DEF Publish, history
<1>8. CASE RecordFailure(w)
  <2> DEFINE to == IF Exhausted(held[w]) THEN "dead_letter" ELSE "failed"
  <2>1. pc[w] \notin FreeSteps
    BY <1>8 DEF RecordFailure, FreeSteps
  <2>2. /\ eventStatus' = [eventStatus EXCEPT ![held[w]] = to]
        /\ run' = [run EXCEPT ![held[w]] = to]
        /\ attempts' = attempts /\ approvals' = approvals
    BY <1>8 DEF RecordFailure, history
  <2>3. to \in {"failed", "dead_letter"}
    OBVIOUS
  <2>4. /\ to = "dead_letter" => attempts[held[w]] >= MaxAttempts
        /\ to = "failed" => attempts[held[w]] < MaxAttempts
    BY <1>1, <2>1, EventInHand DEF Exhausted
  <2> HIDE DEF to
  <2> QED BY <1>4, <1>5, <2>1, <2>2, <2>3, <2>4
<1> QED BY <1>2, <1>3, <1>6, <1>7, <1>8, Zenon DEF Dispatches

LEMMA OutboxStep == ApprovalInv /\ OutboxInv /\ [Next]_vars => OutboxInv'
<1> SUFFICES ASSUME ApprovalInv, OutboxInv, [Next]_vars PROVE OutboxInv'
  OBVIOUS
<1>1. CASE Environment
  BY <1>1, OutboxFrame
  DEF Environment, ProposalExpires, BackoffElapses, SetKillSwitch, outbox, history
<1>2. ASSUME NEW c \in Callers, CallerStep(c) PROVE OutboxInv'
  BY <1>2, OutboxFrame DEF CallerStep, LookUp, Create, CallerPerforms, CallerRecords,
     CallerRecordThrows, CallerStops, outbox, history
<1>3. ASSUME NEW r \in Reviewers, ReviewerStep(r) PROVE OutboxInv'
  <2>1. CASE Approve(r)
    BY <2>1, OutboxApprove
  <2>2. CASE ~Approve(r)
    BY <1>3, <2>2, OutboxFrame
    DEF ReviewerStep, OpenReview, ReviewExpires, Reject, ReviewStops, outbox, history
  <2> QED BY <2>1, <2>2
<1>4. ASSUME NEW w \in Workers, WorkerStep(w) PROVE OutboxInv'
  <2>1. CASE Dispatches(w)
    BY <2>1, OutboxDispatcher
  <2>2. CASE Executes(w)
    BY <2>2, OutboxFrame DEF Executes, ReadProposal, Check, ExecutorExpires, ClaimProposal,
       RecordExecution, Perform, Finish, outbox, history
  <2>3. CASE HandlerThrows(w) \/ WorkerStops(w)
    BY <2>3, OutboxFrame DEF HandlerThrows, WorkerStops, outbox, history
  <2> QED BY <1>4, <2>1, <2>2, <2>3 DEF WorkerStep
<1>5. CASE UNCHANGED vars
  BY <1>5, OutboxFrame DEF vars, outbox, history
<1> QED BY <1>1, <1>2, <1>3, <1>4, <1>5, Zenon DEF Next

\* The outbox row, the staff-visible run and the approvals agree whatever crashes
\* and overlaps: an event is there exactly when an approval was committed, it is
\* dead-lettered by its MaxAttempts-th failure and by no other.
THEOREM OutboxConsistent == Spec => []OutboxAgrees
<1>1. Init => OutboxInv
  <2> SUFFICES ASSUME Init, NEW p \in Proposals PROVE EventAgrees(p)
    BY DEF OutboxInv
  <2>1. /\ eventStatus[p] = "absent" /\ attempts[p] = 0
        /\ run[p] = "absent" /\ approvals[p] = 0
    BY DEF Init
  <2> QED BY <2>1, MaxAttemptsAssumption DEF EventAgrees
<1>2. OutboxInv => OutboxAgrees
  BY DEF OutboxInv, EventAgrees, OutboxAgrees
<1> QED BY <1>1, <1>2, OutboxStep, ApprovalInvariant, PTL DEF Spec

Settled(p) == eventStatus[p] \in {"published", "dead_letter"}

\* The event of p, its attempts and its run are left as they are.
EventStays(p) ==
  eventStatus'[p] = eventStatus[p] /\ attempts'[p] = attempts[p] /\ run'[p] = run[p]

\* A published event or a dead letter is final: neither a later approval, nor a
\* batch whose list is stale, nor one that throws late moves it, its attempts
\* or its run again.
SettledEventsStay == [][\A p \in Proposals : Settled(p) => EventStays(p)]_vars

\* A batch that holds an event has claimed it, so it holds no settled one.
LEMMA SettledDispatcher ==
  ASSUME ApprovalInv, NEW w \in Workers, Dispatches(w), NEW p \in Proposals, Settled(p)
  PROVE  EventStays(p)
<1>1. OutboxOK
  BY DEF ApprovalInv, TypeOK
<1>2. ASSUME pc[w] \notin FreeSteps PROVE held[w] \in Proposals /\ held[w] # p
  <2>1. held[w] \in Proposals
    BY <1>2 DEF ApprovalInv, TypeOK, BatchesOK
  <2>2. eventStatus[held[w]] = "publishing"
    BY <2>1, NoneAssumption DEF ApprovalInv, OneHandlerPerEvent
  <2> QED BY <2>1, <2>2 DEF Settled
<1>3. CASE StartBatch(w) \/ SelectDue(w) \/ EndBatch(w)
  BY <1>3 DEF StartBatch, SelectDue, EndBatch, outbox, EventStays
<1>4. ASSUME NEW q \in Proposals, ClaimEvent(w, q) PROVE EventStays(p)
  <2>1. Claimable(q) => q # p
    BY DEF Claimable, Settled
  <2>2. run' = run
    BY <1>4 DEF ClaimEvent
  <2>3. CASE Claimable(q)
    BY <1>1, <1>4, <2>1, <2>2, <2>3 DEF ClaimEvent, EventStays, OutboxOK
  <2>4. CASE ~Claimable(q)
    BY <1>4, <2>2, <2>4 DEF ClaimEvent, EventStays
  <2> QED BY <2>3, <2>4
<1>5. CASE StartRun(w)
  <2>1. held[w] # p
    BY <1>2, <1>5 DEF StartRun, FreeSteps
  <2> QED BY <1>1, <1>5, <2>1 DEF StartRun, EventStays, OutboxOK
<1>6. CASE Publish(w)
  <2>1. held[w] # p
    BY <1>2, <1>6 DEF Publish, FreeSteps
  <2> QED BY <1>1, <1>6, <2>1 DEF Publish, EventStays, OutboxOK
<1>7. CASE RecordFailure(w)
  <2>1. held[w] # p
    BY <1>2, <1>7 DEF RecordFailure, FreeSteps
  <2> QED BY <1>1, <1>7, <2>1 DEF RecordFailure, EventStays, OutboxOK
<1> QED BY <1>3, <1>4, <1>5, <1>6, <1>7, Zenon DEF Dispatches

\* Whatever is done after the outcome of an event, the outcome stays.
THEOREM OutcomesAreFinal == Spec => SettledEventsStay
<1>1. ApprovalInv /\ [Next]_vars => [\A p \in Proposals : Settled(p) => EventStays(p)]_vars
  <2> SUFFICES ASSUME ApprovalInv, Next, NEW p \in Proposals, Settled(p)
               PROVE  EventStays(p)
    OBVIOUS
  <2>1. OutboxOK
    BY DEF ApprovalInv, TypeOK
  <2>2. CASE Environment
    BY <2>2 DEF Environment, ProposalExpires, BackoffElapses, SetKillSwitch, outbox, EventStays
  <2>3. ASSUME NEW c \in Callers, CallerStep(c) PROVE EventStays(p)
    BY <2>3 DEF CallerStep, LookUp, Create, CallerPerforms, CallerRecords,
       CallerRecordThrows, CallerStops, outbox, EventStays
  <2>4. ASSUME NEW r \in Reviewers, ReviewerStep(r) PROVE EventStays(p)
    <3>1. CASE Approve(r)
      BY <2>1, <3>1 DEF Approve, AppendEvent, Settled, EventStays, OutboxOK
    <3>2. CASE ~Approve(r)
      BY <2>4, <3>2
      DEF ReviewerStep, OpenReview, ReviewExpires, Reject, ReviewStops, outbox, EventStays
    <3> QED BY <3>1, <3>2
  <2>5. ASSUME NEW w \in Workers, WorkerStep(w) PROVE EventStays(p)
    <3>1. CASE Dispatches(w)
      BY <3>1, SettledDispatcher
    <3>2. CASE Executes(w)
      BY <3>2 DEF Executes, ReadProposal, Check, ExecutorExpires, ClaimProposal,
         RecordExecution, Perform, Finish, outbox, EventStays
    <3>3. CASE HandlerThrows(w) \/ WorkerStops(w)
      BY <3>3 DEF HandlerThrows, WorkerStops, outbox, EventStays
    <3> QED BY <2>5, <3>1, <3>2, <3>3 DEF WorkerStep
  <2> QED BY <2>2, <2>3, <2>4, <2>5, Zenon DEF Next
<1> QED BY <1>1, ApprovalInvariant, PTL DEF Spec, SettledEventsStay

-----------------------------------------------------------------------------
(* A low-risk write happens once.  It is created by the one caller whose   *)
(* create the unique key lets through; reviews and events are never about  *)
(* it, for its row is never "pending".                                     *)

LowRisk == Proposals \ ApprovalBound

Performing(p) == {c \in Callers : caller[c].pc = "perform" /\ caller[c].p = p}

LowRiskRows ==
  \A p \in LowRisk :
    /\ proposal[p] \in {"absent", "executing", "completed", "failed"}
    /\ eventStatus[p] = "absent"

LowRiskEffects ==
  \A p \in LowRisk :
    /\ effects[p] <= 1
    /\ proposal[p] = "absent" => effects[p] = 0 /\ Performing(p) = {}
    /\ \A c \in Performing(p) : effects[p] = 0 /\ Performing(p) = {c}

ReviewsBound == \A r \in Reviewers : reviewer[r].pc # "idle" => reviewer[r].p \in ApprovalBound

LowRiskInv == LowRiskRows /\ LowRiskEffects /\ ReviewsBound

\* What a batch holds is approval-bound, for only such proposals have events.
LEMMA BatchesBound ==
  ASSUME ApprovalInv, LowRiskRows, NEW w \in Workers, pc[w] \notin FreeSteps
  PROVE  held[w] \in ApprovalBound
<1>1. held[w] \in Proposals /\ held[w] # None
  BY NoneAssumption DEF ApprovalInv, TypeOK, BatchesOK
<1>2. eventStatus[held[w]] = "publishing"
  BY <1>1 DEF ApprovalInv, OneHandlerPerEvent
<1> QED BY <1>1, <1>2 DEF LowRiskRows, LowRisk

LEMMA LowRiskFrame ==
  /\ LowRiskRows /\ (\A p \in LowRisk : proposal'[p] = proposal[p] /\ eventStatus'[p] = eventStatus[p])
       => LowRiskRows'
  /\ LowRiskEffects /\ UNCHANGED caller
       /\ (\A p \in LowRisk : proposal'[p] = proposal[p] /\ effects'[p] = effects[p])
       => LowRiskEffects'
  /\ ReviewsBound /\ UNCHANGED reviewer => ReviewsBound'
<1>1. LowRiskRows /\ (\A p \in LowRisk : proposal'[p] = proposal[p] /\ eventStatus'[p] = eventStatus[p])
        => LowRiskRows'
  BY DEF LowRiskRows
<1>2. LowRiskEffects /\ UNCHANGED caller
        /\ (\A p \in LowRisk : proposal'[p] = proposal[p] /\ effects'[p] = effects[p])
        => LowRiskEffects'
  BY DEF LowRiskEffects, Performing
<1>3. ReviewsBound /\ UNCHANGED reviewer => ReviewsBound'
  BY DEF ReviewsBound
<1> QED BY <1>1, <1>2, <1>3

LEMMA LowRiskCaller ==
  ASSUME ApprovalInv, LowRiskInv, NEW c \in Callers, CallerStep(c)
  PROVE  LowRiskInv'
<1>0. PICK p : p = caller[c].p
  OBVIOUS
<1>1. /\ RowsOK /\ CallersOK /\ HistoryOK /\ ReviewsBound /\ ReviewsBound'
      /\ LowRiskRows /\ LowRiskEffects /\ eventStatus' = eventStatus
  BY LowRiskFrame DEF ApprovalInv, TypeOK, LowRiskInv, CallerStep, LookUp, Create,
     CallerPerforms, CallerRecords, CallerRecordThrows, CallerStops, outbox
<1>2. ASSUME UNCHANGED <<proposal, effects>>,
             \A q \in LowRisk : Performing(q)' \subseteq Performing(q)
      PROVE  LowRiskInv'
  <2>1. LowRiskRows'
    BY <1>1, <1>2 DEF LowRiskRows
  <2>2. LowRiskEffects'
    BY <1>1, <1>2 DEF LowRiskEffects
  <2> QED BY <1>1, <2>1, <2>2 DEF LowRiskInv
<1>3. CASE \/ \E q \in Proposals : LookUp(c, q)
           \/ CallerRecordThrows(c) \/ CallerStops(c)
  <2>1. PICK r : r.pc # "perform" /\ caller' = [caller EXCEPT ![c] = r]
    BY <1>3 DEF LookUp, CallerRecordThrows, CallerStops, IdleCaller
  <2>2. \A q \in LowRisk : Performing(q)' \subseteq Performing(q)
    BY <1>1, <2>1 DEF Performing, CallersOK
  <2>3. UNCHANGED <<proposal, effects>>
    BY <1>3 DEF LookUp, CallerRecordThrows, CallerStops, rows, history
  <2> QED BY <1>2, <2>2, <2>3
<1>4. CASE Create(c) /\ (Taken(p) \/ p \in ApprovalBound)
  <2>1. caller' = [caller EXCEPT ![c] = IdleCaller] /\ effects' = effects
    BY <1>0, <1>4 DEF Create
  <2>2. \A q \in LowRisk : Performing(q)' \subseteq Performing(q)
    BY <1>1, <2>1 DEF Performing, CallersOK, IdleCaller
  <2>3. \A q \in LowRisk : proposal'[q] = proposal[q]
    BY <1>0, <1>1, <1>4 DEF Create, RowsOK, LowRisk
  <2>4. LowRiskRows' /\ LowRiskEffects'
    BY <1>1, <2>1, <2>2, <2>3 DEF LowRiskRows, LowRiskEffects
  <2> QED BY <1>1, <2>4 DEF LowRiskInv
<1>5. CASE Create(c) /\ ~Taken(p) /\ p \notin ApprovalBound
  <2>1. /\ p \in LowRisk /\ proposal[p] = "absent" /\ effects' = effects
        /\ proposal' = [proposal EXCEPT ![p] = "executing"]
        /\ caller' = [caller EXCEPT ![c] = [pc |-> "perform", p |-> p, ok |-> FALSE]]
    BY <1>0, <1>1, <1>5 DEF Create, Taken, LowRisk, CallersOK
  <2>2. proposal'[p] = "executing" /\ \A q \in LowRisk \ {p} : proposal'[q] = proposal[q]
    BY <1>1, <2>1 DEF RowsOK, LowRisk
  <2>3. \A q \in LowRisk \ {p} : Performing(q)' \subseteq Performing(q)
    BY <1>1, <2>1 DEF Performing, CallersOK
  <2>4. effects[p] = 0 /\ Performing(p) = {}
    BY <1>1, <2>1 DEF LowRiskEffects
  <2>5. Performing(p)' = {c}
    BY <1>1, <2>1, <2>4 DEF Performing, CallersOK
  <2>6. LowRiskRows'
    BY <1>1, <2>2 DEF LowRiskRows
  <2>7. LowRiskEffects'
    BY <1>1, <2>1, <2>2, <2>3, <2>4, <2>5 DEF LowRiskEffects
  <2> QED BY <1>1, <2>6, <2>7 DEF LowRiskInv
<1>6. CASE CallerPerforms(c)
  <2>1. PICK next \in {"complete", "fail"}, succeeds \in BOOLEAN, done \in BOOLEAN :
          /\ caller' = [caller EXCEPT ![c] = [pc |-> next, p |-> p, ok |-> succeeds]]
          /\ effects' = [effects EXCEPT ![p] = IF done THEN @ + 1 ELSE @]
    BY <1>0, <1>6 DEF CallerPerforms
  <2>2. p \in Proposals /\ c \in Performing(p) /\ proposal' = proposal
    BY <1>0, <1>1, <1>6 DEF CallerPerforms, CallersOK, Performing, rows
  <2>3. \A q \in LowRisk : Performing(q)' = Performing(q) \ {c}
    BY <1>1, <2>1 DEF Performing, CallersOK
  <2>4. \A q \in LowRisk \ {p} : effects'[q] = effects[q]
    BY <1>1, <2>1 DEF HistoryOK, LowRisk
  <2>5. p \in LowRisk => effects'[p] \in {0, 1} /\ Performing(p)' = {} /\ proposal[p] # "absent"
    BY <1>1, <2>1, <2>2, <2>3 DEF HistoryOK, LowRiskEffects
  <2>6. LowRiskRows'
    BY <1>1, <2>2 DEF LowRiskRows
  <2>7. LowRiskEffects'
    BY <1>1, <2>2, <2>3, <2>4, <2>5 DEF LowRiskEffects
  <2> QED BY <1>1, <2>6, <2>7 DEF LowRiskInv
<1>7. CASE CallerRecords(c)
  <2>1. PICK s \in {"completed", "failed"} : proposal' = [proposal EXCEPT ![p] = s]
    BY <1>0, <1>7 DEF CallerRecords
  <2>2. caller' = [caller EXCEPT ![c] = IdleCaller] /\ effects' = effects
    BY <1>7 DEF CallerRecords, history
  <2>3. \A q \in LowRisk : Performing(q)' \subseteq Performing(q)
    BY <1>1, <2>2 DEF Performing, CallersOK, IdleCaller
  <2>4. \A q \in LowRisk : proposal'[q] = proposal[q] \/ proposal'[q] \in {"completed", "failed"}
    BY <1>1, <2>1 DEF RowsOK, LowRisk
  <2>5. LowRiskRows'
    BY <1>1, <2>4 DEF LowRiskRows
  <2>6. LowRiskEffects'
    BY <1>1, <2>2, <2>3, <2>4 DEF LowRiskEffects
  <2> QED BY <1>1, <2>5, <2>6 DEF LowRiskInv
<1> QED BY <1>3, <1>4, <1>5, <1>6, <1>7, Zenon DEF CallerStep

LEMMA LowRiskReviewer ==
  ASSUME ApprovalInv, LowRiskInv, NEW r \in Reviewers, ReviewerStep(r)
  PROVE  LowRiskInv'
<1> DEFINE p == reviewer[r].p
<1>1. /\ RowsOK /\ OutboxOK /\ ReviewersOK /\ ReviewsBound /\ LowRiskRows /\ LowRiskEffects
      /\ caller' = caller /\ effects' = effects
  BY DEF ApprovalInv, TypeOK, LowRiskInv, ReviewerStep, OpenReview, ReviewExpires, Approve,
     Reject, ReviewStops, history
<1>2. \A q \in LowRisk : proposal'[q] = proposal[q] /\ eventStatus'[q] = eventStatus[q]
  <2>1. reviewer[r].pc # "idle" => p \in ApprovalBound
    BY <1>1 DEF ReviewsBound
  <2>2. \/ proposal' = proposal
        \/ reviewer[r].pc # "idle" /\ \E s : proposal' = [proposal EXCEPT ![p] = s]
    BY DEF ReviewerStep, OpenReview, ReviewExpires, Approve, Reject, ReviewStops, rows
  <2>3. \/ eventStatus' = eventStatus
        \/ reviewer[r].pc # "idle" /\ eventStatus' = [eventStatus EXCEPT ![p] = "pending"]
    BY DEF ReviewerStep, OpenReview, ReviewExpires, Approve, AppendEvent, Reject, ReviewStops,
       outbox
  <2> HIDE DEF p
  <2> QED BY <1>1, <2>1, <2>2, <2>3 DEF RowsOK, OutboxOK, LowRisk
<1>3. ReviewsBound'
  <2>1. ASSUME NEW q \in Proposals, OpenReview(r, q) PROVE ReviewsBound'
    <3>1. q \in ApprovalBound
      BY <1>1, <2>1 DEF OpenReview, LowRiskRows, LowRisk
    <3>2. PICK n : n.p = q /\ reviewer' = [reviewer EXCEPT ![r] = n]
      BY <2>1 DEF OpenReview
    <3> QED BY <1>1, <3>1, <3>2 DEF ReviewsBound, ReviewersOK
  <2>2. CASE ReviewExpires(r) \/ Approve(r) \/ Reject(r) \/ ReviewStops(r)
    <3>1. reviewer' = [reviewer EXCEPT ![r] = IdleReviewer]
      BY <2>2 DEF ReviewExpires, Approve, Reject, ReviewStops
    <3> QED BY <1>1, <3>1 DEF ReviewsBound, ReviewersOK, IdleReviewer
  <2> QED BY <2>1, <2>2 DEF ReviewerStep
<1> QED BY <1>1, <1>2, <1>3, LowRiskFrame DEF LowRiskInv

LEMMA LowRiskWorker ==
  ASSUME ApprovalInv, LowRiskInv, NEW w \in Workers, WorkerStep(w)
  PROVE  LowRiskInv'
<1>1. /\ RowsOK /\ OutboxOK /\ HistoryOK /\ ReviewsBound /\ LowRiskRows /\ LowRiskEffects
      /\ caller' = caller /\ reviewer' = reviewer
  BY DEF ApprovalInv, TypeOK, LowRiskInv, WorkerStep, Executes, ReadProposal, Check,
     ExecutorExpires, ClaimProposal, RecordExecution, Perform, Finish, Dispatches, StartBatch,
     SelectDue, EndBatch, ClaimEvent, StartRun, Publish, RecordFailure, HandlerThrows, WorkerStops
<1>2. \A q \in LowRisk : proposal'[q] = proposal[q]
  <2>1. CASE StartBatch(w)
    <3>1. \A q \in LowRisk : q \in Proposals /\ proposal[q] # "pending"
      BY <1>1 DEF LowRiskRows, LowRisk
    <3> QED BY <2>1, <3>1 DEF StartBatch
  <2>2. CASE ~StartBatch(w)
    <3>1. \/ proposal' = proposal
          \/ pc[w] \notin FreeSteps /\ \E s : proposal' = [proposal EXCEPT ![held[w]] = s]
      BY <2>2 DEF WorkerStep, Executes, ReadProposal, Check, ExecutorExpires, ClaimProposal,
         RecordExecution, Perform, Finish, Dispatches, SelectDue, EndBatch, ClaimEvent, StartRun,
         Publish, RecordFailure, HandlerThrows, WorkerStops, rows, FreeSteps
    <3> QED BY <1>1, <3>1, BatchesBound DEF RowsOK, LowRisk
  <2> QED BY <2>1, <2>2
<1>3. \A q \in LowRisk : eventStatus'[q] = eventStatus[q]
  <2>1. ASSUME NEW p \in Proposals, ClaimEvent(w, p)
        PROVE  \A q \in LowRisk : eventStatus'[q] = eventStatus[q]
    <3>1. \/ eventStatus' = eventStatus
          \/ Claimable(p) /\ eventStatus' = [eventStatus EXCEPT ![p] = "publishing"]
      BY <2>1 DEF ClaimEvent
    <3>2. Claimable(p) => p \notin LowRisk
      BY <1>1 DEF Claimable, LowRiskRows
    <3> QED BY <1>1, <3>1, <3>2 DEF OutboxOK, LowRisk
  <2>2. CASE ~\E p \in Proposals : ClaimEvent(w, p)
    <3>1. \/ eventStatus' = eventStatus
          \/ pc[w] \notin FreeSteps /\ \E s : eventStatus' = [eventStatus EXCEPT ![held[w]] = s]
      BY <2>2 DEF WorkerStep, Executes, ReadProposal, Check, ExecutorExpires, ClaimProposal,
         RecordExecution, Perform, Finish, Dispatches, StartBatch, SelectDue, EndBatch, StartRun,
         Publish, RecordFailure, HandlerThrows, WorkerStops, outbox, FreeSteps
    <3> QED BY <1>1, <3>1, BatchesBound DEF OutboxOK, LowRisk
  <2> QED BY <2>1, <2>2
<1>4. \A q \in LowRisk : effects'[q] = effects[q]
  <2>1. CASE Perform(w)
    <3>1. held[w] \in ApprovalBound
      BY <1>1, <2>1, BatchesBound DEF Perform, FreeSteps
    <3>2. PICK done \in BOOLEAN : effects' = [effects EXCEPT ![held[w]] = IF done THEN @ + 1 ELSE @]
      BY <2>1 DEF Perform
    <3> QED BY <1>1, <3>1, <3>2 DEF HistoryOK, LowRisk
  <2>2. CASE ~Perform(w)
    <3>1. effects' = effects
      BY <2>2 DEF WorkerStep, Executes, ReadProposal, Check, ExecutorExpires, ClaimProposal,
         RecordExecution, Finish, Dispatches, StartBatch, SelectDue, EndBatch, ClaimEvent,
         StartRun, Publish, RecordFailure, HandlerThrows, WorkerStops, history
    <3> QED BY <3>1
  <2> QED BY <2>1, <2>2
<1> QED BY <1>1, <1>2, <1>3, <1>4, LowRiskFrame DEF LowRiskInv

LEMMA LowRiskInit == Init => LowRiskInv
<1> SUFFICES ASSUME Init PROVE LowRiskInv
  OBVIOUS
<1>1. \A p \in Proposals : proposal[p] = "absent" /\ eventStatus[p] = "absent" /\ effects[p] = 0
  BY DEF Init
<1>2. \A p : Performing(p) = {}
  BY DEF Init, Performing, IdleCaller
<1>3. ReviewsBound
  BY DEF Init, ReviewsBound, IdleReviewer
<1> QED BY <1>1, <1>2, <1>3 DEF LowRiskInv, LowRiskRows, LowRiskEffects, LowRisk

LEMMA LowRiskStep == ApprovalInv /\ LowRiskInv /\ [Next]_vars => LowRiskInv'
<1> SUFFICES ASSUME ApprovalInv, LowRiskInv, [Next]_vars PROVE LowRiskInv'
  OBVIOUS
<1>1. CASE Environment \/ UNCHANGED vars
  <2>1. UNCHANGED <<proposal, eventStatus, caller, effects, reviewer>>
    BY <1>1 DEF Environment, ProposalExpires, BackoffElapses, SetKillSwitch, vars, rows, outbox,
       history
  <2> QED BY <2>1, LowRiskFrame DEF LowRiskInv
<1>2. ASSUME NEW c \in Callers, CallerStep(c) PROVE LowRiskInv'
  BY <1>2, LowRiskCaller
<1>3. ASSUME NEW r \in Reviewers, ReviewerStep(r) PROVE LowRiskInv'
  BY <1>3, LowRiskReviewer
<1>4. ASSUME NEW w \in Workers, WorkerStep(w) PROVE LowRiskInv'
  BY <1>4, LowRiskWorker
<1> QED BY <1>1, <1>2, <1>3, <1>4, Zenon DEF Next

\* A low-risk write takes effect at most once, however many callers repeat it and
\* race between the lookup and the create.
THEOREM LowRiskSafety == Spec => []LowRiskActsOnce
<1>1. LowRiskInv => LowRiskActsOnce
  BY DEF LowRiskInv, LowRiskEffects, LowRiskActsOnce, LowRisk
<1> QED BY <1>1, LowRiskInit, LowRiskStep, ApprovalInvariant, PTL DEF Spec

-----------------------------------------------------------------------------
(* Governance implements the ledger of approvals.  Only an approval, the   *)
(* claim of a batch and the create of a caller move the mapped variables.  *)

Granted == [p \in ApprovalBound |-> timely[p]]
Used    == [p \in ApprovalBound |-> claims[p]]

LEMMA LedgerInit == Init => Ledger!Init
BY DEF Init, Ledger!Init, ApprovalBound

LEMMA LedgerStutter ==
  ASSUME \A p \in ApprovalBound : timely'[p] = timely[p] /\ claims'[p] = claims[p]
  PROVE  UNCHANGED <<Granted, Used>>
BY DEF Granted, Used

LEMMA LedgerCreate ==
  ASSUME ApprovalInv, NEW c \in Callers, Create(c)
  PROVE  UNCHANGED <<Granted, Used>>
<1>1. timely' = timely
  BY DEF Create
<1>2. \/ claims' = claims
      \/ /\ caller[c].p \notin ApprovalBound
         /\ claims' = [claims EXCEPT ![caller[c].p] = @ + 1]
  BY DEF Create
<1>3. claims \in [Proposals -> Nat]
  BY DEF ApprovalInv, TypeOK, HistoryOK
<1>4. \A p \in ApprovalBound : claims'[p] = claims[p]
  BY <1>2, <1>3 DEF ApprovalBound
<1> QED BY <1>1, <1>4, LedgerStutter

LEMMA LedgerApprove ==
  ASSUME ApprovalInv, NEW r \in Reviewers, Approve(r)
  PROVE  [Ledger!Next]_<<Granted, Used>>
<1> DEFINE p == reviewer[r].p
<1>1. /\ claims' = claims
      /\ timely' = [timely EXCEPT ![p] = IF expired[p] THEN @ ELSE @ + 1]
  BY DEF Approve
<1>2. timely \in [Proposals -> Nat]
  BY DEF ApprovalInv, TypeOK, HistoryOK
<1>3. CASE expired[p] \/ p \notin ApprovalBound
  <2>1. \A q \in ApprovalBound : timely'[q] = timely[q]
    BY <1>1, <1>2, <1>3 DEF ApprovalBound
  <2> QED BY <1>1, <2>1, LedgerStutter
<1>4. CASE ~expired[p] /\ p \in ApprovalBound
  <2>1. timely' = [timely EXCEPT ![p] = @ + 1]
    BY <1>1, <1>4
  <2>2. Granted' = [Granted EXCEPT ![p] = @ + 1]
    BY <1>2, <1>4, <2>1 DEF Granted, ApprovalBound
  <2>3. Used' = Used
    BY <1>1 DEF Used
  <2> QED BY <1>4, <2>2, <2>3 DEF Ledger!Next, Ledger!Grant, Granted, Used
<1> QED BY <1>3, <1>4

LEMMA LedgerClaim ==
  ASSUME ApprovalInv, NEW w \in Workers, ClaimProposal(w)
  PROVE  [Ledger!Next]_<<Granted, Used>>
<1> DEFINE p == held[w]
<1>1. /\ timely' = timely
      /\ claims' = claims \/ claims' = [claims EXCEPT ![p] = @ + 1]
  BY DEF ClaimProposal
<1>2. claims \in [Proposals -> Nat]
  BY DEF ApprovalInv, TypeOK, HistoryOK
<1>3. CASE claims' = claims \/ p \notin ApprovalBound
  <2>1. \A q \in ApprovalBound : claims'[q] = claims[q]
    BY <1>1, <1>2, <1>3 DEF ApprovalBound
  <2> QED BY <1>1, <2>1, LedgerStutter
<1>4. CASE claims' # claims /\ p \in ApprovalBound
  <2>1. claims[p] < timely[p]
    BY <1>4 DEF ApprovalInv, BatchesEntitled, ClaimProposal
  <2>2. Used' = [Used EXCEPT ![p] = @ + 1]
    BY <1>1, <1>2, <1>4 DEF Used, ApprovalBound
  <2>3. Granted' = Granted
    BY <1>1 DEF Granted
  <2> QED BY <1>4, <2>1, <2>2, <2>3 DEF Ledger!Next, Ledger!Use, Granted, Used
<1> QED BY <1>3, <1>4

LEMMA LedgerStep == ApprovalInv /\ [Next]_vars => [Ledger!Next]_<<Granted, Used>>
<1> SUFFICES ASSUME ApprovalInv, [Next]_vars PROVE [Ledger!Next]_<<Granted, Used>>
  OBVIOUS
<1>1. CASE Environment
  <2>1. UNCHANGED <<timely, claims>>
    BY <1>1 DEF Environment, ProposalExpires, BackoffElapses, SetKillSwitch, history
  <2> QED BY <2>1, LedgerStutter
<1>2. ASSUME NEW c \in Callers, CallerStep(c) PROVE UNCHANGED <<Granted, Used>>
  <2>1. CASE Create(c)
    BY <2>1, LedgerCreate
  <2>2. CASE ~Create(c)
    <3>1. UNCHANGED <<timely, claims>>
      BY <1>2, <2>2 DEF CallerStep, LookUp, CallerPerforms, CallerRecords,
         CallerRecordThrows, CallerStops, history
    <3> QED BY <3>1, LedgerStutter
  <2> QED BY <2>1, <2>2
<1>3. ASSUME NEW r \in Reviewers, ReviewerStep(r)
      PROVE  [Ledger!Next]_<<Granted, Used>>
  <2>1. CASE Approve(r)
    BY <2>1, LedgerApprove
  <2>2. CASE ~Approve(r)
    <3>1. UNCHANGED <<timely, claims>>
      BY <1>3, <2>2
      DEF ReviewerStep, OpenReview, ReviewExpires, Reject, ReviewStops, history
    <3> QED BY <3>1, LedgerStutter
  <2> QED BY <2>1, <2>2
<1>4. ASSUME NEW w \in Workers, WorkerStep(w)
      PROVE  [Ledger!Next]_<<Granted, Used>>
  <2>1. CASE ClaimProposal(w)
    BY <2>1, LedgerClaim
  <2>2. CASE Executes(w) /\ ~ClaimProposal(w)
    <3>1. UNCHANGED <<timely, claims>>
      BY <2>2 DEF Executes, ReadProposal, Check, ExecutorExpires, RecordExecution,
         Perform, Finish, history
    <3> QED BY <3>1, LedgerStutter
  <2>3. CASE Dispatches(w) \/ HandlerThrows(w) \/ WorkerStops(w)
    <3>1. UNCHANGED <<timely, claims>>
      BY <2>3 DEF Dispatches, StartBatch, SelectDue, EndBatch, ClaimEvent, StartRun,
         Publish, RecordFailure, HandlerThrows, WorkerStops, history
    <3> QED BY <3>1, LedgerStutter
  <2> QED BY <1>4, <2>1, <2>2, <2>3 DEF WorkerStep
<1>5. CASE UNCHANGED vars
  BY <1>5, LedgerStutter DEF vars, history
<1> QED BY <1>1, <1>2, <1>3, <1>4, <1>5, Zenon DEF Next

\* Every behaviour of governance is, seen through timely approvals and claims of
\* approval-bound actions, a behaviour of the ledger.
THEOREM LedgerRefinement == Spec => ImplementsLedger
<1>1. Init => Ledger!Init
  BY LedgerInit
<1>2. ApprovalInv /\ [Next]_vars
        => [Ledger!Next]_<<[p \in ApprovalBound |-> timely[p]], [p \in ApprovalBound |-> claims[p]]>>
  BY LedgerStep DEF Granted, Used
<1> QED BY <1>1, <1>2, ApprovalInvariant, PTL DEF Spec, ImplementsLedger, Ledger!Spec
=============================================================================
