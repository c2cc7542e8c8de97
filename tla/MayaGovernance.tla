-------------------------- MODULE MayaGovernance --------------------------
(***************************************************************************)
(* Governed Maya actions of one tenant: a proposal is created by a caller, *)
(* reviewed by staff, handed to the transactional outbox on approval and   *)
(* executed by the dispatcher that claims the outbox event.                *)
(*                                                                         *)
(* Every database statement or transaction of the code is one action, so   *)
(* callers, reviewers, dispatchers and the clock interleave between any    *)
(* two of them.  A proposal has at most one outbox event (the event key is *)
(* a hash of the event type and the proposal), so events are indexed by    *)
(* proposals.                                                              *)
(***************************************************************************)
EXTENDS Naturals, Sequences

CONSTANTS Proposals,    \* idempotency keys of the actions that may be proposed
          Risk,         \* the fixed risk class of each
          Callers,      \* conversations and customer requests
          Reviewers,    \* staff requests to the review endpoints
          Workers,      \* dispatcher batches that may run at the same time
          MaxAttempts,  \* claims of an event before it is dead-lettered
          None          \* no proposal

RiskClasses == {"low_risk_write", "human_approval", "high_risk"}

ASSUME RiskAssumption        == Risk \in [Proposals -> RiskClasses]
ASSUME MaxAttemptsAssumption == MaxAttempts \in Nat \ {0}
ASSUME NoneAssumption        == None \notin Proposals

VARIABLES
  proposal,   \* status of the proposal row, "absent" before it is created
  expired,    \* the clock has passed the proposal's expiresAt
  executions, \* statuses of the proposal's execution rows, by attempt
  eventStatus, attempts, due,  \* the outbox row of MayaActionApproved: its
              \* status, its claims, and whether availableAt has passed
  run,        \* status of the automation run of that event
  killed,     \* a tenant kill switch covering these actions is off
  caller,     \* local state of callers
  reviewer,   \* local state of review requests
  pc, held, seen, ok, batch,  \* local state of dispatcher batches: next step,
              \* proposal of the event in hand, its status as read, the result,
              \* events still to handle
  approvals,  \* history: approving reviews committed
  timely,     \* history: those committed before the proposal expired
  unverified, \* history: an approval was committed without recent MFA
  claims,     \* history: times the proposal was claimed for execution
  effects     \* history: times the action took effect

rows    == <<proposal, executions>>
outbox  == <<eventStatus, attempts, due, run>>
local   == <<held, seen, ok, batch>>
worker  == <<pc, local>>
history == <<approvals, timely, unverified, claims, effects>>
vars    == <<rows, expired, outbox, killed, caller, reviewer, worker, history>>

ApprovalBound == {p \in Proposals : Risk[p] # "low_risk_write"}

ProposalStatus  == {"absent", "pending", "approved", "rejected", "expired",
                    "executing", "completed", "failed"}
ExecutionStatus == {"running", "succeeded", "failed"}
EventStatus     == {"absent", "pending", "publishing", "published", "failed",
                    "dead_letter"}
RunStatus       == {"absent", "running", "succeeded", "failed", "dead_letter"}

IdleCaller   == [pc |-> "idle", p |-> None, ok |-> FALSE]
IdleReviewer == [pc |-> "idle", p |-> None, approve |-> FALSE, mfa |-> FALSE]

Init ==
  /\ proposal   = [p \in Proposals |-> "absent"]
  /\ expired    = [p \in Proposals |-> FALSE]
  /\ executions = [p \in Proposals |-> <<>>]
  /\ eventStatus = [p \in Proposals |-> "absent"]
  /\ attempts   = [p \in Proposals |-> 0]
  /\ due        = [p \in Proposals |-> FALSE]
  /\ run        = [p \in Proposals |-> "absent"]
  /\ killed     = FALSE
  /\ caller     = [c \in Callers |-> IdleCaller]
  /\ reviewer   = [r \in Reviewers |-> IdleReviewer]
  /\ pc         = [w \in Workers |-> "idle"]
  /\ held       = [w \in Workers |-> None]
  /\ seen       = [w \in Workers |-> "absent"]
  /\ ok         = [w \in Workers |-> FALSE]
  /\ batch      = [w \in Workers |-> {}]
  /\ approvals  = [p \in Proposals |-> 0]
  /\ timely     = [p \in Proposals |-> 0]
  /\ unverified = [p \in Proposals |-> FALSE]
  /\ claims     = [p \in Proposals |-> 0]
  /\ effects    = [p \in Proposals |-> 0]

-----------------------------------------------------------------------------
(* The environment: the clock and the staff's kill switch. *)

ProposalExpires(p) ==
  /\ proposal[p] # "absent" /\ ~expired[p]
  /\ expired' = [expired EXCEPT ![p] = TRUE]
  /\ UNCHANGED <<rows, outbox, killed, caller, reviewer, worker, history>>

BackoffElapses(p) ==
  /\ eventStatus[p] = "failed" /\ ~due[p]
  /\ due' = [due EXCEPT ![p] = TRUE]
  /\ UNCHANGED <<rows, expired, eventStatus, attempts, run, killed, caller, reviewer,
                 worker, history>>

SetKillSwitch ==
  /\ killed' = ~killed
  /\ UNCHANGED <<rows, outbox, expired, caller, reviewer, worker, history>>

-----------------------------------------------------------------------------
(* Callers.  A tool call of a conversation is governed, and a low-risk     *)
(* write is then executed by the caller itself; a customer's cancellation  *)
(* request only creates a high-risk proposal.                              *)

\* The lookup that precedes the create: an action that is waiting or done is
\* reported to the caller and nothing changes.
MayCreate(p) ==
  IF Risk[p] = "high_risk"
    THEN effects[p] = 0 /\ proposal[p] = "absent"
    ELSE ~killed /\ proposal[p] \notin {"completed", "pending", "approved"}

LookUp(c, p) ==
  /\ caller[c].pc = "idle"
  /\ MayCreate(p)
  /\ caller' = [caller EXCEPT ![c] = [pc |-> "create", p |-> p, ok |-> FALSE]]
  /\ UNCHANGED <<rows, outbox, expired, killed, reviewer, worker, history>>

\* Mutant: the statuses of the lookup instead of the unique key.
TakenByStatus(p) == proposal[p] \in {"completed", "pending", "approved"}

\* The unique idempotency key, which refuses the create when a row exists.
Taken(p) == proposal[p] # "absent"

Create(c) ==
  LET p == caller[c].p IN
  /\ caller[c].pc = "create"
  /\ IF Taken(p)
       THEN /\ caller' = [caller EXCEPT ![c] = IdleCaller]
            /\ UNCHANGED <<proposal, claims>>
       ELSE IF p \in ApprovalBound
       THEN /\ proposal' = [proposal EXCEPT ![p] = "pending"]
            /\ caller' = [caller EXCEPT ![c] = IdleCaller]
            /\ UNCHANGED claims
       ELSE /\ proposal' = [proposal EXCEPT ![p] = "executing"]
            /\ caller' = [caller EXCEPT ![c] = [pc |-> "perform", p |-> p, ok |-> FALSE]]
            /\ claims' = [claims EXCEPT ![p] = @ + 1]
  /\ UNCHANGED <<outbox, expired, executions, killed, reviewer, worker,
                 approvals, timely, unverified, effects>>

\* The tool runs: it succeeds, it reports a failure, or it throws.
CallerPerforms(c) ==
  LET p == caller[c].p IN
  /\ caller[c].pc = "perform"
  /\ \E succeeds \in BOOLEAN, done \in BOOLEAN, next \in {"complete", "fail"} :
       /\ succeeds => done /\ next = "complete"
       /\ caller'  = [caller EXCEPT ![c] = [pc |-> next, p |-> p, ok |-> succeeds]]
       /\ effects' = [effects EXCEPT ![p] = IF done THEN @ + 1 ELSE @]
  /\ UNCHANGED <<rows, outbox, expired, killed, reviewer, worker,
                 approvals, timely, unverified, claims>>

\* The transaction that records the outcome; when it throws the catch block
\* records a failure instead, and an error of that one is swallowed.
CallerRecords(c) ==
  LET p         == caller[c].p
      completes == caller[c].pc = "complete" /\ caller[c].ok
  IN
  /\ caller[c].pc \in {"complete", "fail"}
  /\ proposal'   = [proposal EXCEPT ![p] = IF completes THEN "completed" ELSE "failed"]
  /\ executions' = [executions EXCEPT
       ![p] = Append(@, IF completes THEN "succeeded" ELSE "failed")]
  /\ caller'     = [caller EXCEPT ![c] = IdleCaller]
  /\ UNCHANGED <<outbox, expired, killed, reviewer, worker, history>>

CallerRecordThrows(c) ==
  /\ caller[c].pc = "complete"
  /\ caller' = [caller EXCEPT ![c] = [pc |-> "fail", p |-> @.p, ok |-> @.ok]]
  /\ UNCHANGED <<rows, outbox, expired, killed, reviewer, worker, history>>

\* The API process dies, or the last write's error is swallowed.
CallerStops(c) ==
  /\ caller[c].pc # "idle"
  /\ caller' = [caller EXCEPT ![c] = IdleCaller]
  /\ UNCHANGED <<rows, outbox, expired, killed, reviewer, worker, history>>

-----------------------------------------------------------------------------
(* Staff reviews.  The checks read the row; the decision is written later, *)
(* in a transaction that does not read the status again.                   *)

MfaSatisfied(p, mfa) == Risk[p] # "high_risk" \/ mfa

OpenReview(r, p) ==
  /\ reviewer[r].pc = "idle"
  /\ proposal[p] = "pending"
  /\ \E approve \in BOOLEAN, mfa \in BOOLEAN :
       /\ expired[p] \/ MfaSatisfied(p, mfa)
       /\ reviewer' = [reviewer EXCEPT
            ![r] = [pc |-> IF expired[p] THEN "expire" ELSE "decide",
                    p |-> p, approve |-> approve, mfa |-> mfa]]
  /\ UNCHANGED <<rows, outbox, expired, killed, caller, worker, history>>

ReviewExpires(r) ==
  LET p == reviewer[r].p IN
  /\ reviewer[r].pc = "expire"
  /\ proposal' = [proposal EXCEPT ![p] = "expired"]
  /\ reviewer' = [reviewer EXCEPT ![r] = IdleReviewer]
  /\ UNCHANGED <<executions, outbox, expired, killed, caller, worker, history>>

\* Mutant: a second append resets the event it finds.
AppendAgain(p) ==
  /\ eventStatus' = [eventStatus EXCEPT ![p] = "pending"]
  /\ due' = [due EXCEPT ![p] = TRUE]

\* A second append under the same key leaves the first event as it is.
AppendEvent(p) ==
  IF eventStatus[p] = "absent"
    THEN /\ eventStatus' = [eventStatus EXCEPT ![p] = "pending"]
         /\ due' = [due EXCEPT ![p] = TRUE]
    ELSE UNCHANGED <<eventStatus, due>>

\* The event is appended in the transaction of the approval.
Approve(r) ==
  LET p == reviewer[r].p IN
  /\ reviewer[r].pc = "decide" /\ reviewer[r].approve
  /\ proposal'   = [proposal EXCEPT ![p] = "approved"]
  /\ AppendEvent(p)
  /\ approvals'  = [approvals EXCEPT ![p] = @ + 1]
  /\ timely'     = [timely EXCEPT ![p] = IF expired[p] THEN @ ELSE @ + 1]
  /\ unverified' = [unverified EXCEPT ![p] = @ \/ ~reviewer[r].mfa]
  /\ reviewer'   = [reviewer EXCEPT ![r] = IdleReviewer]
  /\ UNCHANGED <<executions, attempts, run, expired, killed, caller, worker, claims,
                 effects>>

Reject(r) ==
  /\ reviewer[r].pc = "decide" /\ ~reviewer[r].approve
  /\ proposal' = [proposal EXCEPT ![reviewer[r].p] = "rejected"]
  /\ reviewer' = [reviewer EXCEPT ![r] = IdleReviewer]
  /\ UNCHANGED <<executions, outbox, expired, killed, caller, worker, history>>

ReviewStops(r) ==
  /\ reviewer[r].pc # "idle"
  /\ reviewer' = [reviewer EXCEPT ![r] = IdleReviewer]
  /\ UNCHANGED <<rows, outbox, expired, killed, caller, worker, history>>

-----------------------------------------------------------------------------
(* Dispatcher batches.  A batch expires pending proposals, lists the due   *)
(* events once, and works the list off; each event is claimed again by a   *)
(* conditional update, since another batch may have taken it.              *)

\* Mutant: failed events are not listed again.
ClaimableOnce(p) == eventStatus[p] = "pending" /\ due[p]

Claimable(p) == eventStatus[p] \in {"pending", "failed"} /\ due[p]

Moves(w, step) == pc' = [pc EXCEPT ![w] = step]

StartBatch(w) ==
  /\ pc[w] = "idle"
  /\ proposal' = [p \in Proposals |->
       IF proposal[p] = "pending" /\ expired[p] THEN "expired" ELSE proposal[p]]
  /\ Moves(w, "select")
  /\ UNCHANGED <<executions, outbox, expired, killed, caller, reviewer, local, history>>

SelectDue(w) ==
  /\ pc[w] = "select"
  /\ batch' = [batch EXCEPT ![w] = {p \in Proposals : Claimable(p)}]
  /\ Moves(w, "next")
  /\ UNCHANGED <<rows, outbox, expired, killed, caller, reviewer, held, seen, ok, history>>

EndBatch(w) ==
  /\ pc[w] = "next" /\ batch[w] = {}
  /\ Moves(w, "idle")
  /\ UNCHANGED <<rows, outbox, expired, killed, caller, reviewer, local, history>>

ClaimEvent(w, p) ==
  /\ pc[w] = "next" /\ p \in batch[w]
  /\ batch' = [batch EXCEPT ![w] = @ \ {p}]
  /\ IF Claimable(p)
       THEN /\ eventStatus' = [eventStatus EXCEPT ![p] = "publishing"]
            /\ attempts'    = [attempts EXCEPT ![p] = @ + 1]
            /\ held'        = [held EXCEPT ![w] = p]
            /\ Moves(w, "claimed")
       ELSE UNCHANGED <<eventStatus, attempts, held, pc>>
  /\ UNCHANGED <<rows, due, run, expired, killed, caller, reviewer, seen, ok, history>>

StartRun(w) ==
  /\ pc[w] = "claimed"
  /\ run' = [run EXCEPT ![held[w]] = "running"]
  /\ Moves(w, "read")
  /\ UNCHANGED <<rows, eventStatus, attempts, due, expired, killed, caller, reviewer,
                 local, history>>

-----------------------------------------------------------------------------
(* The handler of the event: the executor of an approved proposal.         *)

ReadProposal(w) ==
  /\ pc[w] = "read"
  /\ seen' = [seen EXCEPT ![w] = proposal[held[w]]]
  /\ Moves(w, "check")
  /\ UNCHANGED <<rows, outbox, expired, killed, caller, reviewer, held, ok, batch,
                 history>>

\* Mutants: the row's status, and its expiry, are not looked at.
RefusedByKillSwitchOnly(w) == killed
NeverLapsed(w) == FALSE

\* The kill switches are read; then the row that was read earlier decides.
Refused(w) == killed \/ seen[w] # "approved"
Lapsed(w)  == expired[held[w]]

Check(w) ==
  /\ pc[w] = "check"
  /\ Moves(w, IF Refused(w) THEN "handled" ELSE IF Lapsed(w) THEN "expire" ELSE "claim")
  /\ UNCHANGED <<rows, outbox, expired, killed, caller, reviewer, local, history>>

ExecutorExpires(w) ==
  /\ pc[w] = "expire"
  /\ proposal' = [proposal EXCEPT ![held[w]] = "expired"]
  /\ Moves(w, "handled")
  /\ UNCHANGED <<executions, outbox, expired, killed, caller, reviewer, local, history>>

ClaimProposal(w) ==
  LET p == held[w] IN
  /\ pc[w] = "claim"
  /\ IF proposal[p] = "approved"
       THEN /\ proposal' = [proposal EXCEPT ![p] = "executing"]
            /\ claims'   = [claims EXCEPT ![p] = @ + 1]
            /\ Moves(w, "record")
       ELSE /\ Moves(w, "handled")
            /\ UNCHANGED <<proposal, claims>>
  /\ UNCHANGED <<executions, outbox, expired, killed, caller, reviewer, local,
                 approvals, timely, unverified, effects>>

RecordExecution(w) ==
  /\ pc[w] = "record"
  /\ executions' = [executions EXCEPT ![held[w]] = Append(@, "running")]
  /\ Moves(w, "perform")
  /\ UNCHANGED <<proposal, outbox, expired, killed, caller, reviewer, local, history>>

\* A tool reports success, or a failure that may still have had its effect;
\* the transactions of cancel_booking and of the reimbursement are atomic.
Perform(w) ==
  LET p == held[w] IN
  /\ pc[w] = "perform"
  /\ \E succeeds \in BOOLEAN, done \in BOOLEAN :
       /\ succeeds => done
       /\ Risk[p] = "high_risk" => (done => succeeds)
       /\ ok'      = [ok EXCEPT ![w] = succeeds]
       /\ effects' = [effects EXCEPT ![p] = IF done THEN @ + 1 ELSE @]
  /\ Moves(w, "finish")
  /\ UNCHANGED <<rows, outbox, expired, killed, caller, reviewer, held, seen, batch,
                 approvals, timely, unverified, claims>>

Outcome(succeeded) == IF succeeded THEN "completed" ELSE "failed"

Finish(w) ==
  LET p == held[w] IN
  /\ pc[w] = "finish"
  /\ executions' = [executions EXCEPT
       ![p][Len(executions[p])] = IF ok[w] THEN "succeeded" ELSE "failed"]
  /\ proposal'   = [proposal EXCEPT ![p] = Outcome(ok[w])]
  /\ Moves(w, "handled")
  /\ UNCHANGED <<outbox, expired, killed, caller, reviewer, local, history>>

-----------------------------------------------------------------------------
(* Back in the dispatcher: success, failure, death.                        *)

HandlerSteps == {"read", "check", "expire", "claim", "record", "perform",
                 "finish", "handled"}

\* Mutant: the batch keeps hold of the event.
KeepsHold(w) ==
  /\ seen' = [seen EXCEPT ![w] = "absent"]
  /\ UNCHANGED <<held, ok>>

LetsGo(w) ==
  /\ held' = [held EXCEPT ![w] = None]
  /\ seen' = [seen EXCEPT ![w] = "absent"]
  /\ ok'   = [ok EXCEPT ![w] = FALSE]

Publish(w) ==
  LET p == held[w] IN
  /\ pc[w] = "handled"
  /\ eventStatus' = [eventStatus EXCEPT ![p] = "published"]
  /\ run'         = [run EXCEPT ![p] = "succeeded"]
  /\ Moves(w, "next") /\ LetsGo(w)
  /\ UNCHANGED <<rows, attempts, due, expired, killed, caller, reviewer, batch, history>>

\* Any statement of the handler, or the success transaction, throws.
HandlerThrows(w) ==
  /\ pc[w] \in HandlerSteps
  /\ Moves(w, "caught")
  /\ UNCHANGED <<rows, outbox, expired, killed, caller, reviewer, local, history>>

\* Mutant: one attempt more than the bound.
ExhaustedLate(p) == attempts[p] > MaxAttempts

Exhausted(p) == attempts[p] >= MaxAttempts

RecordFailure(w) ==
  LET p  == held[w]
      to == IF Exhausted(p) THEN "dead_letter" ELSE "failed"
  IN
  /\ pc[w] = "caught"
  /\ eventStatus' = [eventStatus EXCEPT ![p] = to]
  /\ run'         = [run EXCEPT ![p] = to]
  /\ due'         = [due EXCEPT ![p] = FALSE]
  /\ Moves(w, "next") /\ LetsGo(w)
  /\ UNCHANGED <<rows, attempts, expired, killed, caller, reviewer, batch, history>>

\* The worker process dies, or a statement outside the try block throws and
\* abandons the batch: nothing is written.
WorkerStops(w) ==
  /\ pc[w] # "idle"
  /\ Moves(w, "idle") /\ LetsGo(w)
  /\ batch' = [batch EXCEPT ![w] = {}]
  /\ UNCHANGED <<rows, outbox, expired, killed, caller, reviewer, history>>

-----------------------------------------------------------------------------
CallerStep(c) ==
  \/ \E p \in Proposals : LookUp(c, p)
  \/ Create(c) \/ CallerPerforms(c) \/ CallerRecords(c)
  \/ CallerRecordThrows(c) \/ CallerStops(c)

ReviewerStep(r) ==
  \/ \E p \in Proposals : OpenReview(r, p)
  \/ ReviewExpires(r) \/ Approve(r) \/ Reject(r) \/ ReviewStops(r)

Executes(w) ==
  \/ ReadProposal(w) \/ Check(w) \/ ExecutorExpires(w) \/ ClaimProposal(w)
  \/ RecordExecution(w) \/ Perform(w) \/ Finish(w)

Dispatches(w) ==
  \/ StartBatch(w) \/ SelectDue(w) \/ EndBatch(w)
  \/ \E p \in Proposals : ClaimEvent(w, p)
  \/ StartRun(w) \/ Publish(w) \/ RecordFailure(w)

WorkerStep(w) == Executes(w) \/ Dispatches(w) \/ HandlerThrows(w) \/ WorkerStops(w)

Environment ==
  \/ \E p \in Proposals : ProposalExpires(p) \/ BackoffElapses(p)
  \/ SetKillSwitch

Next ==
  \/ Environment
  \/ \E c \in Callers : CallerStep(c)
  \/ \E r \in Reviewers : ReviewerStep(r)
  \/ \E w \in Workers : WorkerStep(w)

Spec == Init /\ [][Next]_vars

\* The queue keeps starting batches and a live batch goes on; batches may die,
\* but not each time before they have listed and claimed a given due event.
Fairness ==
  /\ \A w \in Workers : WF_vars(Executes(w) \/ Dispatches(w))
  /\ \A w \in Workers : SF_vars(SelectDue(w))
  /\ \A w \in Workers, p \in Proposals : SF_vars(Claimable(p) /\ ClaimEvent(w, p))
  /\ \A p \in Proposals : WF_vars(BackoffElapses(p))

FairSpec == Spec /\ Fairness

-----------------------------------------------------------------------------
(* Properties.                                                             *)

\* Where a batch has no event in hand.
FreeSteps == {"idle", "select", "next"}

RowsOK ==
  /\ proposal \in [Proposals -> ProposalStatus]
  /\ expired \in [Proposals -> BOOLEAN]
  /\ executions \in [Proposals -> Seq(ExecutionStatus)]

OutboxOK ==
  /\ eventStatus \in [Proposals -> EventStatus]
  /\ attempts \in [Proposals -> Nat]
  /\ due \in [Proposals -> BOOLEAN]
  /\ run \in [Proposals -> RunStatus]

CallersOK ==
  /\ killed \in BOOLEAN
  /\ caller \in [Callers ->
       [pc : {"idle", "create", "perform", "complete", "fail"},
        p : Proposals \cup {None}, ok : BOOLEAN]]
  /\ \A c \in Callers : caller[c].pc # "idle" => caller[c].p \in Proposals

ReviewersOK ==
  /\ reviewer \in [Reviewers ->
       [pc : {"idle", "decide", "expire"}, p : Proposals \cup {None},
        approve : BOOLEAN, mfa : BOOLEAN]]
  /\ \A r \in Reviewers : reviewer[r].pc # "idle" => reviewer[r].p \in Proposals

BatchesOK ==
  /\ pc \in [Workers -> HandlerSteps \cup {"claimed", "caught"} \cup FreeSteps]
  /\ held \in [Workers -> Proposals \cup {None}]
  /\ \A w \in Workers : held[w] = None <=> pc[w] \in FreeSteps
  /\ seen \in [Workers -> ProposalStatus]
  /\ ok \in [Workers -> BOOLEAN]
  /\ batch \in [Workers -> SUBSET Proposals]

HistoryOK ==
  /\ approvals \in [Proposals -> Nat]
  /\ timely \in [Proposals -> Nat]
  /\ unverified \in [Proposals -> BOOLEAN]
  /\ claims \in [Proposals -> Nat]
  /\ effects \in [Proposals -> Nat]

\* Every variable keeps its type, and a batch holds a proposal exactly while it
\* is between the claim of its event and the record of the outcome.
TypeOK == RowsOK /\ OutboxOK /\ CallersOK /\ ReviewersOK /\ BatchesOK /\ HistoryOK

\* An event is in the hands of one batch at most, and while it is, the row says
\* so: overlapping batches with stale lists never handle an event twice at once.
OneHandlerPerEvent ==
  \A w \in Workers : held[w] # None =>
    /\ eventStatus[held[w]] = "publishing"
    /\ \A v \in Workers \ {w} : held[v] # held[w]

\* Every time an approval-bound action takes effect, it spends an approval of
\* its own that staff committed before the proposal expired, and no approval of
\* a high-risk action lacked recent MFA: late reviewers, retries of the event
\* and batches that overlap never let one approval act twice.
EffectsSpendTimelyApprovals ==
  \A p \in ApprovalBound :
    /\ effects[p] <= timely[p]
    /\ Risk[p] = "high_risk" => ~unverified[p]

\* Why it holds, for each approval-bound action: an approved row has an approval
\* not yet claimed, and only the one batch that holds the event claims it, so
\* what that batch read and checked still entitles it to claim and to act;
\* callers never act for such a row, and reviewers of high risk were verified.
ApprovalsCover ==
  \A p \in ApprovalBound :
    /\ proposal[p] = "approved" => claims[p] < approvals[p]
    /\ timely[p] <= approvals[p]
    /\ ~expired[p] => timely[p] = approvals[p]
    /\ claims[p] <= timely[p] /\ effects[p] <= claims[p]
    /\ Risk[p] = "high_risk" => ~unverified[p]

BatchesEntitled ==
  \A w \in Workers : held[w] \in ApprovalBound =>
    /\ pc[w] = "check" /\ seen[w] = "approved" => claims[held[w]] < approvals[held[w]]
    /\ pc[w] = "claim" => claims[held[w]] < timely[held[w]]
    /\ pc[w] \in {"record", "perform"} => effects[held[w]] < claims[held[w]]

CallersUnbound ==
  \A c \in Callers :
    caller[c].pc \in {"perform", "complete", "fail"} => caller[c].p \notin ApprovalBound

ReviewersVerified ==
  \A r \in Reviewers :
    reviewer[r].pc = "decide" /\ Risk[reviewer[r].p] = "high_risk" => reviewer[r].mfa

ApprovalInv ==
  TypeOK /\ OneHandlerPerEvent /\ ApprovalsCover /\ BatchesEntitled
         /\ CallersUnbound /\ ReviewersVerified

\* Governance implements the ledger of approvals: a timely approval is a grant,
\* a claim of an approval-bound proposal is a use, and no step of a caller, a
\* reviewer or a batch is both or moves two proposals.
Ledger == INSTANCE ApprovalLedger
            WITH Actions <- ApprovalBound,
                 granted <- [p \in ApprovalBound |-> timely[p]],
                 used    <- [p \in ApprovalBound |-> claims[p]]
ImplementsLedger == Ledger!Spec

\* A low-risk write, which needs no approval, happens at most once although
\* callers may repeat the tool call and race between lookup and create.
LowRiskActsOnce == \A p \in Proposals \ ApprovalBound : effects[p] <= 1

\* The event is dead-lettered by its MaxAttempts-th failure and by no other,
\* the staff-visible run agrees with the outbox row about the outcome, and the
\* outbox holds an event exactly when some approval was committed: a review
\* commits its event in the same transaction, whatever crashed.
OutboxAgrees ==
  \A p \in Proposals :
    /\ attempts[p] <= MaxAttempts
    /\ eventStatus[p] = "dead_letter" => attempts[p] = MaxAttempts
    /\ eventStatus[p] = "failed" => attempts[p] < MaxAttempts
    /\ eventStatus[p] \in {"failed", "dead_letter"} => run[p] = eventStatus[p]
    /\ eventStatus[p] = "published" <=> run[p] = "succeeded"
    /\ eventStatus[p] # "absent" <=> approvals[p] > 0

Held(p) == \E w \in Workers : held[w] = p

\* Every queued event is published or dead-lettered in the end, unless the
\* batch that had claimed it died.
EventsSettle ==
  \A p \in Proposals :
    eventStatus[p] = "pending" ~>
      \/ eventStatus[p] \in {"published", "dead_letter"}
      \/ eventStatus[p] = "publishing" /\ ~Held(p)

\* Violated: what the documentation says of the runner, "retries with bounded exponential
\* backoff": a claimed event does not stay claimed for ever.
PublishingIsTransient ==
  \A p \in Proposals :
    eventStatus[p] = "publishing" ~> eventStatus[p] # "publishing"

\* Violated: what the documentation says of the runner, "claims it idempotently": an
\* approved action is claimed for execution once.
ApprovedActionClaimedOnce == \A p \in ApprovalBound : claims[p] <= 1
=============================================================================
