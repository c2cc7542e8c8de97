--------------------------- MODULE TenantAccount ---------------------------
(***************************************************************************)
(* The commercial life of one workspace: its trial, its subscription at    *)
(* the payment provider, the ledger row that follows it through webhooks   *)
(* and hourly reconciliation, the administrative hold, the deletion        *)
(* requests and the purge after retention.  Webhook deliveries, the        *)
(* lifecycle scan and the calls of owners and operators run in threads,    *)
(* one database statement or provider call at a time.                      *)
(*                                                                         *)
(* The provider is external.  Its subscription is the sequence of the      *)
(* states it went through, and event i reports the i-th of them.  An event *)
(* may be delivered any number of times and in any order.                  *)
(***************************************************************************)
EXTENDS Naturals, Sequences

CONSTANTS Threads,      \* requests and scans that overlap
          States,       \* the states of the provider's subscription
          Menu,         \* the calls owners and operators make, and "time" if it passes
          MaxEvents, MaxRequests, MaxCalls, MaxFailures   \* bounds

Calls == {"checkout", "cancelNow", "manual", "suspendManual", "renewManual", "suspend", "reactivate", "extendTrial",
          "stopTrial", "requestDeletion", "ownerCancels", "operatorCancels",
          "retryDeletion", "reconcile"}

ASSUME AccountAssumption ==
  /\ States \subseteq {"authenticated", "active", "pending", "halted", "paused", "cancelled"}
  /\ "cancelled" \in States
  /\ Menu \subseteq Calls \cup {"time"}
  /\ MaxEvents \in Nat /\ MaxRequests \in Nat /\ MaxCalls \in Nat /\ MaxFailures \in Nat

VARIABLES
  status, hold, retention,   \* of the tenant row; when its data may go
  trial, manual,             \* the trial; the status of a subscription without provider
  offered, provider,         \* the provider has a subscription; its states
  ledger, last,              \* status of the subscription row; time of its last event
  event, invoiced,           \* rows of events; events that have an invoice
  passed,                    \* events marked as processed without being applied
  deletion, data,            \* deletion requests; the tenant's database
  grounds,                   \* why the data may go: the retention ran out while the
                             \* tenant was locked, or an operator suspended it
  pc, seen,                  \* the next step of each thread, and what it read
  calls, failures

tenant == <<status, hold, retention, grounds>>
access == <<trial, manual>>
remote == <<offered, provider>>
row    == <<ledger, last>>
events == <<event, invoiced, passed>>
purge  == <<deletion, data>>
thread == <<pc, seen>>
bounds == <<calls, failures>>
vars   == <<tenant, access, remote, row, events, purge, thread, bounds>>

Events   == 1..MaxEvents
Requests == 1..MaxRequests

\* Event i has the time 2 * i; a reconciliation stamps the odd time in between.
TimeOf(e) == 2 * e
Now == 2 * Len(provider) + 1

ProviderStatus == IF provider = <<>> THEN "created" ELSE provider[Len(provider)]

\* A completed subscription is mapped and handled like a halted one.
Mapped(p) ==
  CASE p \in {"active", "authenticated"} -> "active"
    [] p = "pending"   -> "past_due"
    [] p = "cancelled" -> "cancelled"
    [] OTHER           -> "suspended"

Scheduled == {r \in Requests : deletion[r] = "scheduled"}
Free == {r \in Requests : deletion[r] = "none"}
Live == {r \in Requests : deletion[r] \in {"scheduled", "due", "processing"}}

\* What resolveTenantRuntime lets in.
Paid == ledger = "active" \/ manual = "active"
Access == trial = "running" \/ Paid
Accessible == status = "active" /\ Access

Blank == [event |-> 0, ok |-> FALSE, request |-> 0, mapped |-> "none", locked |-> FALSE]

Steps == {"idle", "createEvent", "readRow", "activate", "invoice", "pastDue", "endRow",
          "countOthers", "lock", "mark",
          "endTrial", "lockLapsed", "listRetained", "readDeletion", "markDeletion",
          "setDeleting", "purge", "finish", "failDeletion", "unlock",
          "listLedger", "fetch", "readHold", "updateRow", "open", "countRest", "lockRest",
          "createRow", "cancelRow", "openTrial", "openManual",
          "cancelDeletion"} \cup Calls

TypeOK ==
  /\ status \in {"active", "suspended", "deleting", "deleted"}
  /\ hold \in BOOLEAN /\ offered \in BOOLEAN
  /\ grounds \subseteq {"retention", "suspension"}
  /\ retention \in {"none", "ahead", "over"}
  /\ trial \in {"running", "lapsed", "ended"}
  /\ manual \in {"none", "active", "suspended"}
  /\ provider \in Seq(States)
  /\ Len(provider) <= MaxEvents
  /\ ledger \in {"none", "active", "past_due", "suspended", "cancelled"}
  /\ last \in 0..(2 * MaxEvents + 1)
  /\ event \in [Events -> {"none", "received", "processed"}]
  /\ invoiced \subseteq Events /\ passed \subseteq Events
  /\ deletion \in [Requests -> {"none", "scheduled", "due", "processing", "failed",
                                "cancelled", "completed"}]
  /\ data \in {"kept", "purged"}
  /\ pc \in [Threads -> Steps]
  /\ seen \in [Threads -> [event: 0..MaxEvents, ok: BOOLEAN, request: 0..MaxRequests,
                           mapped: {"none", "active", "past_due", "suspended", "cancelled"},
                           locked: BOOLEAN]]
  /\ calls \in 0..MaxCalls /\ failures \in 0..MaxFailures

\* A workspace that was just provisioned.
Init ==
  /\ status = "active" /\ hold = FALSE /\ retention = "none" /\ grounds = {}
  /\ trial = "running" /\ manual = "none"
  /\ offered = FALSE /\ provider = <<>>
  /\ ledger = "none" /\ last = 0
  /\ event = [e \in Events |-> "none"] /\ invoiced = {} /\ passed = {}
  /\ deletion = [r \in Requests |-> "none"] /\ data = "kept"
  /\ pc = [t \in Threads |-> "idle"] /\ seen = [t \in Threads |-> Blank]
  /\ calls = 0 /\ failures = 0

-----------------------------------------------------------------------------
\* Control of the threads, and the writes to the tenant row they share

Goes(t, step) == pc' = [pc EXCEPT ![t] = step] /\ UNCHANGED seen
Keeps(t, step, s) == pc' = [pc EXCEPT ![t] = step] /\ seen' = [seen EXCEPT ![t] = s]
Ends(t) == Keeps(t, "idle", Blank)

Opens == status' = "active" /\ retention' = "none" /\ UNCHANGED <<hold, grounds>>
OpensKeepingDates == status' = "active" /\ UNCHANGED <<hold, retention, grounds>>
LocksForNinetyDays == status' = "suspended" /\ retention' = "ahead" /\ UNCHANGED <<hold, grounds>>

-----------------------------------------------------------------------------
\* Time and the provider

Follows(p) ==
  CASE p = "created"       -> {"authenticated", "active", "cancelled"}
    [] p = "authenticated" -> {"active", "cancelled"}
    [] p = "active"        -> {"active", "pending", "paused", "cancelled"}
    [] p = "pending"       -> {"active", "halted", "cancelled"}
    [] p = "halted"        -> {"active", "cancelled"}
    [] p = "paused"        -> {"active", "cancelled"}
    [] OTHER               -> {}

ProviderMoves ==
  /\ offered /\ Len(provider) < MaxEvents
  /\ \E p \in Follows(ProviderStatus) \cap States : provider' = Append(provider, p)
  /\ UNCHANGED <<tenant, access, offered, row, events, purge, thread, bounds>>

TrialLapses ==
  /\ "time" \in Menu
  /\ trial = "running" /\ trial' = "lapsed"
  /\ UNCHANGED <<tenant, manual, remote, row, events, purge, thread, bounds>>

RequestFallsDue(r) ==
  /\ deletion[r] = "scheduled"
  /\ deletion' = [deletion EXCEPT ![r] = "due"]
  /\ UNCHANGED <<tenant, access, remote, row, events, data, thread, bounds>>

\* A request sets the retention to its own date, and every later lock to one
\* after it: the retention never ends before a request falls due.
RetentionRunsOut ==
  /\ "time" \in Menu
  /\ retention = "ahead"
  /\ Scheduled = {}
  /\ retention' = "over"
  /\ grounds' = IF status = "suspended" THEN grounds \cup {"retention"} ELSE grounds
  /\ UNCHANGED <<status, hold, access, remote, row, events, purge, thread, bounds>>

-----------------------------------------------------------------------------
\* processWebhook

\* The event's row is looked up; a processed one is a duplicate.
Deliver(t, e) ==
  /\ pc[t] = "idle" /\ e <= Len(provider)
  /\ event[e] # "processed"
  /\ Keeps(t, IF event[e] = "none" THEN "createEvent" ELSE "readRow",
           [Blank EXCEPT !.event = e])
  /\ UNCHANGED <<tenant, access, remote, row, events, purge, bounds>>

CreateEventProcessed(t) ==
  LET e == seen[t].event IN
  /\ pc[t] = "createEvent"
  /\ IF event[e] = "none"
       THEN event' = [event EXCEPT ![e] = "processed"] /\ Goes(t, "readRow")
       ELSE UNCHANGED event /\ Ends(t)
  /\ UNCHANGED <<tenant, access, remote, row, invoiced, passed, purge, bounds>>

\* The event's identifier is unique: of two deliveries one throws.
CreateEvent(t) ==
  LET e == seen[t].event IN
  /\ pc[t] = "createEvent"
  /\ IF event[e] = "none"
       THEN event' = [event EXCEPT ![e] = "received"] /\ Goes(t, "readRow")
       ELSE UNCHANGED event /\ Ends(t)
  /\ UNCHANGED <<tenant, access, remote, row, invoiced, passed, purge, bounds>>

Stale(e) == last > TimeOf(e)

\* What is authenticated or paused is no event the handler knows.
Handler(p) ==
  CASE p = "active"  -> "activate"
    [] p = "pending" -> "pastDue"
    [] p \in {"halted", "cancelled"} -> "endRow"
    [] OTHER         -> "mark"

ReadRow(t) ==
  LET e == seen[t].event IN
  /\ pc[t] = "readRow"
  /\ IF ledger = "none" \/ Stale(e)
       THEN passed' = passed \cup {e} /\ Goes(t, "mark")
       ELSE UNCHANGED passed /\ Goes(t, Handler(provider[e]))
  /\ UNCHANGED <<tenant, access, remote, row, event, invoiced, purge, bounds>>

\* One transaction; a workspace on hold stays as it is.
Activate(t) ==
  /\ pc[t] = "activate"
  /\ ledger' = "active" /\ last' = TimeOf(seen[t].event)
  /\ IF hold THEN UNCHANGED tenant ELSE Opens
  /\ trial' = "ended"
  /\ Goes(t, "invoice")
  /\ UNCHANGED <<manual, remote, events, purge, bounds>>

\* An upsert under the event's identifier.
Invoice(t) ==
  /\ pc[t] = "invoice"
  /\ invoiced' = invoiced \cup {seen[t].event}
  /\ Goes(t, "mark")
  /\ UNCHANGED <<tenant, access, remote, row, event, passed, purge, bounds>>

PastDue(t) ==
  /\ pc[t] = "pastDue"
  /\ ledger' = "past_due" /\ last' = TimeOf(seen[t].event)
  /\ Goes(t, "mark")
  /\ UNCHANGED <<tenant, access, remote, events, purge, bounds>>

EndRow(t) ==
  /\ pc[t] = "endRow"
  /\ ledger' = Mapped(provider[seen[t].event]) /\ last' = TimeOf(seen[t].event)
  /\ Goes(t, "countOthers")
  /\ UNCHANGED <<tenant, access, remote, events, purge, bounds>>

CountOthers(t) ==
  /\ pc[t] = "countOthers"
  /\ Goes(t, IF manual = "active" THEN "mark" ELSE "lock")
  /\ UNCHANGED <<tenant, access, remote, row, events, purge, bounds>>

Lock(t) ==
  /\ pc[t] = "lock"
  /\ LocksForNinetyDays
  /\ Goes(t, "mark")
  /\ UNCHANGED <<access, remote, row, events, purge, bounds>>

MarkProcessed(t) ==
  /\ pc[t] = "mark"
  /\ event' = [event EXCEPT ![seen[t].event] = "processed"]
  /\ Ends(t)
  /\ UNCHANGED <<tenant, access, remote, row, invoiced, passed, purge, bounds>>

Webhook(t) ==
  \/ CreateEvent(t) \/ ReadRow(t) \/ Activate(t) \/ Invoice(t) \/ PastDue(t)
  \/ EndRow(t) \/ CountOthers(t) \/ Lock(t) \/ MarkProcessed(t)

-----------------------------------------------------------------------------
\* The hourly scan: trials that ended, retention that ran out, reconciliation

\* The Redis lock keeps scans apart, but not an operator's reconciliation, which
\* takes no lock. Lapsed trials are listed with what is paid.
Scan(t) ==
  /\ pc[t] = "idle"
  /\ \A u \in Threads : ~seen[u].locked
  /\ Keeps(t, IF trial = "lapsed" THEN "endTrial" ELSE "listRetained",
           [Blank EXCEPT !.ok = (trial = "lapsed" /\ Paid), !.locked = TRUE])
  /\ UNCHANGED <<tenant, access, remote, row, events, purge, bounds>>

EndTrial(t) ==
  /\ pc[t] = "endTrial"
  /\ trial' = "ended"
  /\ Goes(t, IF seen[t].ok THEN "listRetained" ELSE "lockLapsed")
  /\ UNCHANGED <<tenant, manual, remote, row, events, purge, bounds>>

LockLapsed(t) ==
  /\ pc[t] = "lockLapsed"
  /\ LocksForNinetyDays
  /\ Goes(t, "listRetained")
  /\ UNCHANGED <<access, remote, row, events, purge, bounds>>

RetentionEnded == status = "suspended" /\ retention = "over"

ListRetained(t) ==
  /\ pc[t] = "listRetained"
  /\ Goes(t, IF RetentionEnded THEN "readDeletion" ELSE "listLedger")
  /\ UNCHANGED <<tenant, access, remote, row, events, purge, bounds>>

\* Any live request is found; one whose date is ahead spares the workspace.
ReadDeletion(t) ==
  /\ pc[t] = "readDeletion"
  /\ \/ /\ Live = {}
        /\ Goes(t, "setDeleting")
     \/ \E r \in Live :
          IF deletion[r] = "scheduled"
            THEN Goes(t, "listLedger")
            ELSE Keeps(t, "markDeletion", [seen[t] EXCEPT !.request = r])
  /\ UNCHANGED <<tenant, access, remote, row, events, purge, bounds>>

MarkDeletion(t) ==
  /\ pc[t] = "markDeletion"
  /\ deletion' = [deletion EXCEPT ![seen[t].request] = "processing"]
  /\ Goes(t, "setDeleting")
  /\ UNCHANGED <<tenant, access, remote, row, events, data, bounds>>

SetDeleting(t) ==
  /\ pc[t] = "setDeleting"
  /\ status' = "deleting"
  /\ Goes(t, "purge")
  /\ UNCHANGED <<hold, retention, grounds, access, remote, row, events, purge, bounds>>

Purge(t) ==
  /\ pc[t] = "purge"
  /\ data' = "purged"
  /\ Goes(t, "finish")
  /\ UNCHANGED <<tenant, access, remote, row, events, deletion, bounds>>

\* It may fail before or after the database is dropped.
PurgeFails(t) ==
  /\ pc[t] = "purge" /\ failures < MaxFailures
  /\ failures' = failures + 1
  /\ data' \in {data, "purged"}
  /\ Goes(t, "failDeletion")
  /\ UNCHANGED <<tenant, access, remote, row, events, deletion, calls>>

FinishPurge(t) ==
  /\ pc[t] = "finish"
  /\ status' = "deleted"
  /\ deletion' = [r \in Requests |-> IF deletion[r] = "none" THEN "none" ELSE "completed"]
  /\ Goes(t, "listLedger")
  /\ UNCHANGED <<hold, retention, grounds, access, remote, row, events, data, bounds>>

FailDeletion(t) ==
  LET r == seen[t].request IN
  /\ pc[t] = "failDeletion"
  /\ deletion' = IF r = 0 THEN deletion ELSE [deletion EXCEPT ![r] = "failed"]
  /\ Goes(t, "unlock")
  /\ UNCHANGED <<tenant, access, remote, row, events, data, bounds>>

\* The error goes on: this scan does not reconcile.
Unlock(t) ==
  /\ pc[t] = "unlock"
  /\ status' = "suspended"
  /\ Ends(t)
  /\ UNCHANGED <<hold, retention, grounds, access, remote, row, events, purge, bounds>>

ReconciledPaid == {"active", "past_due"}
Reconciled == {"active", "past_due", "suspended"}

ListLedger(t) ==
  /\ pc[t] \in {"listLedger", "reconcile"}
  /\ IF ledger \in Reconciled
       THEN Keeps(t, "fetch", [Blank EXCEPT !.mapped = ledger, !.locked = seen[t].locked])
       ELSE Ends(t)
  /\ UNCHANGED <<tenant, access, remote, row, events, purge, bounds>>

Fetch(t) ==
  /\ pc[t] = "fetch"
  /\ IF Mapped(ProviderStatus) = seen[t].mapped
       THEN Ends(t)
       ELSE Keeps(t, "readHold", [seen[t] EXCEPT !.mapped = Mapped(ProviderStatus)])
  /\ UNCHANGED <<tenant, access, remote, row, events, purge, bounds>>

ReadHold(t) ==
  /\ pc[t] = "readHold"
  /\ Keeps(t, "updateRow", [seen[t] EXCEPT !.ok = ~hold])
  /\ UNCHANGED <<tenant, access, remote, row, events, purge, bounds>>

UpdateRowRaw(t) ==
  /\ pc[t] = "updateRow"
  /\ ledger' = ProviderStatus /\ last' = Now
  /\ Goes(t, IF seen[t].mapped = "active" /\ seen[t].ok THEN "open" ELSE "countRest")
  /\ UNCHANGED <<tenant, access, remote, events, purge, bounds>>

UpdateRow(t) ==
  /\ pc[t] = "updateRow"
  /\ ledger' = seen[t].mapped /\ last' = Now
  /\ Goes(t, IF seen[t].mapped = "active" /\ seen[t].ok THEN "open" ELSE "countRest")
  /\ UNCHANGED <<tenant, access, remote, events, purge, bounds>>

OpenReconciled(t) ==
  /\ pc[t] = "open"
  /\ Opens
  /\ Ends(t)
  /\ UNCHANGED <<access, remote, row, events, purge, bounds>>

CountRest(t) ==
  /\ pc[t] = "countRest"
  /\ IF manual = "active" THEN Ends(t) ELSE Goes(t, "lockRest")
  /\ UNCHANGED <<tenant, access, remote, row, events, purge, bounds>>

LockKeepingDates(t) ==
  /\ pc[t] = "lockRest"
  /\ status' = "suspended"
  /\ Ends(t)
  /\ UNCHANGED <<hold, retention, grounds, access, remote, row, events, purge, bounds>>

LockReconciled(t) ==
  /\ pc[t] = "lockRest"
  /\ LocksForNinetyDays
  /\ Ends(t)
  /\ UNCHANGED <<access, remote, row, events, purge, bounds>>

ScanGoesOn(t) ==
  \/ EndTrial(t) \/ LockLapsed(t) \/ ListRetained(t) \/ ReadDeletion(t)
  \/ MarkDeletion(t) \/ SetDeleting(t) \/ Purge(t) \/ FinishPurge(t)
  \/ FailDeletion(t) \/ Unlock(t) \/ ListLedger(t) \/ Fetch(t) \/ ReadHold(t)
  \/ UpdateRow(t) \/ OpenReconciled(t) \/ CountRest(t) \/ LockReconciled(t)

-----------------------------------------------------------------------------
\* Calls of owners and operators: each reads and checks, then writes

\* What each call looks at before it goes on. The one who calls read the page
\* before, and its version is only compared with the row read here.
Refuses(op) ==
  CASE op = "checkout"   -> offered
    [] op = "cancelNow"  -> ledger \notin {"active", "past_due"}
    [] op = "manual"     -> manual # "none"
    [] op \in {"suspendManual", "renewManual"} -> manual = "none"
    [] op = "suspend"    -> status \in {"deleting", "deleted"}
    [] op = "reactivate" -> Live # {} \/ ~Access
    [] op = "requestDeletion" -> Live # {} \/ Free = {}
    [] op \in {"ownerCancels", "operatorCancels"} -> Scheduled = {}
    [] op = "retryDeletion" -> \A r \in Requests : deletion[r] # "failed"
    [] OTHER -> FALSE

\* The request a call is about: a cancellation takes the latest one.
About(op) ==
  CASE op \in {"ownerCancels", "operatorCancels"} ->
         {r \in Scheduled : \A q \in Scheduled : q <= r}
    [] op = "retryDeletion" -> {r \in Requests : deletion[r] = "failed"}
    [] OTHER -> {0}

\* What the call remembers: whether the workspace may be opened.
MayOpen(op) ==
  ~hold /\ (op = "operatorCancels" => Access)

Begin(t, op) ==
  /\ pc[t] = "idle" /\ calls < MaxCalls
  /\ ~Refuses(op)
  /\ calls' = calls + 1
  /\ \E r \in About(op) :
       Keeps(t, op, [Blank EXCEPT !.request = r, !.ok = MayOpen(op)])
  /\ UNCHANGED <<tenant, access, remote, row, events, purge, failures>>

\* The provider's subscription comes first, the row after it.
Checkout(t) ==
  /\ pc[t] = "checkout"
  /\ offered' = TRUE
  /\ Goes(t, "createRow")
  /\ UNCHANGED <<tenant, access, provider, row, events, purge, bounds>>

CreateRow(t) ==
  /\ pc[t] = "createRow"
  /\ ledger' = "suspended"
  /\ Ends(t)
  /\ UNCHANGED <<tenant, access, remote, last, events, purge, bounds>>

\* The provider refuses to cancel what is cancelled.
CancelNow(t) ==
  /\ pc[t] = "cancelNow"
  /\ IF ProviderStatus # "cancelled" /\ Len(provider) < MaxEvents
       THEN provider' = Append(provider, "cancelled") /\ Goes(t, "cancelRow")
       ELSE UNCHANGED provider /\ Ends(t)
  /\ UNCHANGED <<tenant, access, offered, row, events, purge, bounds>>

CancelRow(t) ==
  /\ pc[t] = "cancelRow"
  /\ ledger' = "cancelled"
  /\ Goes(t, "lockRest")
  /\ UNCHANGED <<tenant, access, remote, last, events, purge, bounds>>

CreateManual(t) ==
  /\ pc[t] = "manual"
  /\ manual' = "active"
  /\ IF seen[t].ok THEN Goes(t, "openManual") ELSE Ends(t)
  /\ UNCHANGED <<tenant, trial, remote, row, events, purge, bounds>>

\* Suspending or renewing the subscription leaves the workspace as it is.
ChangeManual(t) ==
  /\ pc[t] \in {"suspendManual", "renewManual"}
  /\ manual' = IF pc[t] = "renewManual" THEN "active" ELSE "suspended"
  /\ Ends(t)
  /\ UNCHANGED <<tenant, trial, remote, row, events, purge, bounds>>

ExtendTrial(t) ==
  /\ pc[t] = "extendTrial"
  /\ trial' = "running"
  /\ IF seen[t].ok THEN Goes(t, "openTrial") ELSE Ends(t)
  /\ UNCHANGED <<tenant, manual, remote, row, events, purge, bounds>>

OpenWorkspace(t) ==
  /\ pc[t] \in {"openManual", "openTrial"}
  /\ OpensKeepingDates
  /\ Ends(t)
  /\ UNCHANGED <<access, remote, row, events, purge, bounds>>

StopTrial(t) ==
  /\ pc[t] = "stopTrial"
  /\ trial' = "ended"
  /\ Ends(t)
  /\ UNCHANGED <<tenant, manual, remote, row, events, purge, bounds>>

Suspend(t) ==
  /\ pc[t] = "suspend"
  /\ status' = "suspended" /\ hold' = TRUE
  /\ grounds' = grounds \cup {"suspension"}
  /\ Ends(t)
  /\ UNCHANGED <<retention, access, remote, row, events, purge, bounds>>

Reactivate(t) ==
  /\ pc[t] = "reactivate"
  /\ status' = "active" /\ hold' = FALSE /\ retention' = "none"
  /\ Ends(t)
  /\ UNCHANGED <<grounds, access, remote, row, events, purge, bounds>>

\* The request and the lock are one transaction; its date is the retention's.
RequestDeletion(t) ==
  /\ pc[t] = "requestDeletion"
  /\ \E r \in Free :
       /\ \A q \in Free : r <= q
       /\ deletion' = [deletion EXCEPT ![r] = "scheduled"]
  /\ LocksForNinetyDays
  /\ Ends(t)
  /\ UNCHANGED <<access, remote, row, events, data, bounds>>

\* The owner's cancellation reads the workspace after the request, and does
\* not look at the hold.
ReadAccess(t) ==
  /\ pc[t] = "ownerCancels"
  /\ Keeps(t, "cancelDeletion", [seen[t] EXCEPT !.ok = Access])
  /\ UNCHANGED <<tenant, access, remote, row, events, purge, bounds>>

CancelDeletion(t) ==
  /\ pc[t] \in {"cancelDeletion", "operatorCancels"}
  /\ deletion' = [deletion EXCEPT ![seen[t].request] = "cancelled"]
  /\ IF seen[t].ok THEN Opens ELSE LocksForNinetyDays
  /\ Ends(t)
  /\ UNCHANGED <<access, remote, row, events, data, bounds>>

RetryDeletion(t) ==
  /\ pc[t] = "retryDeletion"
  /\ deletion' = [deletion EXCEPT ![seen[t].request] = "due"]
  /\ status' = "suspended" /\ retention' = "over"
  /\ grounds' = grounds \cup {"retention"}
  /\ Ends(t)
  /\ UNCHANGED <<hold, access, remote, row, events, data, bounds>>

CallGoesOn(t) ==
  \/ Checkout(t) \/ CreateRow(t) \/ CancelNow(t) \/ CancelRow(t) \/ CreateManual(t)
  \/ ChangeManual(t)
  \/ ExtendTrial(t) \/ StopTrial(t) \/ OpenWorkspace(t) \/ Suspend(t) \/ Reactivate(t)
  \/ RequestDeletion(t) \/ ReadAccess(t) \/ CancelDeletion(t)
  \/ RetryDeletion(t)

-----------------------------------------------------------------------------
\* A process dies, or a statement throws, and the thread is gone.
Dies(t) ==
  /\ pc[t] # "idle" /\ failures < MaxFailures
  /\ failures' = failures + 1
  /\ Ends(t)
  /\ UNCHANGED <<tenant, access, remote, row, events, purge, calls>>

GoesOn(t) == Webhook(t) \/ ScanGoesOn(t) \/ CallGoesOn(t)

Next ==
  \/ ProviderMoves \/ TrialLapses \/ RetentionRunsOut
  \/ \E r \in Requests : RequestFallsDue(r)
  \/ \E t \in Threads :
       \/ GoesOn(t) \/ Scan(t) \/ PurgeFails(t) \/ Dies(t)
       \/ \E e \in Events : Deliver(t, e)
       \/ \E op \in Menu \cap Calls : Begin(t, op)

Spec == Init /\ [][Next]_vars

\* Threads go on, the scan comes back, and the provider repeats an event until
\* it was processed.
FairSpec ==
  /\ Spec
  /\ \A t \in Threads : WF_vars(GoesOn(t))
  /\ SF_vars(\E t \in Threads : Scan(t))
  /\ \A e \in Events : SF_vars(\E t \in Threads : Deliver(t, e))

-----------------------------------------------------------------------------
\* Properties

\* A charge that was processed has its invoice, whatever dies in between and
\* however often it is delivered, unless it was passed over.
ChargesInvoiced ==
  \A e \in Events :
    (event[e] = "processed" /\ provider[e] = "active") => e \in invoiced \cup passed

\* "Scheduled reconciliation updates the internal entitlement ledger": whatever
\* the order and overlap of deliveries, scans and calls, the row comes to agree
\* with the provider.
LedgerConverges == <>[](ledger = "none" \/ ledger = Mapped(ProviderStatus))

\* The data of a workspace is purged only if its retention ran out while it was
\* locked: whatever locks it, at whatever moment of another call, must start a
\* new retention. An operator's suspension does not, and is excepted.
PurgeHasGrounds == data = "purged" => grounds # {}

\* Violated: a workspace with a deletion ahead is locked.
LockedWhileScheduled == Scheduled # {} => ~Accessible

\* Violated: a billing success never opens a workspace on hold.
HoldKept == hold => status # "active"
=============================================================================
