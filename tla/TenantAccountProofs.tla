------------------------- MODULE TenantAccountProofs -------------------------
(***************************************************************************)
(* Theorems about TenantAccount, for any threads, calls and bounds.  The   *)
(* grounds of a purge are never withdrawn, so that what the scan saw when  *)
(* it listed the workspace still counts when it drops the database; and an *)
(* event of the provider never changes, so that what a delivery read of it *)
(* still holds when it marks the event as processed.                       *)
(***************************************************************************)
EXTENDS TenantAccount, TLAPS

SeenRecord == [event: 0..MaxEvents, ok: BOOLEAN, request: 0..MaxRequests,
               mapped: {"none", "active", "past_due", "suspended", "cancelled"},
               locked: BOOLEAN]

\* The type invariant by groups of variables.
TenantTypes ==
  /\ status \in {"active", "suspended", "deleting", "deleted"}
  /\ hold \in BOOLEAN
  /\ retention \in {"none", "ahead", "over"}
  /\ grounds \subseteq {"retention", "suspension"}
AccessTypes ==
  /\ trial \in {"running", "lapsed", "ended"}
  /\ manual \in {"none", "active", "suspended"}
RemoteTypes ==
  /\ offered \in BOOLEAN
  /\ provider \in Seq(States)
  /\ Len(provider) <= MaxEvents
RowTypes ==
  /\ ledger \in {"none", "active", "past_due", "suspended", "cancelled"}
  /\ last \in 0..(2 * MaxEvents + 1)
EventTypes ==
  /\ event \in [Events -> {"none", "received", "processed"}]
  /\ invoiced \subseteq Events /\ passed \subseteq Events
PurgeTypes ==
  /\ deletion \in [Requests -> {"none", "scheduled", "due", "processing", "failed",
                                "cancelled", "completed"}]
  /\ data \in {"kept", "purged"}
ThreadTypes ==
  /\ pc \in [Threads -> Steps]
  /\ seen \in [Threads -> SeenRecord]
BoundTypes == calls \in 0..MaxCalls /\ failures \in 0..MaxFailures

-----------------------------------------------------------------------------
\* The steps of a scan that has found the workspace listed for its purge.
PurgeSteps == {"readDeletion", "markDeletion", "setDeleting", "purge", "finish",
               "failDeletion", "unlock"}

\* Whoever is about to purge, or may be led to it by what the row says, has grounds.
GroundsHold ==
  /\ RetentionEnded => grounds # {}
  /\ \A t \in Threads : pc[t] \in PurgeSteps => grounds # {}
  /\ PurgeHasGrounds

\* The steps of a delivery that has looked its event up.
HookSteps == {"createEvent", "readRow", "activate", "invoice", "pastDue", "endRow",
              "countOthers", "lock", "mark"}
NotCharged == {"pastDue", "endRow", "countOthers", "lock"}

\* An event the provider has reported and that needs nothing more.
Accounted(e) ==
  e \in DOMAIN provider /\ (provider[e] = "active" => e \in invoiced \cup passed)

EventsFollowed ==
  /\ \A e \in Events : event[e] = "processed" => Accounted(e)
  /\ \A t \in Threads :
       /\ pc[t] \in HookSteps => seen[t].event \in DOMAIN provider
       /\ pc[t] \in NotCharged => provider[seen[t].event] # "active"
       /\ pc[t] = "mark" => Accounted(seen[t].event)

IInv == TypeOK /\ GroundsHold /\ EventsFollowed
-----------------------------------------------------------------------------
(* The threads. *)

LEMMA Types ==
  TypeOK <=> /\ TenantTypes /\ AccessTypes /\ RemoteTypes /\ RowTypes
             /\ EventTypes /\ PurgeTypes /\ ThreadTypes /\ BoundTypes
BY DEF TypeOK, TenantTypes, AccessTypes, RemoteTypes, RowTypes, EventTypes, PurgeTypes,
       ThreadTypes, BoundTypes, SeenRecord

LEMMA TypesNext ==
  ASSUME TenantTypes', AccessTypes', RemoteTypes', RowTypes',
         EventTypes', PurgeTypes', ThreadTypes', BoundTypes'
  PROVE  TypeOK'
BY DEF TypeOK, TenantTypes, AccessTypes, RemoteTypes, RowTypes, EventTypes, PurgeTypes,
       ThreadTypes, BoundTypes, SeenRecord

LEMMA KeptTypes ==
  ASSUME TypeOK
  PROVE  /\ UNCHANGED tenant => TenantTypes'
         /\ UNCHANGED access => AccessTypes'
         /\ UNCHANGED remote => RemoteTypes'
         /\ UNCHANGED row    => RowTypes'
         /\ UNCHANGED events => EventTypes'
         /\ UNCHANGED purge  => PurgeTypes'
         /\ UNCHANGED thread => ThreadTypes'
         /\ UNCHANGED bounds => BoundTypes'
BY Types DEF tenant, access, remote, row, events, purge, thread, bounds, TenantTypes,
   AccessTypes, RemoteTypes, RowTypes, EventTypes, PurgeTypes, ThreadTypes, BoundTypes

LEMMA GoesTo ==
  ASSUME TypeOK, NEW t \in Threads, NEW step \in Steps, Goes(t, step)
  PROVE  /\ ThreadTypes'
         /\ pc'[t] = step /\ seen' = seen
         /\ \A u \in Threads \ {t} : pc'[u] = pc[u]
BY Types DEF Goes, ThreadTypes

LEMMA KeepsTo ==
  ASSUME TypeOK, NEW t \in Threads, NEW step \in Steps, NEW s \in SeenRecord, Keeps(t, step, s)
  PROVE  /\ ThreadTypes'
         /\ pc'[t] = step /\ seen'[t] = s
         /\ \A u \in Threads \ {t} : pc'[u] = pc[u] /\ seen'[u] = seen[u]
BY Types DEF Keeps, ThreadTypes

LEMMA Blanks ==
  ASSUME TypeOK
  PROVE  /\ Blank \in SeenRecord
         /\ \A e \in Events : [Blank EXCEPT !.event = e] \in SeenRecord
         /\ \A b \in BOOLEAN, r \in 0..MaxRequests :
              [Blank EXCEPT !.request = r, !.ok = b] \in SeenRecord
         /\ \A b \in BOOLEAN : [Blank EXCEPT !.ok = b, !.locked = TRUE] \in SeenRecord
         /\ \A p \in {"none", "active", "past_due", "suspended", "cancelled"}, b \in BOOLEAN :
              [Blank EXCEPT !.mapped = p, !.locked = b] \in SeenRecord
<1>1. Blank \in SeenRecord
  BY AccountAssumption DEF Blank, SeenRecord
<1>2. Events \subseteq 0..MaxEvents
  BY AccountAssumption DEF Events
<1> QED BY <1>1, <1>2 DEF SeenRecord

LEMMA EndsTo ==
  ASSUME TypeOK, NEW t \in Threads, Ends(t)
  PROVE  /\ ThreadTypes'
         /\ pc'[t] = "idle" /\ seen'[t] = Blank
         /\ \A u \in Threads \ {t} : pc'[u] = pc[u] /\ seen'[u] = seen[u]
<1>1. "idle" \in Steps
  BY DEF Steps
<1> QED BY <1>1, Blanks, KeepsTo DEF Ends

LEMMA Reads ==
  ASSUME TypeOK, NEW t \in Threads
  PROVE  /\ seen[t] \in SeenRecord /\ pc[t] \in Steps
         /\ \A b \in BOOLEAN : [seen[t] EXCEPT !.ok = b] \in SeenRecord
         /\ \A r \in 0..MaxRequests : [seen[t] EXCEPT !.request = r] \in SeenRecord
         /\ \A p \in {"none", "active", "past_due", "suspended", "cancelled"} :
              [seen[t] EXCEPT !.mapped = p] \in SeenRecord
         /\ seen[t].locked \in BOOLEAN
BY Types DEF ThreadTypes, SeenRecord

LEMMA Statuses ==
  /\ \A p : Mapped(p) \in {"active", "past_due", "suspended", "cancelled"}
  /\ \A p : Handler(p) \in {"activate", "pastDue", "endRow", "mark"}
BY DEF Mapped, Handler

\* Of the calls, only an immediate cancellation moves the provider.
LEMMA Cancels ==
  ASSUME NEW t \in Threads, CancelNow(t)
  PROVE  \/ provider' = provider
         \/ Len(provider) < MaxEvents /\ \E p \in States : provider' = Append(provider, p)
BY AccountAssumption DEF CancelNow

\* Nothing else of a thread changes than its own step, whatever the step is.
Alone(t) ==
  ThreadTypes' /\ \A u \in Threads \ {t} : pc'[u] = pc[u] /\ seen'[u] = seen[u]

LEMMA WebhookMoves ==
  ASSUME TypeOK, NEW t \in Threads, Webhook(t)
  PROVE  Alone(t)
<1>1. \A step \in Steps : Goes(t, step) => Alone(t)
  BY GoesTo DEF Alone
<1>2. Ends(t) => Alone(t)
  BY EndsTo DEF Alone
<1>3. Ends(t) \/ \E step \in Steps : Goes(t, step)
  BY Statuses DEF Webhook, CreateEvent, ReadRow, Activate, Invoice, PastDue, EndRow, CountOthers,
         Lock, MarkProcessed, Steps
<1> QED BY <1>1, <1>2, <1>3

LEMMA ScanMoves ==
  ASSUME TypeOK, NEW t \in Threads, ScanGoesOn(t) \/ Scan(t) \/ PurgeFails(t)
  PROVE  Alone(t)
<1>1. \A step \in Steps : Goes(t, step) => Alone(t)
  BY GoesTo DEF Alone
<1>2. \A step \in Steps, s \in SeenRecord : Keeps(t, step, s) => Alone(t)
  BY KeepsTo DEF Alone
<1>3. Ends(t) => Alone(t)
  BY EndsTo DEF Alone
<1>4. CASE Scan(t)
  <2> DEFINE step == IF trial = "lapsed" THEN "endTrial" ELSE "listRetained"
             b    == trial = "lapsed" /\ Paid
  <2>1. Keeps(t, step, [Blank EXCEPT !.ok = b, !.locked = TRUE])
    BY <1>4 DEF Scan
  <2>2. step \in Steps /\ b \in BOOLEAN
    BY DEF Steps, Paid
  <2> HIDE DEF step, b
  <2> QED BY <1>2, <2>1, <2>2, Blanks
<1>5. CASE ReadDeletion(t)
  <2>1. \/ Goes(t, "setDeleting") \/ Goes(t, "listLedger")
        \/ \E r \in Live : Keeps(t, "markDeletion", [seen[t] EXCEPT !.request = r])
    BY <1>5 DEF ReadDeletion
  <2>2. {"setDeleting", "listLedger", "markDeletion"} \subseteq Steps /\ Live \subseteq 0..MaxRequests
    BY DEF Steps, Live, Requests
  <2> QED BY <1>1, <1>2, <2>1, <2>2, Reads
<1>6. CASE ListLedger(t) \/ Fetch(t)
  <2>1. \/ Ends(t)
        \/ \E p \in {"active", "past_due", "suspended", "cancelled"} :
             \/ Keeps(t, "fetch", [Blank EXCEPT !.mapped = p, !.locked = seen[t].locked])
             \/ Keeps(t, "readHold", [seen[t] EXCEPT !.mapped = p])
    BY <1>6, Statuses DEF ListLedger, Fetch, Reconciled
  <2>2. "fetch" \in Steps /\ "readHold" \in Steps
    BY DEF Steps
  <2> QED BY <1>2, <1>3, <2>1, <2>2, Blanks, Reads
<1>7. CASE ReadHold(t)
  <2>1. Keeps(t, "updateRow", [seen[t] EXCEPT !.ok = ~hold])
    BY <1>7 DEF ReadHold
  <2>2. "updateRow" \in Steps
    BY DEF Steps
  <2> QED BY <1>2, <2>1, <2>2, Reads
<1>8. CASE \/ EndTrial(t) \/ LockLapsed(t) \/ ListRetained(t)
           \/ MarkDeletion(t) \/ SetDeleting(t) \/ Purge(t) \/ FinishPurge(t)
           \/ FailDeletion(t) \/ Unlock(t) \/ PurgeFails(t)
           \/ UpdateRow(t) \/ OpenReconciled(t) \/ CountRest(t) \/ LockReconciled(t)
  <2>1. Ends(t) \/ \E step \in Steps : Goes(t, step)
    BY <1>8 DEF EndTrial, LockLapsed, ListRetained, MarkDeletion, SetDeleting, Purge, FinishPurge,
                FailDeletion, Unlock, PurgeFails, UpdateRow, OpenReconciled, CountRest,
                LockReconciled, Steps
  <2> QED BY <1>1, <1>3, <2>1
<1> QED BY <1>4, <1>5, <1>6, <1>7, <1>8 DEF ScanGoesOn

LEMMA CallMoves ==
  ASSUME TypeOK, NEW t \in Threads, CallGoesOn(t)
  PROVE  Alone(t)
<1>1. \A step \in Steps : Goes(t, step) => Alone(t)
  BY GoesTo DEF Alone
<1>2. Ends(t) => Alone(t)
  BY EndsTo DEF Alone
<1>3. CASE ReadAccess(t)
  <2>1. Keeps(t, "cancelDeletion", [seen[t] EXCEPT !.ok = Access])
    BY <1>3 DEF ReadAccess
  <2>2. "cancelDeletion" \in Steps /\ Access \in BOOLEAN
    BY DEF Steps, Access, Paid
  <2> QED BY <2>1, <2>2, Reads, KeepsTo DEF Alone
<1>4. CASE ~ReadAccess(t)
  <2>1. Ends(t) \/ \E step \in Steps : Goes(t, step)
    BY <1>4 DEF CallGoesOn, Checkout, CreateRow, CancelNow, CancelRow, CreateManual, ChangeManual,
           ExtendTrial, StopTrial, OpenWorkspace, Suspend, Reactivate, RequestDeletion,
           CancelDeletion, RetryDeletion, Steps
  <2> QED BY <1>1, <1>2, <2>1
<1> QED BY <1>3, <1>4

LEMMA BeginMoves ==
  ASSUME TypeOK, NEW t \in Threads, NEW op \in Menu \cap Calls, Begin(t, op)
  PROVE  /\ Alone(t) /\ pc'[t] = op
         /\ calls' \in 0..MaxCalls /\ failures' = failures
<1>1. About(op) \subseteq 0..MaxRequests
  BY AccountAssumption DEF About, Scheduled, Requests
<1>2. MayOpen(op) \in BOOLEAN
  BY DEF MayOpen
<1>3. PICK r \in About(op) : Keeps(t, op, [Blank EXCEPT !.request = r, !.ok = MayOpen(op)])
  BY DEF Begin
<1>4. [Blank EXCEPT !.request = r, !.ok = MayOpen(op)] \in SeenRecord
  BY <1>1, <1>2, Blanks
<1>5. op \in Steps
  BY DEF Steps
<1>6. Alone(t) /\ pc'[t] = op
  BY <1>3, <1>4, <1>5, KeepsTo DEF Alone
<1> QED BY <1>6, Types, AccountAssumption DEF Begin, BoundTypes
-----------------------------------------------------------------------------
(* Types. *)

LEMMA EventTimes ==
  ASSUME TypeOK, NEW t \in Threads
  PROVE  TimeOf(seen[t].event) \in 0..(2 * MaxEvents + 1) /\ Now \in 0..(2 * MaxEvents + 1)
<1>1. seen[t].event \in 0..MaxEvents
  BY Reads DEF SeenRecord
<1>2. Len(provider) \in 0..MaxEvents
  BY Types DEF RemoteTypes
<1> QED BY <1>1, <1>2, AccountAssumption DEF TimeOf, Now

\* What a delivery looked up is an event of the provider.
LEMMA HookEvents ==
  ASSUME TypeOK, EventsFollowed, NEW t \in Threads, pc[t] \in HookSteps
  PROVE  /\ seen[t].event \in Events /\ seen[t].event \in DOMAIN provider
         /\ provider[seen[t].event] \in States
<1>1. seen[t].event \in DOMAIN provider /\ provider \in Seq(States)
  BY Types DEF EventsFollowed, RemoteTypes
<1>2. DOMAIN provider \subseteq Events
  BY Types, AccountAssumption DEF RemoteTypes, Events
<1> QED BY <1>1, <1>2

LEMMA WebhookTypes ==
  ASSUME TypeOK, EventsFollowed, NEW t \in Threads, Webhook(t)
  PROVE  TypeOK'
<1>1. ThreadTypes'
  BY WebhookMoves DEF Alone
<1>2. UNCHANGED remote /\ UNCHANGED purge /\ UNCHANGED bounds
  BY DEF Webhook, CreateEvent, ReadRow, Activate, Invoice, PastDue, EndRow, CountOthers, Lock,
         MarkProcessed
<1>3. TenantTypes'
  BY KeptTypes, Types
  DEF Webhook, CreateEvent, ReadRow, Activate, Invoice, PastDue, EndRow, CountOthers, Lock,
      MarkProcessed, Opens, LocksForNinetyDays, TenantTypes
<1>4. AccessTypes'
  BY KeptTypes, Types
  DEF Webhook, CreateEvent, ReadRow, Activate, Invoice, PastDue, EndRow, CountOthers, Lock,
      MarkProcessed, AccessTypes
<1>5. RowTypes'
  <2>1. ledger' \in {ledger, "active", "past_due", "suspended", "cancelled"}
    BY Statuses DEF Webhook, CreateEvent, ReadRow, Activate, Invoice, PastDue, EndRow, CountOthers,
                    Lock, MarkProcessed, row
  <2>2. last' = last \/ last' = TimeOf(seen[t].event)
    BY DEF Webhook, CreateEvent, ReadRow, Activate, Invoice, PastDue, EndRow, CountOthers,
           Lock, MarkProcessed, row
  <2> QED BY <2>1, <2>2, EventTimes, Types DEF RowTypes
<1>6. EventTypes'
  <2>1. pc[t] \in HookSteps => seen[t].event \in Events
    BY HookEvents
  <2> QED BY <2>1, KeptTypes, Types
          DEF Webhook, CreateEvent, ReadRow, Activate, Invoice, PastDue, EndRow, CountOthers, Lock,
              MarkProcessed, EventTypes, HookSteps
<1>7. RemoteTypes' /\ PurgeTypes' /\ BoundTypes'
  BY <1>2, KeptTypes
<1> QED BY <1>1, <1>3, <1>4, <1>5, <1>6, <1>7, TypesNext

LEMMA ScanTypes ==
  ASSUME TypeOK, NEW t \in Threads, ScanGoesOn(t) \/ Scan(t) \/ PurgeFails(t)
  PROVE  TypeOK'
<1>1. ThreadTypes'
  BY ScanMoves DEF Alone
<1>2. UNCHANGED remote /\ UNCHANGED events
  BY DEF ScanGoesOn, Scan, PurgeFails, EndTrial, LockLapsed, ListRetained, ReadDeletion,
         MarkDeletion, SetDeleting, Purge, FinishPurge, FailDeletion, Unlock, ListLedger, Fetch,
         ReadHold, UpdateRow, OpenReconciled, CountRest, LockReconciled
<1>3. TenantTypes'
  BY KeptTypes, Types
  DEF ScanGoesOn, Scan, PurgeFails, EndTrial, LockLapsed, ListRetained, ReadDeletion,
      MarkDeletion, SetDeleting, Purge, FinishPurge, FailDeletion, Unlock, ListLedger, Fetch,
      ReadHold, UpdateRow, OpenReconciled, CountRest, LockReconciled,
      Opens, LocksForNinetyDays, TenantTypes
<1>4. AccessTypes'
  BY KeptTypes, Types
  DEF ScanGoesOn, Scan, PurgeFails, EndTrial, LockLapsed, ListRetained, ReadDeletion,
      MarkDeletion, SetDeleting, Purge, FinishPurge, FailDeletion, Unlock, ListLedger, Fetch,
      ReadHold, UpdateRow, OpenReconciled, CountRest, LockReconciled, AccessTypes
<1>5. RowTypes'
  <2>1. UNCHANGED row \/ (ledger' = seen[t].mapped /\ last' = Now)
    BY DEF ScanGoesOn, Scan, PurgeFails, EndTrial, LockLapsed, ListRetained, ReadDeletion,
           MarkDeletion, SetDeleting, Purge, FinishPurge, FailDeletion, Unlock, ListLedger, Fetch,
           ReadHold, UpdateRow, OpenReconciled, CountRest, LockReconciled
  <2>2. seen[t].mapped \in {"none", "active", "past_due", "suspended", "cancelled"}
    BY Reads DEF SeenRecord
  <2> QED BY <2>1, <2>2, EventTimes, KeptTypes DEF RowTypes
<1>6. PurgeTypes'
  <2>1. data' \in {data, "purged"}
    BY DEF ScanGoesOn, Scan, PurgeFails, EndTrial, LockLapsed, ListRetained, ReadDeletion,
           MarkDeletion, SetDeleting, Purge, FinishPurge, FailDeletion, Unlock, ListLedger, Fetch,
           ReadHold, UpdateRow, OpenReconciled, CountRest, LockReconciled, purge
  <2>2. \/ deletion' = deletion
        \/ \E s \in {"processing", "failed"} :
             deletion' = [deletion EXCEPT ![seen[t].request] = s]
        \/ deletion' = [r \in Requests |-> IF deletion[r] = "none" THEN "none" ELSE "completed"]
    BY DEF ScanGoesOn, Scan, PurgeFails, EndTrial, LockLapsed, ListRetained, ReadDeletion,
           MarkDeletion, SetDeleting, Purge, FinishPurge, FailDeletion, Unlock, ListLedger, Fetch,
           ReadHold, UpdateRow, OpenReconciled, CountRest, LockReconciled, purge
  <2> QED BY <2>1, <2>2, Types DEF PurgeTypes
<1>7. BoundTypes'
  BY Types, AccountAssumption
  DEF ScanGoesOn, Scan, PurgeFails, EndTrial, LockLapsed, ListRetained, ReadDeletion,
      MarkDeletion, SetDeleting, Purge, FinishPurge, FailDeletion, Unlock, ListLedger, Fetch,
      ReadHold, UpdateRow, OpenReconciled, CountRest, LockReconciled, bounds, BoundTypes
<1>8. RemoteTypes' /\ EventTypes'
  BY <1>2, KeptTypes
<1> QED BY <1>1, <1>3, <1>4, <1>5, <1>6, <1>7, <1>8, TypesNext

LEMMA CallTypes ==
  ASSUME TypeOK, NEW t \in Threads, CallGoesOn(t)
  PROVE  TypeOK'
<1>1. ThreadTypes'
  BY CallMoves DEF Alone
<1>2. UNCHANGED events /\ UNCHANGED bounds
  BY DEF CallGoesOn, Checkout, CreateRow, CancelNow, CancelRow, CreateManual, ChangeManual,
         ExtendTrial, StopTrial, OpenWorkspace, Suspend, Reactivate, RequestDeletion, ReadAccess,
         CancelDeletion, RetryDeletion
<1>3. TenantTypes'
  BY KeptTypes, Types
  DEF CallGoesOn, Checkout, CreateRow, CancelNow, CancelRow, CreateManual, ChangeManual,
      ExtendTrial, StopTrial, OpenWorkspace, Suspend, Reactivate, RequestDeletion, ReadAccess,
      CancelDeletion, RetryDeletion, Opens, OpensKeepingDates, LocksForNinetyDays, TenantTypes
<1>4. AccessTypes'
  BY KeptTypes, Types
  DEF CallGoesOn, Checkout, CreateRow, CancelNow, CancelRow, CreateManual, ChangeManual,
      ExtendTrial, StopTrial, OpenWorkspace, Suspend, Reactivate, RequestDeletion, ReadAccess,
      CancelDeletion, RetryDeletion, AccessTypes
<1>5. RemoteTypes'
  <2>1. offered' \in {offered, TRUE}
    BY DEF CallGoesOn, Checkout, CreateRow, CancelNow, CancelRow, CreateManual, ChangeManual,
           ExtendTrial, StopTrial, OpenWorkspace, Suspend, Reactivate, RequestDeletion, ReadAccess,
           CancelDeletion, RetryDeletion, remote
  <2>2. provider' = provider \/ CancelNow(t)
    BY DEF CallGoesOn, Checkout, CreateRow, CancelRow, CreateManual, ChangeManual,
           ExtendTrial, StopTrial, OpenWorkspace, Suspend, Reactivate, RequestDeletion, ReadAccess,
           CancelDeletion, RetryDeletion, remote
  <2>3. provider' \in Seq(States) /\ Len(provider') <= MaxEvents
    BY <2>2, Cancels, Types, AccountAssumption DEF RemoteTypes
  <2> QED BY <2>1, <2>3, Types DEF RemoteTypes
<1>6. RowTypes'
  BY KeptTypes, Types
  DEF CallGoesOn, Checkout, CreateRow, CancelNow, CancelRow, CreateManual, ChangeManual,
      ExtendTrial, StopTrial, OpenWorkspace, Suspend, Reactivate, RequestDeletion, ReadAccess,
      CancelDeletion, RetryDeletion, RowTypes
<1>7. PurgeTypes'
  <2>1. data' = data
    BY DEF CallGoesOn, Checkout, CreateRow, CancelNow, CancelRow, CreateManual, ChangeManual,
           ExtendTrial, StopTrial, OpenWorkspace, Suspend, Reactivate, RequestDeletion, ReadAccess,
           CancelDeletion, RetryDeletion, purge
  <2>2. \/ deletion' = deletion
        \/ \E r \in Nat, s \in {"scheduled", "cancelled", "due"} :
             deletion' = [deletion EXCEPT ![r] = s]
    <3>1. seen[t].request \in Nat
      <4>1. seen[t] \in SeenRecord
        BY Reads
      <4> QED BY <4>1, AccountAssumption DEF SeenRecord
    <3>2. Free \subseteq Nat
      BY DEF Free, Requests
    <3> QED BY <3>1, <3>2
            DEF CallGoesOn, Checkout, CreateRow, CancelNow, CancelRow, CreateManual, ChangeManual,
                ExtendTrial, StopTrial, OpenWorkspace, Suspend, Reactivate, RequestDeletion,
                ReadAccess, CancelDeletion, RetryDeletion, purge
  <2> QED BY <2>1, <2>2, Types DEF PurgeTypes
<1>8. EventTypes' /\ BoundTypes'
  BY <1>2, KeptTypes
<1> QED BY <1>1, <1>3, <1>4, <1>5, <1>6, <1>7, <1>8, TypesNext

LEMMA TypeStep == TypeOK /\ EventsFollowed /\ [Next]_vars => TypeOK'
<1> SUFFICES ASSUME TypeOK, EventsFollowed, [Next]_vars PROVE TypeOK'
  OBVIOUS
<1>1. ASSUME NEW t \in Threads, GoesOn(t) \/ Scan(t) \/ PurgeFails(t) PROVE TypeOK'
  BY <1>1, WebhookTypes, ScanTypes, CallTypes DEF GoesOn
<1>2. ASSUME NEW t \in Threads, Dies(t) PROVE TypeOK'
  <2>1. ThreadTypes'
    BY <1>2, EndsTo DEF Dies
  <2>2. BoundTypes'
    BY <1>2, Types, AccountAssumption DEF Dies, BoundTypes
  <2>3. /\ UNCHANGED tenant /\ UNCHANGED access /\ UNCHANGED remote /\ UNCHANGED row
        /\ UNCHANGED events /\ UNCHANGED purge
    BY <1>2 DEF Dies
  <2> QED BY <2>1, <2>2, <2>3, KeptTypes, TypesNext
<1>3. ASSUME NEW t \in Threads, NEW e \in Events, Deliver(t, e) PROVE TypeOK'
  <2>1. [Blank EXCEPT !.event = e] \in SeenRecord
    BY Blanks
  <2>2. PICK step \in Steps : Keeps(t, step, [Blank EXCEPT !.event = e])
    BY <1>3 DEF Deliver, Steps
  <2>3. ThreadTypes'
    BY <2>1, <2>2, KeepsTo
  <2>4. /\ UNCHANGED tenant /\ UNCHANGED access /\ UNCHANGED remote /\ UNCHANGED row
        /\ UNCHANGED events /\ UNCHANGED purge /\ UNCHANGED bounds
    BY <1>3 DEF Deliver
  <2> QED BY <2>3, <2>4, KeptTypes, TypesNext
<1>4. ASSUME NEW t \in Threads, NEW op \in Menu \cap Calls, Begin(t, op) PROVE TypeOK'
  <2>1. ThreadTypes' /\ BoundTypes'
    BY <1>4, BeginMoves, Types DEF Alone, BoundTypes
  <2>2. /\ UNCHANGED tenant /\ UNCHANGED access /\ UNCHANGED remote /\ UNCHANGED row
        /\ UNCHANGED events /\ UNCHANGED purge
    BY <1>4 DEF Begin
  <2> QED BY <2>1, <2>2, KeptTypes, TypesNext
<1>5. CASE ProviderMoves
  <2>1. PICK p \in States : provider' = Append(provider, p)
    BY <1>5, Statuses DEF ProviderMoves
  <2>2. RemoteTypes'
    BY <1>5, <2>1, Types, AccountAssumption DEF ProviderMoves, RemoteTypes
  <2>3. /\ UNCHANGED tenant /\ UNCHANGED access /\ UNCHANGED row /\ UNCHANGED events
        /\ UNCHANGED purge /\ UNCHANGED thread /\ UNCHANGED bounds
    BY <1>5 DEF ProviderMoves
  <2> QED BY <2>2, <2>3, KeptTypes, TypesNext
<1>6. CASE TrialLapses
  <2>1. AccessTypes'
    BY <1>6, Types DEF TrialLapses, AccessTypes
  <2>2. /\ UNCHANGED tenant /\ UNCHANGED remote /\ UNCHANGED row /\ UNCHANGED events
        /\ UNCHANGED purge /\ UNCHANGED thread /\ UNCHANGED bounds
    BY <1>6 DEF TrialLapses
  <2> QED BY <2>1, <2>2, KeptTypes, TypesNext
<1>7. CASE RetentionRunsOut
  <2>1. TenantTypes'
    BY <1>7, Types DEF RetentionRunsOut, TenantTypes
  <2>2. /\ UNCHANGED access /\ UNCHANGED remote /\ UNCHANGED row /\ UNCHANGED events
        /\ UNCHANGED purge /\ UNCHANGED thread /\ UNCHANGED bounds
    BY <1>7 DEF RetentionRunsOut
  <2> QED BY <2>1, <2>2, KeptTypes, TypesNext
<1>8. ASSUME NEW r \in Requests, RequestFallsDue(r) PROVE TypeOK'
  <2>1. PurgeTypes'
    BY <1>8, Types DEF RequestFallsDue, PurgeTypes
  <2>2. /\ UNCHANGED tenant /\ UNCHANGED access /\ UNCHANGED remote /\ UNCHANGED row
        /\ UNCHANGED events /\ UNCHANGED thread /\ UNCHANGED bounds
    BY <1>8 DEF RequestFallsDue
  <2> QED BY <2>1, <2>2, KeptTypes, TypesNext
<1>9. CASE UNCHANGED vars
  <2>1. /\ UNCHANGED tenant /\ UNCHANGED access /\ UNCHANGED remote /\ UNCHANGED row
        /\ UNCHANGED events /\ UNCHANGED purge /\ UNCHANGED thread /\ UNCHANGED bounds
    BY <1>9 DEF vars
  <2> QED BY <2>1, KeptTypes, TypesNext
<1> QED BY <1>1, <1>2, <1>3, <1>4, <1>5, <1>6, <1>7, <1>8, <1>9 DEF Next
-----------------------------------------------------------------------------
(* The grounds of a purge. *)

\* Grounds are never withdrawn, so a step must only care for what it adds.
LEMMA GroundsKept ==
  ASSUME grounds \subseteq grounds',
         data' = "purged" => data = "purged" \/ grounds # {}, PurgeHasGrounds,
         RetentionEnded' => grounds' # {},
         \A t \in Threads : pc'[t] \in PurgeSteps => grounds # {}
  PROVE  GroundsHold'
BY DEF GroundsHold, PurgeHasGrounds

LEMMA WebhookGrounds ==
  ASSUME TypeOK, GroundsHold, NEW t \in Threads, Webhook(t)
  PROVE  GroundsHold'
<1>1. data' = data /\ grounds' = grounds
  BY DEF Webhook, CreateEvent, ReadRow, Activate, Invoice, PastDue, EndRow, CountOthers, Lock,
         MarkProcessed, tenant, purge, Opens, LocksForNinetyDays
<1>2. RetentionEnded' => RetentionEnded
  BY DEF Webhook, CreateEvent, ReadRow, Activate, Invoice, PastDue, EndRow, CountOthers, Lock,
         MarkProcessed, tenant, Opens, LocksForNinetyDays, RetentionEnded
<1>3. pc'[t] \notin PurgeSteps
  <2>1. pc'[t] \in {"idle", "readRow", "mark", "activate", "pastDue", "endRow", "invoice",
                    "countOthers", "lock"}
    <3>1. {"idle", "readRow", "mark", "activate", "pastDue", "endRow", "invoice",
           "countOthers", "lock"} \subseteq Steps
      BY DEF Steps
    <3> QED BY <3>1, GoesTo, EndsTo, Statuses
            DEF Webhook, CreateEvent, ReadRow, Activate, Invoice, PastDue, EndRow, CountOthers,
                Lock, MarkProcessed
  <2> QED BY <2>1 DEF PurgeSteps
<1>4. \A u \in Threads : pc'[u] \in PurgeSteps => grounds # {}
  BY <1>3, WebhookMoves DEF Alone, GroundsHold
<1> QED BY <1>1, <1>2, <1>4, GroundsKept DEF GroundsHold

LEMMA CallGrounds ==
  ASSUME TypeOK, GroundsHold, NEW t \in Threads, CallGoesOn(t)
  PROVE  GroundsHold'
<1>1. data' = data /\ grounds \subseteq grounds'
  BY DEF CallGoesOn, Checkout, CreateRow, CancelNow, CancelRow, CreateManual, ChangeManual,
         ExtendTrial, StopTrial, OpenWorkspace, Suspend, Reactivate, RequestDeletion, ReadAccess,
         CancelDeletion, RetryDeletion, Opens, OpensKeepingDates, LocksForNinetyDays, tenant, purge
<1>2. RetentionEnded' => RetentionEnded \/ grounds' # {}
  BY DEF CallGoesOn, Checkout, CreateRow, CancelNow, CancelRow, CreateManual, ChangeManual,
         ExtendTrial, StopTrial, OpenWorkspace, Suspend, Reactivate, RequestDeletion, ReadAccess,
         CancelDeletion, RetryDeletion, Opens, OpensKeepingDates, LocksForNinetyDays, tenant,
         RetentionEnded
<1>3. pc'[t] \notin PurgeSteps
  <2>1. {"idle", "createRow", "cancelRow", "lockRest", "openManual", "openTrial",
         "cancelDeletion"} \subseteq Steps
    BY DEF Steps
  <2>2. ReadAccess(t) => pc'[t] = "cancelDeletion"
    <3>1. Access \in BOOLEAN
      BY DEF Access, Paid
    <3> QED BY <2>1, <3>1, Reads, KeepsTo DEF ReadAccess
  <2>3. CallGoesOn(t) /\ ~ReadAccess(t) =>
          pc'[t] \in {"idle", "createRow", "cancelRow", "lockRest", "openManual", "openTrial"}
    BY <2>1, GoesTo, EndsTo
    DEF CallGoesOn, Checkout, CreateRow, CancelNow, CancelRow, CreateManual, ChangeManual,
        ExtendTrial, StopTrial, OpenWorkspace, Suspend, Reactivate, RequestDeletion,
        CancelDeletion, RetryDeletion
  <2> QED BY <2>2, <2>3 DEF PurgeSteps
<1>4. \A u \in Threads : pc'[u] \in PurgeSteps => grounds # {}
  BY <1>3, CallMoves DEF Alone, GroundsHold
<1> QED BY <1>1, <1>2, <1>4, GroundsKept DEF GroundsHold

\* The scan begins a purge only where the retention ended, and then goes on.
LEMMA ScanGrounds ==
  ASSUME TypeOK, GroundsHold, NEW t \in Threads, ScanGoesOn(t) \/ Scan(t) \/ PurgeFails(t)
  PROVE  GroundsHold'
<1>1. grounds' = grounds
  BY DEF ScanGoesOn, Scan, PurgeFails, EndTrial, LockLapsed, ListRetained, ReadDeletion,
         MarkDeletion, SetDeleting, Purge, FinishPurge, FailDeletion, Unlock, ListLedger, Fetch,
         ReadHold, UpdateRow, OpenReconciled, CountRest, LockReconciled, Opens,
         LocksForNinetyDays, tenant
<1>2. data' = "purged" => data = "purged" \/ pc[t] = "purge"
  BY DEF ScanGoesOn, Scan, PurgeFails, EndTrial, LockLapsed, ListRetained, ReadDeletion,
         MarkDeletion, SetDeleting, Purge, FinishPurge, FailDeletion, Unlock, ListLedger, Fetch,
         ReadHold, UpdateRow, OpenReconciled, CountRest, LockReconciled, purge
<1>3. RetentionEnded' => RetentionEnded \/ pc[t] = "unlock"
  BY DEF ScanGoesOn, Scan, PurgeFails, EndTrial, LockLapsed, ListRetained, ReadDeletion,
         MarkDeletion, SetDeleting, Purge, FinishPurge, FailDeletion, Unlock, ListLedger, Fetch,
         ReadHold, UpdateRow, OpenReconciled, CountRest, LockReconciled, Opens,
         LocksForNinetyDays, tenant, RetentionEnded
<1>4. pc'[t] \in PurgeSteps => pc[t] \in PurgeSteps \/ RetentionEnded
  <2>1. CASE pc[t] \in PurgeSteps
    BY <2>1
  <2>2. CASE ListRetained(t)
    <3>1. {"readDeletion", "listLedger"} \subseteq Steps
      BY DEF Steps
    <3> QED BY <2>2, <3>1, GoesTo DEF ListRetained, PurgeSteps
  <2>3. CASE pc[t] \notin PurgeSteps /\ ~ListRetained(t)
    <3>1. \/ EndTrial(t) \/ LockLapsed(t) \/ ListLedger(t) \/ Fetch(t) \/ ReadHold(t)
          \/ UpdateRow(t) \/ OpenReconciled(t) \/ CountRest(t) \/ LockReconciled(t) \/ Scan(t)
      BY <2>3 DEF ScanGoesOn, PurgeFails, ReadDeletion, MarkDeletion, SetDeleting, Purge,
                  FinishPurge, FailDeletion, Unlock, PurgeSteps
    <3>2. \E step \in {"idle", "listRetained", "lockLapsed", "endTrial", "fetch", "readHold",
                       "updateRow", "open", "countRest", "lockRest"} :
            pc' = [pc EXCEPT ![t] = step]
      BY <3>1 DEF EndTrial, LockLapsed, ListLedger, Fetch, ReadHold, UpdateRow, OpenReconciled,
                  CountRest, LockReconciled, Scan, Goes, Keeps, Ends
    <3> QED BY <3>2, Types DEF ThreadTypes, PurgeSteps
  <2> QED BY <2>1, <2>2, <2>3
<1>5. pc[t] \in PurgeSteps \/ RetentionEnded => grounds # {}
  BY DEF GroundsHold
<1>6. \A u \in Threads : pc'[u] \in PurgeSteps => grounds # {}
  BY <1>4, <1>5, ScanMoves DEF Alone, GroundsHold
<1> QED BY <1>1, <1>2, <1>3, <1>5, <1>6, GroundsKept DEF GroundsHold, PurgeSteps

LEMMA GroundsStep == TypeOK /\ GroundsHold /\ [Next]_vars => GroundsHold'
<1> SUFFICES ASSUME TypeOK, GroundsHold, [Next]_vars PROVE GroundsHold'
  OBVIOUS
<1>1. ASSUME UNCHANGED <<tenant, data, pc>> PROVE GroundsHold'
  BY <1>1 DEF GroundsHold, PurgeHasGrounds, RetentionEnded, tenant
<1>2. ASSUME NEW t \in Threads, Dies(t) PROVE GroundsHold'
  <2>1. \A u \in Threads : pc'[u] \in PurgeSteps => grounds # {}
    BY <1>2, EndsTo DEF Dies, PurgeSteps, GroundsHold
  <2>2. UNCHANGED tenant /\ data' = data
    BY <1>2 DEF Dies, purge
  <2> QED BY <2>1, <2>2, GroundsKept DEF GroundsHold, tenant, RetentionEnded
<1>3. ASSUME NEW t \in Threads, \/ \E e \in Events : Deliver(t, e)
                               \/ \E op \in Menu \cap Calls : Begin(t, op)
      PROVE  GroundsHold'
  <2>1. PICK step \in {"createEvent", "readRow"} \cup Calls : pc' = [pc EXCEPT ![t] = step]
    BY <1>3 DEF Deliver, Begin, Keeps
  <2>2. \A u \in Threads : pc'[u] \in PurgeSteps => grounds # {}
    BY <2>1, Types DEF ThreadTypes, Calls, PurgeSteps, GroundsHold
  <2>3. UNCHANGED tenant /\ data' = data
    BY <1>3 DEF Deliver, Begin, purge
  <2> QED BY <2>2, <2>3, GroundsKept DEF GroundsHold, tenant, RetentionEnded
<1>4. CASE RetentionRunsOut
  <2>1. UNCHANGED <<pc, data>>
    BY <1>4 DEF RetentionRunsOut, purge, thread
  <2>2. grounds \subseteq grounds' /\ (RetentionEnded' => grounds' # {})
    BY <1>4 DEF RetentionRunsOut, RetentionEnded
  <2> QED BY <2>1, <2>2, GroundsKept DEF GroundsHold
<1>5. ProviderMoves \/ TrialLapses \/ (\E r \in Requests : RequestFallsDue(r)) \/ UNCHANGED vars
        => UNCHANGED <<tenant, data, pc>>
  BY DEF ProviderMoves, TrialLapses, RequestFallsDue, vars, thread, purge
<1> QED BY <1>1, <1>2, <1>3, <1>4, <1>5, WebhookGrounds, CallGrounds, ScanGrounds DEF Next, GoesOn
-----------------------------------------------------------------------------
(* The events of the provider. *)

\* The provider adds states and never changes one.
LEMMA ProviderGrows ==
  ASSUME TypeOK, \/ provider' = provider
                 \/ \E p \in States : provider' = Append(provider, p)
  PROVE  \A e \in DOMAIN provider : e \in DOMAIN provider' /\ provider'[e] = provider[e]
BY Types DEF RemoteTypes

\* What was accounted for stays so; a step must only care for the thread that moves.
LEMMA EventsKept ==
  ASSUME EventsFollowed, NEW t \in Threads,
         \A u \in Threads \ {t} : pc'[u] = pc[u] /\ seen'[u] = seen[u],
         \A e \in DOMAIN provider : e \in DOMAIN provider' /\ provider'[e] = provider[e],
         invoiced \subseteq invoiced', passed \subseteq passed',
         \A e \in Events : event'[e] = "processed" => event[e] = "processed" \/ Accounted(e),
         pc'[t] \in HookSteps => seen'[t].event \in DOMAIN provider,
         pc'[t] \in NotCharged => provider[seen'[t].event] # "active",
         pc'[t] = "mark" /\ provider[seen'[t].event] = "active" =>
           seen'[t].event \in invoiced' \cup passed'
  PROVE  EventsFollowed'
<1>1. \A e : Accounted(e) => Accounted(e)'
  BY DEF Accounted
<1>2. NotCharged \subseteq HookSteps /\ "mark" \in HookSteps
  BY DEF NotCharged, HookSteps
<1>3. \A e \in Events : event'[e] = "processed" => Accounted(e)'
  BY <1>1 DEF EventsFollowed
<1>4. ASSUME NEW u \in Threads \ {t}
      PROVE  /\ pc'[u] \in HookSteps => seen'[u].event \in DOMAIN provider'
             /\ pc'[u] \in NotCharged => provider'[seen'[u].event] # "active"
             /\ pc'[u] = "mark" => Accounted(seen[u].event)'
  BY <1>2 DEF EventsFollowed, Accounted
<1>5. /\ pc'[t] \in HookSteps => seen'[t].event \in DOMAIN provider'
      /\ pc'[t] \in NotCharged => provider'[seen'[t].event] # "active"
      /\ pc'[t] = "mark" => Accounted(seen[t].event)'
  BY <1>2 DEF Accounted
<1> QED BY <1>3, <1>4, <1>5 DEF EventsFollowed

LEMMA WebhookEvents ==
  ASSUME TypeOK, EventsFollowed, NEW t \in Threads, Webhook(t)
  PROVE  EventsFollowed'
<1> DEFINE e == seen[t].event
<1>1. pc[t] \in HookSteps /\ e \in Events /\ e \in DOMAIN provider /\ provider' = provider
  <2>1. pc[t] \in HookSteps /\ provider' = provider
    BY DEF Webhook, CreateEvent, ReadRow, Activate, Invoice, PastDue, EndRow, CountOthers, Lock,
           MarkProcessed, HookSteps, remote
  <2> QED BY <2>1, HookEvents
<1>2. \A u \in Threads \ {t} : pc'[u] = pc[u] /\ seen'[u] = seen[u]
  BY WebhookMoves DEF Alone
<1>3. invoiced \subseteq invoiced' /\ passed \subseteq passed'
  BY DEF Webhook, CreateEvent, ReadRow, Activate, Invoice, PastDue, EndRow, CountOthers, Lock,
         MarkProcessed, events
<1>4. \A f \in Events : event'[f] = "processed" => event[f] = "processed" \/ Accounted(f)
  <2>1. CASE MarkProcessed(t)
    <3>1. Accounted(e) /\ event' = [event EXCEPT ![e] = "processed"]
      BY <2>1 DEF MarkProcessed, EventsFollowed
    <3> QED BY <3>1, Types DEF EventTypes
  <2>2. CASE CreateEvent(t)
    <3>1. event' = event \/ event' = [event EXCEPT ![e] = "received"]
      BY <2>2 DEF CreateEvent
    <3> QED BY <3>1, Types DEF EventTypes
  <2>3. CASE ~MarkProcessed(t) /\ ~CreateEvent(t)
    BY <2>3 DEF Webhook, ReadRow, Activate, Invoice, PastDue, EndRow, CountOthers, Lock, events
  <2> QED BY <2>1, <2>2, <2>3
<1>5. /\ pc'[t] \in HookSteps => seen'[t].event \in DOMAIN provider
      /\ pc'[t] \in NotCharged => provider[seen'[t].event] # "active"
      /\ pc'[t] = "mark" /\ provider[seen'[t].event] = "active" =>
           seen'[t].event \in invoiced' \cup passed'
  <2> {"idle", "readRow", "mark", "activate", "pastDue", "endRow", "invoice",
       "countOthers", "lock"} \subseteq Steps
    BY DEF Steps
  <2>1. CASE Ends(t)
    BY <2>1, EndsTo DEF HookSteps, NotCharged
  <2>2. ASSUME NEW step \in {"readRow", "activate", "invoice"}, Goes(t, step) PROVE <1>5
    BY <1>1, <2>2, GoesTo DEF NotCharged
  <2>3. CASE ReadRow(t)
    <3>1. CASE Goes(t, "mark") /\ passed' = passed \cup {e}
      BY <1>1, <3>1, GoesTo DEF NotCharged
    <3>2. CASE Goes(t, Handler(provider[e]))
      <4>1. Handler(provider[e]) \in NotCharged => provider[e] # "active"
        BY DEF Handler, NotCharged
      <4>2. Handler(provider[e]) \in Steps
        BY Statuses DEF Steps
      <4>3. Handler(provider[e]) = "mark" => provider[e] # "active"
        BY DEF Handler
      <4> QED BY <1>1, <3>2, <4>1, <4>2, <4>3, GoesTo
    <3> QED BY <2>3, <3>1, <3>2 DEF ReadRow
  <2>4. CASE Invoice(t)
    <3>1. Goes(t, "mark") /\ invoiced' = invoiced \cup {e}
      BY <2>4 DEF Invoice
    <3> QED BY <1>1, <3>1, GoesTo DEF NotCharged
  <2>5. CASE PastDue(t) \/ EndRow(t) \/ CountOthers(t) \/ Lock(t)
    <3>1. provider[e] # "active"
      BY <2>5 DEF PastDue, EndRow, CountOthers, Lock, NotCharged, EventsFollowed
    <3>2. PICK step \in {"mark", "countOthers", "lock"} : Goes(t, step)
      BY <2>5 DEF PastDue, EndRow, CountOthers, Lock
    <3> QED BY <1>1, <3>1, <3>2, GoesTo
  <2>6. \/ Ends(t) \/ \E step \in {"readRow", "activate", "invoice"} : Goes(t, step)
        \/ ReadRow(t) \/ Invoice(t) \/ PastDue(t) \/ EndRow(t) \/ CountOthers(t) \/ Lock(t)
    BY DEF Webhook, CreateEvent, Activate, MarkProcessed
  <2> QED BY <2>1, <2>2, <2>3, <2>4, <2>5, <2>6
<1> QED BY <1>1, <1>2, <1>3, <1>4, <1>5, EventsKept

\* The other steps of a thread look up no event.
LEMMA OtherEvents ==
  ASSUME TypeOK, EventsFollowed, NEW t \in Threads,
         \/ ScanGoesOn(t) \/ Scan(t) \/ PurgeFails(t) \/ CallGoesOn(t) \/ Dies(t)
         \/ \E op \in Menu \cap Calls : Begin(t, op)
  PROVE  EventsFollowed'
<1>1. UNCHANGED <<event, invoiced, passed>>
  BY DEF ScanGoesOn, Scan, PurgeFails, EndTrial, LockLapsed, ListRetained, ReadDeletion,
         MarkDeletion, SetDeleting, Purge, FinishPurge, FailDeletion, Unlock, ListLedger, Fetch,
         ReadHold, UpdateRow, OpenReconciled, CountRest, LockReconciled,
         CallGoesOn, Checkout, CreateRow, CancelNow, CancelRow, CreateManual, ChangeManual,
         ExtendTrial, StopTrial, OpenWorkspace, Suspend, Reactivate, RequestDeletion, ReadAccess,
         CancelDeletion, RetryDeletion, Dies, Begin, events
<1>2. \A u \in Threads \ {t} : pc'[u] = pc[u] /\ seen'[u] = seen[u]
  BY ScanMoves, CallMoves, BeginMoves, EndsTo DEF Alone, Dies
<1>3. pc'[t] \notin HookSteps
  <2>1. CASE \/ ScanGoesOn(t) \/ Scan(t) \/ PurgeFails(t)
    <3>1. \E step \in {"idle", "endTrial", "listRetained", "lockLapsed", "readDeletion",
                       "listLedger", "markDeletion", "setDeleting", "purge", "finish",
                       "failDeletion", "unlock", "fetch", "readHold", "updateRow", "open",
                       "countRest", "lockRest"} : pc' = [pc EXCEPT ![t] = step]
      BY <2>1 DEF ScanGoesOn, Scan, PurgeFails, EndTrial, LockLapsed, ListRetained, ReadDeletion,
                  MarkDeletion, SetDeleting, Purge, FinishPurge, FailDeletion, Unlock, ListLedger,
                  Fetch, ReadHold, UpdateRow, OpenReconciled, CountRest, LockReconciled,
                  Goes, Keeps, Ends
    <3> QED BY <3>1, Types DEF ThreadTypes, HookSteps
  <2>2. CASE CallGoesOn(t) \/ Dies(t)
    <3>1. \E step \in {"idle", "createRow", "cancelRow", "lockRest", "openManual", "openTrial",
                       "cancelDeletion"} : pc' = [pc EXCEPT ![t] = step]
      BY <2>2 DEF CallGoesOn, Checkout, CreateRow, CancelNow, CancelRow, CreateManual,
                  ChangeManual, ExtendTrial, StopTrial, OpenWorkspace, Suspend, Reactivate,
                  RequestDeletion, ReadAccess, CancelDeletion, RetryDeletion, Dies,
                  Goes, Keeps, Ends
    <3> QED BY <3>1, Types DEF ThreadTypes, HookSteps
  <2>3. ASSUME NEW op \in Menu \cap Calls, Begin(t, op) PROVE <1>3
    BY <2>3, BeginMoves DEF Calls, HookSteps
  <2> QED BY <2>1, <2>2, <2>3
<1>4. pc'[t] \notin NotCharged /\ pc'[t] # "mark"
  BY <1>3 DEF NotCharged, HookSteps
<1>5. provider' = provider \/ \E p \in States : provider' = Append(provider, p)
  <2>1. provider' = provider \/ CancelNow(t)
    BY DEF ScanGoesOn, Scan, PurgeFails, EndTrial, LockLapsed, ListRetained, ReadDeletion,
           MarkDeletion, SetDeleting, Purge, FinishPurge, FailDeletion, Unlock, ListLedger, Fetch,
           ReadHold, UpdateRow, OpenReconciled, CountRest, LockReconciled,
           CallGoesOn, Checkout, CreateRow, CancelRow, CreateManual, ChangeManual,
           ExtendTrial, StopTrial, OpenWorkspace, Suspend, Reactivate, RequestDeletion, ReadAccess,
           CancelDeletion, RetryDeletion, Dies, Begin, remote
  <2> QED BY <2>1, Cancels
<1>6. \A e \in DOMAIN provider : e \in DOMAIN provider' /\ provider'[e] = provider[e]
  BY <1>5, ProviderGrows
<1> QED BY <1>1, <1>2, <1>3, <1>4, <1>6, EventsKept

LEMMA EventsStep == TypeOK /\ EventsFollowed /\ [Next]_vars => EventsFollowed'
<1> SUFFICES ASSUME TypeOK, EventsFollowed, [Next]_vars PROVE EventsFollowed'
  OBVIOUS
<1>1. ASSUME NEW t \in Threads, NEW e \in Events, Deliver(t, e) PROVE EventsFollowed'
  <2> DEFINE s == [Blank EXCEPT !.event = e]
             step == IF event[e] = "none" THEN "createEvent" ELSE "readRow"
  <2>1. Keeps(t, step, s) /\ e <= Len(provider)
    BY <1>1 DEF Deliver
  <2>2. s \in SeenRecord /\ s.event = e /\ step \in Steps
    BY Blanks DEF Steps, Blank
  <2>3. /\ pc'[t] = step /\ seen'[t] = s
        /\ \A u \in Threads \ {t} : pc'[u] = pc[u] /\ seen'[u] = seen[u]
    <3> HIDE DEF s, step
    <3> QED BY <2>1, <2>2, KeepsTo
  <2>4. e \in DOMAIN provider
    BY <2>1, Types DEF RemoteTypes, Events
  <2>5. UNCHANGED <<provider, event, invoiced, passed>>
    BY <1>1 DEF Deliver, remote, events
  <2>6. pc'[t] \notin NotCharged /\ pc'[t] # "mark" /\ seen'[t].event = e
    BY <2>2, <2>3 DEF NotCharged
  <2> QED BY <2>3, <2>4, <2>5, <2>6, EventsKept
<1>2. ASSUME UNCHANGED <<pc, seen, event, invoiced, passed>>,
             \/ provider' = provider
             \/ \E p \in States : provider' = Append(provider, p)
      PROVE  EventsFollowed'
  <2>1. \A e \in DOMAIN provider : e \in DOMAIN provider' /\ provider'[e] = provider[e]
    BY <1>2, ProviderGrows
  <2>2. NotCharged \subseteq HookSteps
    BY DEF NotCharged, HookSteps
  <2> QED BY <1>2, <2>1, <2>2 DEF EventsFollowed, Accounted
<1>3. CASE ProviderMoves
  <2>1. /\ UNCHANGED <<pc, seen, event, invoiced, passed>>
        /\ \E p \in States : provider' = Append(provider, p)
    BY <1>3, Statuses DEF ProviderMoves, thread, events
  <2> QED BY <1>2, <2>1
<1>4. CASE \/ TrialLapses \/ RetentionRunsOut
           \/ (\E r \in Requests : RequestFallsDue(r))
           \/ UNCHANGED vars
  <2>1. UNCHANGED <<pc, seen, event, invoiced, passed>> /\ provider' = provider
    BY <1>4 DEF TrialLapses, RetentionRunsOut, RequestFallsDue, vars, thread, events, remote
  <2> QED BY <1>2, <2>1
<1> QED BY <1>1, <1>2, <1>3, <1>4, WebhookEvents, OtherEvents DEF Next, GoesOn
-----------------------------------------------------------------------------
LEMMA InitHolds == Init => IInv
<1> SUFFICES ASSUME Init PROVE IInv
  OBVIOUS
<1>1. Blank \in SeenRecord
  BY AccountAssumption DEF Blank, SeenRecord
<1>2. ThreadTypes
  BY <1>1 DEF Init, ThreadTypes, Steps
<1>3. /\ TenantTypes /\ AccessTypes /\ RemoteTypes /\ RowTypes /\ EventTypes /\ PurgeTypes
      /\ BoundTypes
  <2>1. TenantTypes /\ AccessTypes /\ EventTypes /\ PurgeTypes
    BY DEF Init, TenantTypes, AccessTypes, EventTypes, PurgeTypes
  <2>2. RemoteTypes
    <3>1. provider = << >> /\ offered = FALSE
      BY DEF Init
    <3>2. << >> \in Seq(States) /\ Len(<< >>) <= MaxEvents
      <4>1. << >> \in Seq(States) /\ Len(<< >>) = 0
        OBVIOUS
      <4> QED BY <4>1, AccountAssumption
    <3> QED BY <3>1, <3>2 DEF RemoteTypes
  <2>3. RowTypes /\ BoundTypes
    BY AccountAssumption DEF Init, RowTypes, BoundTypes
  <2> QED BY <2>1, <2>2, <2>3
<1>4. TypeOK
  BY <1>2, <1>3, Types
<1>5. GroundsHold
  BY DEF Init, GroundsHold, RetentionEnded, PurgeHasGrounds, PurgeSteps
<1>6. EventsFollowed
  BY DEF Init, EventsFollowed, HookSteps, NotCharged
<1> QED BY <1>4, <1>5, <1>6 DEF IInv

LEMMA Invariance == Spec => []IInv
<1>1. IInv /\ [Next]_vars => IInv'
  BY TypeStep, GroundsStep, EventsStep DEF IInv
<1> QED BY <1>1, InitHolds, PTL DEF Spec

\* Every reachable state has the types of TenantAccount.
THEOREM TypeCorrect == Spec => []TypeOK
BY Invariance, PTL DEF IInv

\* The database is dropped only if the retention ran out while the workspace
\* was locked, or an operator suspended it, whatever happens to the workspace
\* between the scan's list and the purge.
THEOREM PurgesHaveGrounds == Spec => []PurgeHasGrounds
<1>1. IInv => PurgeHasGrounds
  BY DEF IInv, GroundsHold
<1> QED BY <1>1, Invariance, PTL

\* A processed charge has its invoice or was passed over, wherever a delivery
\* of it dies and however many of them overlap.
THEOREM ChargesAreInvoiced == Spec => []ChargesInvoiced
<1>1. IInv => ChargesInvoiced
  BY DEF IInv, EventsFollowed, Accounted, ChargesInvoiced
<1> QED BY <1>1, Invariance, PTL
=============================================================================
