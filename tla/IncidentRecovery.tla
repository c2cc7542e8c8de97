-------------------------- MODULE IncidentRecovery --------------------------
(***************************************************************************)
(* The recovery of one trip incident (a hotel or transport provider that   *)
(* does not deliver): contact the assigned provider, then the alternatives *)
(* of the vendor directory, and when nobody confirms in time advise the    *)
(* traveller to book a replacement.                                        *)
(*                                                                         *)
(* Every request, outbox event and sweep is a thread that runs one of the  *)
(* handlers, one action per statement on the database, so handlers         *)
(* interleave at every await.  A thread may throw or die at any of them.   *)
(*                                                                         *)
(* The rows of incident_alternatives, which repeat the attempts for the    *)
(* traveller's page, the mail and SMS copies of an update, and receipts    *)
(* are left out.                                                           *)
(***************************************************************************)
EXTENDS Naturals, FiniteSets

CONSTANTS Assigned,     \* the provider of the booked service
          HasAssigned,  \* whether that provider can be contacted at all
          Alternatives, \* verified vendors the directory offers, at most three
          Phoned,       \* contacts with a telephone number
          Direct,       \* the request that opened the incident
          Dispatchers,  \* the outbox batch that handles IncidentOpened
          Sweepers,     \* outbox batches that run the sweep
          Answerers,    \* requests and calls that record a vendor's answer
          Customers,    \* requests that confirm the service was received
          None,
          MaxTries,     \* attempts of the outbox event before it is dead-lettered
          MaxDials,     \* bound: calls placed for one attempt
          MaxFailures   \* bound: handlers that throw or die for an outside reason

ASSUME HasAssignedAssumption  == HasAssigned \in BOOLEAN
ASSUME AlternativesAssumption == /\ IsFiniteSet(Alternatives)
                                 /\ Assigned \notin Alternatives
ASSUME TriesAssumption        == MaxTries \in Nat \ {0}
ASSUME DialsAssumption        == MaxDials \in Nat \ {0} /\ MaxFailures \in Nat
ASSUME ThreadsAssumption      == \A S \in {Dispatchers, Sweepers, Answerers, Customers} :
                                   IsFiniteSet(S)

VARIABLES
  recovery, \* the row of incident_recoveries
  attempts, \* rows of incident_vendor_attempts, by contact and order of creation
  calls,    \* the voice-recovery job of an attempt and its telephone call
  event,    \* the outbox event IncidentOpened
  thread,   \* the handler each thread is in
  told,     \* website updates sent to the traveller, by idempotency key
  said,     \* history: answers recorded for a contact
  failures  \* history: handlers that threw or died for an outside reason

vars == <<recovery, attempts, calls, event, thread, told, said, failures>>

Threads   == {Direct} \cup Dispatchers \cup Sweepers \cup Answerers \cup Customers
Contacts  == Alternatives \cup (IF HasAssigned THEN {Assigned} ELSE {})
Attempts  == Contacts \X (1 .. Cardinality(Threads))
Decisions == {"available", "unavailable", "human"}

ASSUME NoneAssumption         == None \notin Attempts

Active    == {"queued", "dialing", "connected", "awaiting_response"}
Confirmed == {"assigned_provider_confirmed", "alternative_confirmed"}
RecoveryStatus ==
  {"reported", "failed_to_start", "contacting_assigned", "sourcing_alternatives",
   "contacting_alternatives", "human_callback_requested", "self_booking_advised",
   "resolved"} \cup Confirmed
AttemptStatus ==
  Active \cup {"none", "timed_out", "responded_available", "responded_unavailable",
               "human_requested"}

NoAttempt == [status |-> "none", responded |-> FALSE]
NoCall    == [stage |-> "none", dials |-> 0]
Idle      == [pc |-> "idle", todo |-> {}, due |-> {}, moved |-> FALSE,
              attempt |-> None, decision |-> "human", call |-> None, key |-> <<"none", None>>]

Init ==
  /\ recovery = [status |-> "reported", resolved |-> FALSE]
  /\ attempts = [a \in Attempts |-> NoAttempt]
  /\ calls    = [a \in Attempts |-> NoCall]
  /\ event    = [status |-> "pending", tries |-> 0]
  /\ thread   = [t \in Threads |-> IF t = Direct THEN [Idle EXCEPT !.pc = "start"] ELSE Idle]
  /\ told     = {}
  /\ said     = {}
  /\ failures = 0

-----------------------------------------------------------------------------
(* Rows as the queries see them. *)

Exists(a)    == attempts[a].status # "none"
RowsOf(c)    == {a \in Attempts : a[1] = c /\ Exists(a)}
ActiveRow(a) == attempts[a].status \in Active
AlternativeRows == UNION {RowsOf(c) : c \in Alternatives}
AssignedRows    == RowsOf(Assigned)

(* Control of a thread.  Proceed sets what the handler does next, Tell     *)
(* makes recordCustomerUpdate its next statement, Return ends the handler. *)

At(t, pc)          == thread[t].pc = pc
Proceed(t, pc)     == thread' = [thread EXCEPT ![t].pc = pc]
Tell(t, kind, who) == thread' = [thread EXCEPT ![t] = [@ EXCEPT !.pc = "tell", !.key = <<kind, who>>]]
Advance(t, status) == recovery' = [recovery EXCEPT !.status = status]

Ends(t)   == thread' = [thread EXCEPT ![t] = Idle]
Return(t) ==
  /\ Ends(t)
  /\ event' = IF t \in Dispatchers THEN [event EXCEPT !.status = "published"] ELSE event

(* An exception in the handler: the request that opened the incident marks *)
(* the recovery, the dispatcher retries the event, the others give up.     *)
(* Mutant: the attempts of the event are compared after one too many. *)
ExhaustedLate == event.tries > MaxTries

Exhausted == event.tries = MaxTries

Throws(t) ==
  /\ IF t = Direct /\ ~At(t, "mark_failed") THEN Proceed(t, "mark_failed") ELSE Ends(t)
  /\ event' = IF t \notin Dispatchers THEN event
              ELSE [event EXCEPT !.status = IF Exhausted
                                            THEN "dead_letter" ELSE "pending"]

-----------------------------------------------------------------------------
(* startIncidentRecovery, called by the request and by the outbox event. *)

TakeEvent(t) ==
  /\ event.status = "pending"
  /\ At(t, "idle")
  /\ event' = [status |-> "publishing", tries |-> event.tries + 1]
  /\ Proceed(t, "start")
  /\ UNCHANGED <<recovery, attempts, calls, told, said, failures>>

Start(t) ==
  /\ At(t, "start")
  /\ IF recovery.status \in {"reported", "failed_to_start"}
     THEN Tell(t, "opened", None) /\ UNCHANGED event
     ELSE Return(t)
  /\ UNCHANGED <<recovery, attempts, calls, told, said, failures>>

(* resolveAssignedContact: whom the handler turns to first. *)
Route(t) == IF HasAssigned
            THEN thread' = [thread EXCEPT ![t] = [@ EXCEPT !.pc = "find", !.todo = {Assigned},
                                                           !.key = <<"none", None>>]]
            ELSE thread' = [thread EXCEPT ![t] = [@ EXCEPT !.pc = "source",
                                                           !.key = <<"none", None>>]]

MarkFailed(t) ==
  /\ At(t, "mark_failed")
  /\ Advance(t, "failed_to_start")
  /\ Ends(t)
  /\ UNCHANGED <<attempts, calls, event, told, said, failures>>

-----------------------------------------------------------------------------
(* contactVendor, for the assigned provider or for one vendor after the    *)
(* other.                                                                  *)

(* Mutant: the handler goes on to the alternatives after it contacted the  *)
(* assigned provider.                                                      *)
ContactedAll(t, c) ==
  LET rest == thread[t].todo \ {c} IN
  /\ thread' = [thread EXCEPT ![t] = [@ EXCEPT !.todo = rest, !.attempt = None,
                  !.pc  = IF c = Assigned THEN "source" ELSE IF rest = {} THEN "tell" ELSE "find",
                  !.key = IF c # Assigned /\ rest = {} THEN <<"contacted", None>> ELSE thread[t].key]]
  /\ UNCHANGED event

Contacted(t, c) ==
  LET rest == thread[t].todo \ {c} IN
  IF c = Assigned THEN Return(t)
  ELSE /\ thread' = [thread EXCEPT ![t] = [@ EXCEPT !.todo = rest, !.attempt = None,
                       !.pc  = IF rest = {} THEN "tell" ELSE "find",
                       !.key = IF rest = {} THEN <<"contacted", None>> ELSE thread[t].key]]
       /\ UNCHANGED event

FindAttempt(t) ==
  /\ At(t, "find")
  /\ \E c \in thread[t].todo :
       IF RowsOf(c) # {}
       THEN Contacted(t, c)
       ELSE /\ thread' = [thread EXCEPT ![t] = [@ EXCEPT !.pc = "create",
                            !.todo = thread[t].todo \ {c}, !.attempt = <<c, 1>>]]
            /\ UNCHANGED event
  /\ UNCHANGED <<recovery, attempts, calls, told, said, failures>>

CreateAttempt(t) ==
  /\ At(t, "create")
  /\ LET c == thread[t].attempt[1]
         a == <<c, Cardinality(RowsOf(c)) + 1>> IN
       /\ attempts' = [attempts EXCEPT ![a] = [status |-> "queued", responded |-> FALSE]]
       /\ thread'   = [thread EXCEPT ![t] = [@ EXCEPT !.pc = "announce", !.attempt = a]]
  /\ UNCHANGED <<recovery, calls, event, told, said, failures>>

Announce(t) ==
  /\ At(t, "announce")
  /\ LET a == thread[t].attempt IN
       /\ Advance(t, IF a[1] = Assigned THEN "contacting_assigned"
                                        ELSE "contacting_alternatives")
       /\ calls' = [calls EXCEPT ![a].stage = IF a[1] \in Phoned THEN "job" ELSE "none"]
       /\ Contacted(t, a[1])
  /\ UNCHANGED <<attempts, told, said, failures>>

-----------------------------------------------------------------------------
(* sourceAlternatives and activateSelfBooking. *)

CountAlternatives(t) ==
  /\ At(t, "source")
  /\ IF AlternativeRows # {} THEN Return(t)
     ELSE Proceed(t, "list_vendors") /\ UNCHANGED event
  /\ UNCHANGED <<recovery, attempts, calls, told, said, failures>>

ListVendors(t) ==
  /\ At(t, "list_vendors")
  /\ Advance(t, "sourcing_alternatives")
  /\ IF Alternatives = {} THEN Proceed(t, "advise")
     ELSE thread' = [thread EXCEPT ![t] = [@ EXCEPT !.pc = "find", !.todo = Alternatives]]
  /\ UNCHANGED <<attempts, calls, event, told, said, failures>>

Advise(t) ==
  /\ At(t, "advise")
  /\ Advance(t, "self_booking_advised")
  /\ Tell(t, "self_booking", None)
  /\ UNCHANGED <<attempts, calls, event, told, said, failures>>

-----------------------------------------------------------------------------
(* recordCustomerUpdate: look the key up, then create the row; the key is  *)
(* unique, so that the creation throws when another thread came first.     *)

Told(t) == IF thread[t].key[1] = "opened" THEN Route(t) /\ UNCHANGED event ELSE Return(t)

TellLooksUp(t) ==
  /\ At(t, "tell")
  /\ IF thread[t].key \in told THEN Told(t) ELSE Proceed(t, "send") /\ UNCHANGED event
  /\ UNCHANGED <<recovery, attempts, calls, told, said, failures>>

TellCreates(t) ==
  /\ At(t, "send")
  /\ IF thread[t].key \in told THEN Throws(t) ELSE Told(t)
  /\ told' = told \cup {thread[t].key}
  /\ UNCHANGED <<recovery, attempts, calls, said, failures>>

-----------------------------------------------------------------------------
(* recordVendorResponse, from the link of the mail or from the keypad of a *)
(* call that has asked; the link knows no third decision.                  *)

ReadsAttempt(t, a, d, call) ==
  /\ t \in Answerers /\ At(t, "idle")
  /\ Exists(a) /\ ~attempts[a].responded
  /\ thread' = [thread EXCEPT ![t] = [@ EXCEPT !.pc = "record", !.attempt = a, !.decision = d,
                                                !.call = call]]

LinkAnswers(t, a, d) ==
  /\ d # "human"
  /\ ReadsAttempt(t, a, d, None)
  /\ UNCHANGED <<recovery, attempts, calls, event, told, said, failures>>

CallAnswers(t, a, d) ==
  /\ calls[a].stage = "asked"
  /\ ReadsAttempt(t, a, d, a)
  /\ calls' = [calls EXCEPT ![a].stage = "answered"]
  /\ UNCHANGED <<recovery, attempts, event, told, said, failures>>

Recorded(d) == CASE d = "available"   -> "responded_available"
                 [] d = "unavailable" -> "responded_unavailable"
                 [] d = "human"       -> "human_requested"

(* Mutant: the role of the attempt is looked at before the decision. *)
AfterAnswerByRole(a, d) == IF a[1] # Assigned THEN "count_active"
                           ELSE IF d = "unavailable" THEN "source" ELSE "settle"

AfterAnswer(a, d) == IF d # "unavailable" THEN "settle"
                     ELSE IF a[1] = Assigned THEN "source" ELSE "count_active"

RecordAnswer(t) ==
  /\ At(t, "record")
  /\ LET a == thread[t].attempt
         d == thread[t].decision IN
       /\ attempts' = [attempts EXCEPT ![a] = [status |-> Recorded(d), responded |-> TRUE]]
       /\ said'     = said \cup {<<a[1], d>>}
       /\ Proceed(t, AfterAnswer(a, d))
  /\ UNCHANGED <<recovery, calls, event, told, failures>>

Settle(t) ==
  /\ At(t, "settle")
  /\ LET a == thread[t].attempt IN
     IF thread[t].decision = "human"
     THEN Advance(t, "human_callback_requested") /\ Tell(t, "human", a)
     ELSE /\ Advance(t, IF a[1] = Assigned THEN "assigned_provider_confirmed"
                                           ELSE "alternative_confirmed")
          /\ Tell(t, "confirmed", a[1])
  /\ UNCHANGED <<attempts, calls, event, told, said, failures>>

CountActive(t) ==
  /\ At(t, "count_active")
  /\ IF \E a \in AlternativeRows : ActiveRow(a)
     THEN Return(t)
     ELSE Proceed(t, "advise") /\ UNCHANGED event
  /\ UNCHANGED <<recovery, attempts, calls, told, said, failures>>

-----------------------------------------------------------------------------
(* runIncidentRecoverySweep.  A row has ten minutes from its creation; the *)
(* sweep may find any of the active rows due.                              *)

(* Mutant: the sweep lists only the attempts no call was placed for. *)
QueuedRows == {a \in Attempts : attempts[a].status = "queued"}

ActiveRows == {a \in Attempts : ActiveRow(a)}

SweepLists(t, due) ==
  /\ t \in Sweepers /\ At(t, "idle")
  /\ due # {}
  /\ thread' = [thread EXCEPT ![t] = [@ EXCEPT !.pc = "time_out", !.due = due]]
  /\ UNCHANGED <<recovery, attempts, calls, event, told, said, failures>>

TimeOut(t) ==
  /\ At(t, "time_out") /\ thread[t].due # {}
  /\ \E a \in thread[t].due :
       /\ thread' = [thread EXCEPT ![t] = [@ EXCEPT !.due = thread[t].due \ {a},
                                                         !.moved = thread[t].moved \/ ActiveRow(a)]]
       /\ IF ActiveRow(a)
          THEN /\ attempts' = [attempts EXCEPT ![a] = [status |-> "timed_out", responded |-> TRUE]]
               /\ said'     = said \cup {<<a[1], "timeout">>}
          ELSE UNCHANGED <<attempts, said>>
  /\ UNCHANGED <<recovery, calls, event, told, failures>>

(* The first of the two queries; "moved" carries what it saw to the second. *)
CountAssigned(t) ==
  /\ At(t, "time_out") /\ thread[t].due = {}
  /\ IF thread[t].moved
     THEN thread' = [thread EXCEPT ![t] = [@ EXCEPT !.pc = "review",
                       !.moved = \E a \in AssignedRows : ActiveRow(a)]]
     ELSE Ends(t)
  /\ UNCHANGED <<recovery, attempts, calls, event, told, said, failures>>

(* Mutant: a vendor that let the time pass is waited for. *)
GivenUpByAnswer == \A a \in AlternativeRows : attempts[a].status = "responded_unavailable"

GivenUp == \A a \in AlternativeRows : attempts[a].status \notin Active \cup {"responded_available"}

ReviewAlternatives(t) ==
  /\ At(t, "review")
  /\ CASE AlternativeRows = {} /\ ~thread[t].moved -> Proceed(t, "source")
       [] AlternativeRows # {} /\ GivenUp          -> Proceed(t, "advise")
       [] OTHER                                    -> Ends(t)
  /\ UNCHANGED <<recovery, attempts, calls, event, told, said, failures>>

-----------------------------------------------------------------------------
(* The telephone call of an attempt: markVendorCallStatus writes whatever  *)
(* the row's status is.  A call that was answered goes on when the answer  *)
(* is recorded, known already, or its handler has thrown; it then writes   *)
(* that it waits for a response when the handler threw or the              *)
(* acknowledgement fails.                                                  *)

Call(a, from, to, status) ==
  /\ calls[a].stage = from
  /\ calls'    = [calls EXCEPT ![a].stage = to]
  /\ attempts' = [attempts EXCEPT ![a].status = status]
  /\ UNCHANGED <<recovery, event, thread, told, said, failures>>

Dial(a) ==
  /\ calls[a].stage = "job"
  /\ calls'    = [calls EXCEPT ![a] = [stage |-> "dialing", dials |-> @.dials + 1]]
  /\ attempts' = [attempts EXCEPT ![a].status = "dialing"]
  /\ UNCHANGED <<recovery, event, thread, told, said, failures>>

Redial(a) ==
  /\ calls[a].stage = "dialing"
  /\ \E next \in {"over"} \cup (IF calls[a].dials < MaxDials THEN {"job"} ELSE {}) :
       calls' = [calls EXCEPT ![a].stage = next]
  /\ UNCHANGED <<recovery, attempts, event, thread, told, said, failures>>

BeingRecorded(a) == \E t \in Answerers : thread[t].call = a

Connect(a) == Call(a, "dialing", "connected", "connected")
Ask(a)     == Call(a, "connected", "asked", "awaiting_response")

HangUp(a) ==
  /\ calls[a].stage \in {"asked", "answered"} /\ ~BeingRecorded(a)
  /\ calls' = [calls EXCEPT ![a].stage = "over"]
  /\ UNCHANGED <<recovery, attempts, event, thread, told, said, failures>>

FailsToThank(a) ==
  /\ ~BeingRecorded(a)
  /\ \E from \in {"asked", "answered"} : Call(a, from, "over", "awaiting_response")

-----------------------------------------------------------------------------
(* confirmIncidentResolved. *)

Confirm(t) ==
  /\ t \in Customers /\ At(t, "idle")
  /\ ~recovery.resolved
  /\ Proceed(t, "resolve")
  /\ UNCHANGED <<recovery, attempts, calls, event, told, said, failures>>

Resolve(t) ==
  /\ At(t, "resolve")
  /\ recovery' = [status |-> "resolved", resolved |-> TRUE]
  /\ Tell(t, "resolved", None)
  /\ UNCHANGED <<attempts, calls, event, told, said, failures>>

-----------------------------------------------------------------------------
(* A statement fails, or the process stops; or a sweep that has timed an   *)
(* attempt of this incident out is ended by the throw of another incident, *)
(* which its loop comes to first.                                          *)

Fail(t) ==
  /\ ~At(t, "idle") /\ failures < MaxFailures
  /\ Throws(t)
  /\ failures' = failures + 1
  /\ UNCHANGED <<recovery, attempts, calls, told, said>>

Die(t) ==
  /\ ~At(t, "idle") /\ failures < MaxFailures
  /\ Ends(t)
  /\ failures' = failures + 1
  /\ UNCHANGED <<recovery, attempts, calls, event, told, said>>

Handles(t) ==
  \/ Start(t) \/ MarkFailed(t)
  \/ FindAttempt(t) \/ CreateAttempt(t) \/ Announce(t)
  \/ CountAlternatives(t) \/ ListVendors(t) \/ Advise(t)
  \/ TellLooksUp(t) \/ TellCreates(t)
  \/ RecordAnswer(t) \/ Settle(t) \/ CountActive(t)
  \/ TimeOut(t) \/ CountAssigned(t) \/ ReviewAlternatives(t)
  \/ Resolve(t)

Answers(t) == \E a \in Attempts, d \in Decisions : LinkAnswers(t, a, d) \/ CallAnswers(t, a, d)

Telephone(a) ==
  Dial(a) \/ Redial(a) \/ Connect(a) \/ Ask(a) \/ HangUp(a) \/ FailsToThank(a)

Next ==
  \/ \E t \in Dispatchers : TakeEvent(t)
  \/ \E t \in Threads : Handles(t) \/ Fail(t) \/ Die(t)
  \/ \E t \in Sweepers : \E due \in SUBSET ActiveRows : SweepLists(t, due)
  \/ \E t \in Answerers : Answers(t)
  \/ \E t \in Customers : Confirm(t)
  \/ \E a \in Attempts : Telephone(a)

(* A handler goes on until it returns, and the scheduled job takes the     *)
(* event and runs the sweep again and again, also after every row is due.  *)
Fairness ==
  /\ \A t \in Dispatchers : WF_vars(TakeEvent(t))
  /\ \A t \in Threads : WF_vars(Handles(t))
  /\ \A t \in Sweepers : WF_vars(SweepLists(t, ActiveRows))

Spec == Init /\ [][Next]_vars /\ Fairness

-----------------------------------------------------------------------------
(* Properties. *)

Steps == {"idle", "start", "tell", "send", "find", "create", "announce", "source",
          "list_vendors", "advise", "record", "settle", "count_active", "time_out",
          "review", "resolve", "mark_failed"}
Keys  == ({"none", "opened", "contacted", "self_booking", "resolved"} \X {None})
         \cup ({"confirmed"} \X Contacts) \cup ({"human"} \X Attempts)

(* Rows, calls and handlers are well formed: a handler that announces or   *)
(* answers an attempt holds a row that exists, and an attempt that was     *)
(* answered, timed out or called had been created.                         *)
TypeOK ==
  /\ recovery \in [status : RecoveryStatus, resolved : BOOLEAN]
  /\ attempts \in [Attempts -> [status : AttemptStatus, responded : BOOLEAN]]
  /\ calls \in [Attempts -> [stage : {"none", "job", "dialing", "connected", "asked", "answered", "over"},
                             dials : 0 .. MaxDials]]
  /\ event \in [status : {"pending", "publishing", "published", "dead_letter"},
                tries : 0 .. MaxTries]
  /\ thread \in [Threads -> [pc : Steps, todo : SUBSET Contacts, due : SUBSET Attempts,
                             moved : BOOLEAN, attempt : Attempts \cup {None},
                             decision : Decisions, call : Attempts \cup {None}, key : Keys]]
  /\ told \subseteq Keys
  /\ said \subseteq Contacts \X (Decisions \cup {"timeout"})
  /\ \A t \in Threads : thread[t].pc \in {"announce", "record", "settle"} =>
                          thread[t].attempt # None /\ Exists(thread[t].attempt)
  /\ \A a \in Attempts : attempts[a].responded \/ calls[a].stage # "none" => Exists(a)

Answered(c, d) == <<c, d>> \in said
Declined(c)    == Answered(c, "unavailable") \/ Answered(c, "timeout")
Advised        == <<"self_booking", None>> \in told

(* Vendors of the directory are contacted only after the assigned provider *)
(* has declined or let the time pass, and the traveller is sent to book    *)
(* himself only after that and after every vendor that was contacted at    *)
(* the time had a chance: at least one declined, asked for a human or let  *)
(* the time pass.  Whatever handlers and sweeps run at once, the order of  *)
(* the fallback (incidentRecoveryService.ts 423-442, 354-421, 540-556,     *)
(* 593-609) is kept.                                                       *)
FallbackInOrder ==
  /\ AlternativeRows # {} /\ HasAssigned => Declined(Assigned)
  /\ Advised =>
       /\ HasAssigned => Declined(Assigned)
       /\ Alternatives # {} => \E c \in Alternatives : Declined(c) \/ Answered(c, "human")

Outcome == \E k \in told : k[1] \in {"confirmed", "human", "self_booking", "resolved"}

(* Unless a handler throws or dies for a reason outside this incident, the *)
(* throw of another incident in the same sweep included, the traveller is  *)
(* told how the incident goes on: a provider confirmed, people take over,  *)
(* he should book himself, or he confirmed himself that it is over.        *)
(* Losing the race for an update's key, answers that cross a sweep and a   *)
(* call that re-opens a row never leave the recovery without a next step   *)
(* (incidentRecoveryService.ts 423-442, 455-464, 572-611).                 *)
TravellerAnswered == ([](failures = 0)) => <>Outcome

(* Unless a handler throws or dies for an outside reason, a confirmation   *)
(* that was recorded reaches the traveller, although the row may be timed  *)
(* out or re-opened between the record and the message                     *)
(* (incidentRecoveryService.ts 480-524).                                   *)
ConfirmationsTold ==
  ([](failures = 0)) =>
    \A c \in Contacts : Answered(c, "available") ~> <<"confirmed", c>> \in told

(* No vendor keeps being asked: whatever throws or dies, and whatever a    *)
(* late call does to the row, every active attempt is answered or timed    *)
(* out in the end (incidentRecoveryService.ts 572-585, ariService.ts       *)
(* 274-321).                                                               *)
AttemptsClose == \A a \in Attempts : ActiveRow(a) ~> ~ActiveRow(a)

(* Violated: the advice to book a replacement says that the providers have *)
(* not confirmed in time (incidentRecoveryService.ts 345), so it is never  *)
(* sent after the traveller was told of one that did.                      *)
AdviceBeforeConfirmation ==
  [][(~Advised /\ Advised') => \A c \in Contacts : <<"confirmed", c>> \notin told]_vars
=============================================================================
