------------------------ MODULE IncidentRecoveryProofs ------------------------
(***************************************************************************)
(* Theorems about IncidentRecovery, for any vendors, threads and bounds.   *)
(* Rows and answers only accumulate, so that what a handler has read keeps *)
(* being true while it is suspended: that the assigned provider declined   *)
(* leads to the vendors, and that a vendor declined leads to the advice.   *)
(***************************************************************************)
EXTENDS IncidentRecovery, FiniteSetTheorems, TLAPS

RecoveryRecord == [status : RecoveryStatus, resolved : BOOLEAN]
AttemptRecord  == [status : AttemptStatus, responded : BOOLEAN]
CallRecord     == [stage : {"none", "job", "dialing", "connected", "asked", "answered", "over"},
                   dials : 0 .. MaxDials]
EventRecord    == [status : {"pending", "publishing", "published", "dead_letter"},
                   tries : 0 .. MaxTries]
ThreadRecord   == [pc : Steps, todo : SUBSET Contacts, due : SUBSET Attempts,
                   moved : BOOLEAN, attempt : Attempts \cup {None},
                   decision : Decisions, call : Attempts \cup {None}, key : Keys]

\* The part of the type invariant that relates the variables.
Holds(t) ==
  thread[t].pc \in {"announce", "record", "settle"} =>
    thread[t].attempt # None /\ Exists(thread[t].attempt)
RowsFirst == \A a \in Attempts : attempts[a].responded \/ calls[a].stage # "none" => Exists(a)
-----------------------------------------------------------------------------
\* Threads that have found no row of a contact and are about to create one.
Creating(c) == {t \in Threads : thread[t].pc = "create" /\ thread[t].attempt[1] = c}

\* The rows of a contact are numbered, and there is a number left for everyone
\* who is about to create one.
Numbered(c) ==
  /\ RowsOf(c) = {<<c, i>> : i \in 1 .. Cardinality(RowsOf(c))}
  /\ Cardinality(RowsOf(c)) + Cardinality(Creating(c)) <= Cardinality(Threads)
RowsNumbered == \A c \in Contacts : Numbered(c)

\* A row is announced once, by the thread that created it, and not called before.
Announced ==
  \A t \in Threads :
    /\ thread[t].pc = "create" => thread[t].attempt # None
    /\ thread[t].pc = "announce" =>
         /\ calls[thread[t].attempt] = NoCall
         /\ \A u \in Threads \ {t} :
              thread[u].pc = "announce" => thread[u].attempt # thread[t].attempt

\* What is tried again is tried less often than it may be.
TriesLeft ==
  /\ event.status = "pending" => event.tries < MaxTries
  /\ \A a \in Attempts : /\ calls[a].stage = "none" => calls[a].dials = 0
                         /\ calls[a].stage = "job" => calls[a].dials < MaxDials

RowInv == RowsNumbered /\ Announced /\ TriesLeft
-----------------------------------------------------------------------------
AssignedDeclined == HasAssigned => Declined(Assigned)
VendorDone == \E c \in Alternatives : Declined(c) \/ Answered(c, "human")
AdviceDue == AssignedDeclined /\ (Alternatives # {} => VendorDone)
SomeTimedOut == \E c \in Contacts : Answered(c, "timeout")

\* The history has every answer that a row shows, and only answers of rows.
AnswersSaid ==
  /\ \A a \in Attempts :
       /\ attempts[a].status = "timed_out" => Answered(a[1], "timeout")
       /\ attempts[a].status = "responded_unavailable" => Answered(a[1], "unavailable")
       /\ attempts[a].status = "human_requested" => Answered(a[1], "human")
  /\ \A k \in said : RowsOf(k[1]) # {}

\* Why a handler is where it is.
Reasons(t) ==
  /\ thread[t].pc \in {"source", "list_vendors"} => AssignedDeclined
  /\ thread[t].todo \cap Alternatives # {} => AssignedDeclined
  /\ thread[t].attempt # None /\ thread[t].attempt[1] \in Alternatives => AssignedDeclined
  /\ thread[t].pc = "count_active" => AdviceDue
  /\ thread[t].pc = "advise" \/ thread[t].key = <<"self_booking", None>> => AdviceDue
  /\ thread[t].pc \in {"idle", "time_out"} /\ thread[t].moved => SomeTimedOut
  /\ thread[t].pc = "review" => SomeTimedOut

OrderInv ==
  /\ AnswersSaid
  /\ \A t \in Threads : Reasons(t)
  /\ FallbackInOrder

IInv == TypeOK /\ RowInv /\ OrderInv
-----------------------------------------------------------------------------
LEMMA Types ==
  TypeOK <=> /\ recovery \in RecoveryRecord /\ attempts \in [Attempts -> AttemptRecord]
             /\ calls \in [Attempts -> CallRecord] /\ event \in EventRecord
             /\ thread \in [Threads -> ThreadRecord]
             /\ told \subseteq Keys /\ said \subseteq Contacts \X (Decisions \cup {"timeout"})
             /\ (\A t \in Threads : Holds(t)) /\ RowsFirst
BY DEF TypeOK, RecoveryRecord, AttemptRecord, CallRecord, EventRecord, ThreadRecord, Holds,
       RowsFirst

LEMMA TypesNext ==
  ASSUME recovery' \in RecoveryRecord, attempts' \in [Attempts -> AttemptRecord],
         calls' \in [Attempts -> CallRecord], event' \in EventRecord,
         thread' \in [Threads -> ThreadRecord],
         told' \subseteq Keys, said' \subseteq Contacts \X (Decisions \cup {"timeout"}),
         \A t \in Threads : Holds(t)', RowsFirst'
  PROVE  TypeOK'
BY DEF TypeOK, RecoveryRecord, AttemptRecord, CallRecord, EventRecord, ThreadRecord, Holds,
       RowsFirst

LEMMA Finite ==
  /\ IsFiniteSet(Threads) /\ IsFiniteSet(Contacts) /\ IsFiniteSet(Attempts)
  /\ Cardinality(Threads) \in Nat
<1>1. IsFiniteSet(Threads)
  BY FS_Union, FS_Singleton, ThreadsAssumption DEF Threads
<1>2. Cardinality(Threads) \in Nat
  BY <1>1, FS_CardinalityType
<1>3. IsFiniteSet(Contacts)
  BY FS_Union, FS_Singleton, FS_EmptySet, AlternativesAssumption DEF Contacts
<1>4. IsFiniteSet(1 .. Cardinality(Threads))
  BY <1>2, FS_Interval
<1>5. IsFiniteSet(Attempts)
  BY <1>3, <1>4, FS_Product DEF Attempts
<1> QED BY <1>1, <1>2, <1>3, <1>5

LEMMA AttemptParts ==
  \A a \in Attempts : /\ a[1] \in Contacts /\ a[2] \in 1 .. Cardinality(Threads)
                      /\ a = <<a[1], a[2]>> /\ a # None
BY NoneAssumption DEF Attempts
-----------------------------------------------------------------------------
(* What the parts of a handler do to its thread. *)

\* No other thread moves.
Alone(t) ==
  /\ thread' \in [Threads -> ThreadRecord]
  /\ \A u \in Threads \ {t} : thread'[u] = thread[u]

LEMMA MovesTo ==
  ASSUME TypeOK, NEW t \in Threads, NEW r \in ThreadRecord, thread' = [thread EXCEPT ![t] = r]
  PROVE  Alone(t) /\ thread'[t] = r
BY Types DEF Alone

LEMMA ProceedTo ==
  ASSUME TypeOK, NEW t \in Threads, NEW pc \in Steps, Proceed(t, pc)
  PROVE  /\ Alone(t)
         /\ thread'[t] = [thread[t] EXCEPT !.pc = pc]
BY Types DEF Proceed, Alone, ThreadRecord

\* The next statement of the handler tells the traveller.
Tells(t, key) == thread'[t] = [thread[t] EXCEPT !.pc = "tell", !.key = key]

LEMMA TellTo ==
  ASSUME TypeOK, NEW t \in Threads, NEW kind, NEW who, <<kind, who>> \in Keys, Tell(t, kind, who)
  PROVE  Alone(t) /\ Tells(t, <<kind, who>>)
<1>1. "tell" \in Steps
  BY DEF Steps
<1>2. [thread[t] EXCEPT !.pc = "tell", !.key = <<kind, who>>] \in ThreadRecord
  BY <1>1, Types DEF ThreadRecord
<1> QED BY <1>2, MovesTo DEF Tell, Tells

LEMMA IdleRecord == Idle \in ThreadRecord
BY DEF Idle, ThreadRecord, Steps, Decisions, Keys

LEMMA EndsTo ==
  ASSUME TypeOK, NEW t \in Threads, Ends(t)
  PROVE  Alone(t) /\ thread'[t] = Idle
BY IdleRecord, MovesTo DEF Ends

LEMMA ReturnTo ==
  ASSUME TypeOK, NEW t \in Threads, Return(t)
  PROVE  /\ Alone(t) /\ thread'[t] = Idle
         /\ event' \in EventRecord
         /\ event' = event \/ event'.status = "published"
BY EndsTo, Types DEF Return, EventRecord

LEMMA ThrowsTo ==
  ASSUME TypeOK, TriesLeft, NEW t \in Threads, Throws(t)
  PROVE  /\ Alone(t)
         /\ thread'[t] = Idle \/ thread'[t] = [thread[t] EXCEPT !.pc = "mark_failed"]
         /\ event' \in EventRecord
         /\ event'.status = "pending" => event'.tries < MaxTries
<1>1. "mark_failed" \in Steps
  BY DEF Steps
<1>2. /\ Alone(t)
      /\ thread'[t] = Idle \/ thread'[t] = [thread[t] EXCEPT !.pc = "mark_failed"]
  BY <1>1, EndsTo, ProceedTo DEF Throws
<1>3. /\ event' \in EventRecord
      /\ event'.status = "pending" => event'.tries < MaxTries
  BY Types, TriesAssumption DEF Throws, EventRecord, TriesLeft, Exhausted
<1> QED BY <1>2, <1>3

LEMMA RouteTo ==
  ASSUME TypeOK, NEW t \in Threads, Route(t)
  PROVE  /\ Alone(t)
         /\ thread'[t] =
              IF HasAssigned
              THEN [thread[t] EXCEPT !.pc = "find", !.todo = {Assigned}, !.key = <<"none", None>>]
              ELSE [thread[t] EXCEPT !.pc = "source", !.key = <<"none", None>>]
<1>1. "find" \in Steps /\ "source" \in Steps /\ <<"none", None>> \in Keys
  BY DEF Steps, Keys
<1>2. CASE HasAssigned
  <2>1. [thread[t] EXCEPT !.pc = "find", !.todo = {Assigned}, !.key = <<"none", None>>]
          \in ThreadRecord
    BY <1>1, <1>2, Types DEF ThreadRecord, Contacts
  <2> QED BY <1>2, <2>1, MovesTo DEF Route
<1>3. CASE ~HasAssigned
  <2>1. [thread[t] EXCEPT !.pc = "source", !.key = <<"none", None>>] \in ThreadRecord
    BY <1>1, <1>3, Types DEF ThreadRecord
  <2> QED BY <1>3, <2>1, MovesTo DEF Route
<1> QED BY <1>2, <1>3

LEMMA ContactedTo ==
  ASSUME TypeOK, NEW t \in Threads, NEW c \in Contacts, Contacted(t, c)
  PROVE  /\ Alone(t)
         /\ \/ thread'[t] = Idle
            \/ /\ thread'[t].pc = "tell" /\ thread'[t].key = <<"contacted", None>>
               /\ thread'[t].todo \subseteq thread[t].todo /\ thread'[t].attempt = None
            \/ /\ thread'[t].pc = "find" /\ thread'[t].key = thread[t].key
               /\ thread'[t].todo \subseteq thread[t].todo /\ thread'[t].attempt = None
         /\ event' \in EventRecord
         /\ event' = event \/ event'.status = "published"
<1>1. CASE c = Assigned
  BY <1>1, ReturnTo DEF Contacted
<1>2. CASE c # Assigned
  <2> DEFINE rest == thread[t].todo \ {c}
  <2>1. event' = event /\ event \in EventRecord
    BY <1>2, Types DEF Contacted
  <2>2. rest \in SUBSET Contacts /\ rest \subseteq thread[t].todo
    BY Types DEF ThreadRecord
  <2>3. CASE rest = {}
    <3> DEFINE r == [thread[t] EXCEPT !.todo = rest, !.attempt = None, !.pc = "tell",
                                      !.key = <<"contacted", None>>]
    <3>1. thread' = [thread EXCEPT ![t] = r]
      BY <1>2, <2>3 DEF Contacted
    <3>2. "tell" \in Steps /\ <<"contacted", None>> \in Keys
      BY DEF Steps, Keys
    <3>3. r \in ThreadRecord /\ r.pc = "tell" /\ r.key = <<"contacted", None>>
          /\ r.todo = rest /\ r.attempt = None
      BY <2>2, <3>2, Types DEF ThreadRecord
    <3> HIDE DEF r
    <3> QED BY <2>1, <2>2, <3>1, <3>3, MovesTo
  <2>4. CASE rest # {}
    <3> DEFINE r == [thread[t] EXCEPT !.todo = rest, !.attempt = None, !.pc = "find",
                                      !.key = thread[t].key]
    <3>1. thread' = [thread EXCEPT ![t] = r]
      BY <1>2, <2>4 DEF Contacted
    <3>2. "find" \in Steps
      BY DEF Steps
    <3>3. r \in ThreadRecord /\ r.pc = "find" /\ r.key = thread[t].key
          /\ r.todo = rest /\ r.attempt = None
      BY <2>2, <3>2, Types DEF ThreadRecord
    <3> HIDE DEF r
    <3> QED BY <2>1, <2>2, <3>1, <3>3, MovesTo
  <2> QED BY <2>3, <2>4
<1> QED BY <1>1, <1>2

LEMMA ToldTo ==
  ASSUME TypeOK, NEW t \in Threads, Told(t)
  PROVE  /\ Alone(t)
         /\ thread'[t] = Idle \/ Route(t)
         /\ event' \in EventRecord
         /\ event' = event \/ event'.status = "published"
BY ReturnTo, RouteTo, Types DEF Told
-----------------------------------------------------------------------------
(* Where each handler goes. *)

Jumps(t, S) == thread'[t] = Idle \/ \E p \in S : thread'[t] = [thread[t] EXCEPT !.pc = p]

\* The handlers that only go on to another statement, or return.
LEMMA Jumping ==
  ASSUME TypeOK, TriesLeft, NEW t \in Threads
  PROVE  /\ TakeEvent(t) => Alone(t) /\ Jumps(t, {"start"})
         /\ Confirm(t) => Alone(t) /\ Jumps(t, {"resolve"})
         /\ MarkFailed(t) \/ Die(t) => Alone(t) /\ thread'[t] = Idle
         /\ Fail(t) => Alone(t) /\ Jumps(t, {"mark_failed"})
         /\ CountAlternatives(t) => Alone(t) /\ Jumps(t, {"list_vendors"})
         /\ CountActive(t) => Alone(t) /\ Jumps(t, {"advise"})
         /\ ReviewAlternatives(t) => Alone(t) /\ Jumps(t, {"source", "advise"})
         /\ RecordAnswer(t) => Alone(t) /\ Jumps(t, {"settle", "source", "count_active"})
<1> {"start", "resolve", "mark_failed", "list_vendors", "advise", "source", "settle",
     "count_active"} \subseteq Steps
  BY DEF Steps
<1>1. TakeEvent(t) => Alone(t) /\ Jumps(t, {"start"})
  BY ProceedTo DEF TakeEvent, Jumps
<1>2. Confirm(t) => Alone(t) /\ Jumps(t, {"resolve"})
  BY ProceedTo DEF Confirm, Jumps
<1>3. MarkFailed(t) \/ Die(t) => Alone(t) /\ thread'[t] = Idle
  BY EndsTo DEF MarkFailed, Die
<1>4. Fail(t) => Alone(t) /\ Jumps(t, {"mark_failed"})
  BY ThrowsTo DEF Fail, Jumps
<1>5. CountAlternatives(t) => Alone(t) /\ Jumps(t, {"list_vendors"})
  BY ProceedTo, ReturnTo DEF CountAlternatives, Jumps
<1>6. CountActive(t) => Alone(t) /\ Jumps(t, {"advise"})
  BY ProceedTo, ReturnTo DEF CountActive, Jumps
<1>7. ReviewAlternatives(t) => Alone(t) /\ Jumps(t, {"source", "advise"})
  BY ProceedTo, EndsTo DEF ReviewAlternatives, Jumps
<1>8. RecordAnswer(t) => Alone(t) /\ Jumps(t, {"settle", "source", "count_active"})
  <2> SUFFICES ASSUME RecordAnswer(t)
               PROVE  Alone(t) /\ Jumps(t, {"settle", "source", "count_active"})
    OBVIOUS
  <2>1. PICK p \in {"settle", "source", "count_active"} : Proceed(t, p)
    BY DEF RecordAnswer, AfterAnswer
  <2> QED BY <2>1, ProceedTo DEF Jumps
<1> QED BY <1>1, <1>2, <1>3, <1>4, <1>5, <1>6, <1>7, <1>8

\* The handlers that tell the traveller.
LEMMA Telling ==
  ASSUME TypeOK, TriesLeft, NEW t \in Threads
  PROVE  /\ Start(t) => Alone(t) /\ (thread'[t] = Idle \/ Tells(t, <<"opened", None>>))
         /\ Advise(t) => Alone(t) /\ Tells(t, <<"self_booking", None>>)
         /\ Settle(t) => Alone(t) /\ \E k \in Keys : k # <<"self_booking", None>> /\ Tells(t, k)
         /\ Resolve(t) => Alone(t) /\ Tells(t, <<"resolved", None>>)
         /\ TellLooksUp(t) \/ TellCreates(t) =>
              Alone(t) /\ (Jumps(t, {"send", "mark_failed"}) \/ Route(t))
<1>1. /\ <<"opened", None>> \in Keys /\ <<"self_booking", None>> \in Keys
      /\ <<"resolved", None>> \in Keys
  BY DEF Keys
<1>t. ASSUME NEW kind \in {"opened", "self_booking", "resolved"}, Tell(t, kind, None)
      PROVE  Alone(t) /\ Tells(t, <<kind, None>>)
  <2>1. <<kind, None>> \in Keys
    BY <1>1
  <2> QED BY <1>t, <2>1, TellTo
<1>2. Start(t) => Alone(t) /\ (thread'[t] = Idle \/ Tells(t, <<"opened", None>>))
  BY <1>t, ReturnTo DEF Start
<1>3. Advise(t) => Alone(t) /\ Tells(t, <<"self_booking", None>>)
  BY <1>t DEF Advise
<1>4. Settle(t) => Alone(t) /\ \E k \in Keys : k # <<"self_booking", None>> /\ Tells(t, k)
  <2> SUFFICES ASSUME Settle(t)
               PROVE  Alone(t) /\ \E k \in Keys : k # <<"self_booking", None>> /\ Tells(t, k)
    OBVIOUS
  <2> DEFINE a == thread[t].attempt
  <2>1. a \in Attempts
    BY Types DEF Settle, At, Holds, ThreadRecord
  <2>2. <<"human", a>> \in Keys /\ <<"confirmed", a[1]>> \in Keys
    BY <2>1, AttemptParts DEF Keys
  <2>3. Tell(t, "human", a) \/ Tell(t, "confirmed", a[1])
    BY DEF Settle
  <2>4. Alone(t) /\ (Tells(t, <<"human", a>>) \/ Tells(t, <<"confirmed", a[1]>>))
    BY <2>2, <2>3, TellTo
  <2>5. <<"human", a>> # <<"self_booking", None>> /\ <<"confirmed", a[1]>> # <<"self_booking", None>>
    OBVIOUS
  <2> QED BY <2>2, <2>4, <2>5
<1>5. Resolve(t) => Alone(t) /\ Tells(t, <<"resolved", None>>)
  BY <1>t DEF Resolve
<1>6. TellLooksUp(t) \/ TellCreates(t) =>
        Alone(t) /\ (Jumps(t, {"send", "mark_failed"}) \/ Route(t))
  <2>1. "send" \in Steps
    BY DEF Steps
  <2> QED BY <2>1, ToldTo, ProceedTo, ThrowsTo DEF TellLooksUp, TellCreates, Jumps
<1> QED BY <1>2, <1>3, <1>4, <1>5, <1>6

\* The handlers that take an attempt, a list of vendors or of rows.
LEMMA Finds ==
  ASSUME TypeOK, NEW t \in Threads, FindAttempt(t)
  PROVE  \E c \in thread[t].todo :
           /\ c \in Contacts
           /\ \/ Contacted(t, c)
              \/ /\ RowsOf(c) = {} /\ Alone(t) /\ event' = event
                 /\ thread'[t].pc = "create" /\ thread'[t].attempt = <<c, 1>>
                 /\ <<c, 1>> \in Attempts
                 /\ thread'[t].todo \subseteq thread[t].todo /\ thread'[t].key = thread[t].key
<1>1. PICK c \in thread[t].todo :
        IF RowsOf(c) # {}
        THEN Contacted(t, c)
        ELSE /\ thread' = [thread EXCEPT ![t] = [@ EXCEPT !.pc = "create",
                             !.todo = thread[t].todo \ {c}, !.attempt = <<c, 1>>]]
             /\ UNCHANGED event
  BY DEF FindAttempt
<1>2. c \in Contacts
  BY Types DEF ThreadRecord
<1>3. CASE RowsOf(c) = {}
  <2> DEFINE r == [thread[t] EXCEPT !.pc = "create", !.todo = thread[t].todo \ {c},
                                    !.attempt = <<c, 1>>]
  <2>1. <<c, 1>> \in Attempts
    <3>1. t \in Threads => Cardinality(Threads) # 0
      BY Finite, FS_EmptySet
    <3> QED BY <1>2, <3>1, Finite DEF Attempts
  <2>2. thread' = [thread EXCEPT ![t] = r] /\ event' = event
    BY <1>1, <1>3
  <2>3. "create" \in Steps
    BY DEF Steps
  <2>4. /\ r \in ThreadRecord /\ r.pc = "create" /\ r.attempt = <<c, 1>>
        /\ r.todo \subseteq thread[t].todo /\ r.key = thread[t].key
    BY <2>1, <2>3, Types DEF ThreadRecord
  <2> HIDE DEF r
  <2>5. Alone(t) /\ thread'[t] = r
    BY <2>2, <2>4, MovesTo
  <2> QED BY <1>2, <1>3, <2>1, <2>2, <2>4, <2>5
<1>4. CASE RowsOf(c) # {}
  BY <1>1, <1>2, <1>4
<1> QED BY <1>3, <1>4

LEMMA Creates ==
  ASSUME TypeOK, RowInv, NEW t \in Threads, CreateAttempt(t)
  PROVE  \E a \in Attempts :
           /\ a[1] = thread[t].attempt[1] /\ a = <<a[1], Cardinality(RowsOf(a[1])) + 1>>
           /\ t \in Creating(a[1]) /\ ~Exists(a)
           /\ attempts' \in [Attempts -> AttemptRecord]
           /\ \A b \in Attempts : attempts'[b] = IF b = a THEN [status |-> "queued", responded |-> FALSE]
                                                         ELSE attempts[b]
           /\ Alone(t)
           /\ thread'[t].pc = "announce" /\ thread'[t].attempt = a
           /\ thread'[t].todo = thread[t].todo /\ thread'[t].key = thread[t].key
<1> DEFINE c == thread[t].attempt[1]
           a == <<c, Cardinality(RowsOf(c)) + 1>>
           r == [thread[t] EXCEPT !.pc = "announce", !.attempt = a]
<1>1. thread[t].pc = "create" /\ thread[t].attempt \in Attempts
  BY Types DEF CreateAttempt, At, RowInv, Announced, ThreadRecord
<1>2. c \in Contacts
  BY <1>1, AttemptParts
<1>3. t \in Creating(c) /\ IsFiniteSet(Creating(c)) /\ Cardinality(Creating(c)) \in Nat \ {0}
  <2>1. t \in Creating(c) /\ Creating(c) \subseteq Threads
    BY <1>1 DEF Creating
  <2>2. IsFiniteSet(Creating(c))
    BY <2>1, Finite, FS_Subset
  <2> QED BY <2>1, <2>2, FS_CardinalityType, FS_EmptySet
<1>4. Cardinality(RowsOf(c)) \in Nat
  <2>1. RowsOf(c) \subseteq Attempts
    BY DEF RowsOf
  <2> QED BY <2>1, Finite, FS_Subset, FS_CardinalityType
<1>5. a \in Attempts
  <2>1. Cardinality(RowsOf(c)) + Cardinality(Creating(c)) <= Cardinality(Threads)
    BY <1>2 DEF RowInv, RowsNumbered, Numbered
  <2>2. Cardinality(RowsOf(c)) + 1 \in 1 .. Cardinality(Threads)
    BY <1>3, <1>4, <2>1, Finite
  <2> QED BY <1>2, <2>2 DEF Attempts
<1>6. ~Exists(a)
  <2>1. a \notin {<<c, i>> : i \in 1 .. Cardinality(RowsOf(c))}
    BY <1>4
  <2>2. a \notin RowsOf(c)
    BY <1>2, <2>1 DEF RowInv, RowsNumbered, Numbered
  <2> QED BY <1>5, <2>2 DEF RowsOf
<1>7. /\ attempts' = [attempts EXCEPT ![a] = [status |-> "queued", responded |-> FALSE]]
      /\ thread' = [thread EXCEPT ![t] = r]
  BY DEF CreateAttempt
<1> HIDE DEF a
<1>8. /\ attempts' \in [Attempts -> AttemptRecord]
      /\ \A b \in Attempts : attempts'[b] = IF b = a THEN [status |-> "queued", responded |-> FALSE]
                                                    ELSE attempts[b]
  <2>1. "queued" \in AttemptStatus
    BY DEF AttemptStatus, Active
  <2> QED BY <1>5, <1>7, <2>1, Types DEF AttemptRecord
<1>9. /\ r \in ThreadRecord /\ r.pc = "announce" /\ r.attempt = a
      /\ r.todo = thread[t].todo /\ r.key = thread[t].key
  <2>1. thread[t] \in ThreadRecord /\ "announce" \in Steps
    BY Types DEF Steps
  <2>2. r \in ThreadRecord
    BY <1>5, <2>1 DEF ThreadRecord
  <2>3. /\ r.pc = "announce" /\ r.attempt = a /\ r.todo = thread[t].todo
        /\ r.key = thread[t].key
    BY <2>1 DEF ThreadRecord
  <2> QED BY <2>2, <2>3
<1>10. Alone(t) /\ thread'[t] = r
  <2> HIDE DEF r
  <2> QED BY <1>7, <1>9, MovesTo
<1> QED BY <1>3, <1>5, <1>6, <1>8, <1>9, <1>10 DEF a

LEMMA Lists ==
  ASSUME TypeOK, NEW t \in Threads, ListVendors(t)
  PROVE  /\ Alone(t)
         /\ \/ Alternatives = {} /\ Jumps(t, {"advise"})
            \/ /\ thread'[t].pc = "find" /\ thread'[t].todo = Alternatives
               /\ thread'[t].key = thread[t].key /\ thread'[t].attempt = thread[t].attempt
<1>1. CASE Alternatives = {}
  <2>1. "advise" \in Steps
    BY DEF Steps
  <2> QED BY <1>1, <2>1, ProceedTo DEF ListVendors, Jumps
<1>2. CASE Alternatives # {}
  <2> DEFINE r == [thread[t] EXCEPT !.pc = "find", !.todo = Alternatives]
  <2>1. thread' = [thread EXCEPT ![t] = r]
    BY <1>2 DEF ListVendors
  <2>2. /\ r \in ThreadRecord /\ r.pc = "find" /\ r.todo = Alternatives
        /\ r.key = thread[t].key /\ r.attempt = thread[t].attempt
    <3>1. thread[t] \in ThreadRecord /\ "find" \in Steps /\ Alternatives \subseteq Contacts
      BY Types DEF Steps, Contacts
    <3>2. r \in ThreadRecord
      BY <3>1 DEF ThreadRecord
    <3>3. /\ r.pc = "find" /\ r.todo = Alternatives
          /\ r.key = thread[t].key /\ r.attempt = thread[t].attempt
      BY <3>1 DEF ThreadRecord
    <3> QED BY <3>2, <3>3
  <2> HIDE DEF r
  <2> QED BY <2>1, <2>2, MovesTo
<1> QED BY <1>1, <1>2

LEMMA Reading ==
  ASSUME TypeOK, NEW t \in Threads, NEW a \in Attempts, NEW d \in Decisions,
         NEW call \in Attempts \cup {None}, ReadsAttempt(t, a, d, call)
  PROVE  /\ Alone(t) /\ Exists(a)
         /\ thread'[t].pc = "record" /\ thread'[t].attempt = a
         /\ thread'[t].todo = thread[t].todo /\ thread'[t].key = thread[t].key
<1> DEFINE r == [thread[t] EXCEPT !.pc = "record", !.attempt = a, !.decision = d,
                                 !.call = call]
<1>1. thread' = [thread EXCEPT ![t] = r] /\ Exists(a)
  BY DEF ReadsAttempt
<1>2. /\ r \in ThreadRecord /\ r.pc = "record" /\ r.attempt = a
      /\ r.todo = thread[t].todo /\ r.key = thread[t].key
  <2>1. thread[t] \in ThreadRecord /\ "record" \in Steps
    BY Types DEF Steps
  <2>2. r \in ThreadRecord
    BY <2>1 DEF ThreadRecord
  <2>3. /\ r.pc = "record" /\ r.attempt = a
        /\ r.todo = thread[t].todo /\ r.key = thread[t].key
    BY <2>1 DEF ThreadRecord
  <2> QED BY <2>2, <2>3
<1> HIDE DEF r
<1> QED BY <1>1, <1>2, MovesTo

\* The steps of the sweep.
LEMMA Sweeping ==
  ASSUME TypeOK, NEW t \in Threads,
         \/ TimeOut(t) \/ CountAssigned(t) \/ \E due \in SUBSET ActiveRows : SweepLists(t, due)
  PROVE  /\ Alone(t)
         /\ \/ thread'[t] = Idle
            \/ /\ thread'[t].pc \in {"time_out", "review"}
               /\ thread'[t].todo = thread[t].todo /\ thread'[t].key = thread[t].key
               /\ thread'[t].attempt = thread[t].attempt
               /\ thread'[t].pc = "review" => CountAssigned(t) /\ thread[t].moved
               /\ thread'[t].pc = "time_out" /\ thread'[t].moved /\ ~thread[t].moved =>
                    \E a \in thread[t].due : /\ ActiveRow(a) /\ a \in Attempts
                                             /\ <<a[1], "timeout">> \in said'
<1>1. ASSUME NEW r \in ThreadRecord, thread' = [thread EXCEPT ![t] = r],
             r.pc \in {"time_out", "review"}, r.todo = thread[t].todo, r.key = thread[t].key,
             r.attempt = thread[t].attempt
      PROVE  /\ Alone(t) /\ thread'[t] = r
             /\ thread'[t].pc \in {"time_out", "review"}
             /\ thread'[t].todo = thread[t].todo /\ thread'[t].key = thread[t].key
             /\ thread'[t].attempt = thread[t].attempt
  BY <1>1, MovesTo
<1>2. "time_out" \in Steps /\ "review" \in Steps
  BY DEF Steps
<1>3. CASE TimeOut(t)
  <2>1. PICK a \in thread[t].due :
          /\ thread' = [thread EXCEPT ![t] = [@ EXCEPT !.due = thread[t].due \ {a},
                                                       !.moved = thread[t].moved \/ ActiveRow(a)]]
          /\ ActiveRow(a) => said' = said \cup {<<a[1], "timeout">>}
    BY <1>3 DEF TimeOut
  <2> DEFINE r == [thread[t] EXCEPT !.due = thread[t].due \ {a},
                                    !.moved = thread[t].moved \/ ActiveRow(a)]
  <2>2. a \in Attempts /\ (thread[t].moved \/ ActiveRow(a)) \in BOOLEAN
    BY Types DEF ThreadRecord
  <2>3. /\ r \in ThreadRecord /\ r.pc = "time_out" /\ r.todo = thread[t].todo
        /\ r.key = thread[t].key /\ r.attempt = thread[t].attempt
        /\ r.moved = (thread[t].moved \/ ActiveRow(a))
    <3>1. thread[t] \in ThreadRecord /\ thread[t].pc = "time_out"
      BY <1>3, Types DEF TimeOut, At
    <3>2. r \in ThreadRecord
      BY <2>2, <3>1, Zenon DEF ThreadRecord
    <3>3. /\ r.pc = "time_out" /\ r.todo = thread[t].todo
          /\ r.key = thread[t].key /\ r.attempt = thread[t].attempt
          /\ r.moved = (thread[t].moved \/ ActiveRow(a))
      BY <3>1, Zenon DEF ThreadRecord
    <3> QED BY <3>2, <3>3
  <2>4. thread' = [thread EXCEPT ![t] = r]
    BY <2>1
  <2> HIDE DEF r
  <2>5. /\ Alone(t) /\ thread'[t] = r
        /\ thread'[t].todo = thread[t].todo /\ thread'[t].key = thread[t].key
        /\ thread'[t].attempt = thread[t].attempt
    BY <1>1, <2>3, <2>4
  <2> QED BY <2>1, <2>2, <2>3, <2>5
<1>4. CASE CountAssigned(t)
  <2>1. CASE thread[t].moved
    <3> DEFINE r == [thread[t] EXCEPT !.pc = "review",
                                      !.moved = \E a \in AssignedRows : ActiveRow(a)]
    <3>1. thread' = [thread EXCEPT ![t] = r]
      BY <1>4, <2>1 DEF CountAssigned
    <3>2. (\E a \in AssignedRows : ActiveRow(a)) \in BOOLEAN
      OBVIOUS
    <3>3. /\ r \in ThreadRecord /\ r.pc = "review" /\ r.todo = thread[t].todo
          /\ r.key = thread[t].key /\ r.attempt = thread[t].attempt
      BY <1>2, <3>2, Types DEF ThreadRecord
    <3> HIDE DEF r
    <3> QED BY <1>1, <1>4, <2>1, <3>1, <3>3
  <2>2. CASE ~thread[t].moved
    BY <1>4, <2>2, EndsTo DEF CountAssigned
  <2> QED BY <2>1, <2>2
<1>5. ASSUME NEW due \in SUBSET ActiveRows, SweepLists(t, due)
      PROVE  /\ Alone(t)
             /\ thread'[t].pc = "time_out" /\ thread'[t].moved = thread[t].moved
             /\ thread'[t].todo = thread[t].todo /\ thread'[t].key = thread[t].key
             /\ thread'[t].attempt = thread[t].attempt
  <2> DEFINE r == [thread[t] EXCEPT !.pc = "time_out", !.due = due]
  <2>1. thread' = [thread EXCEPT ![t] = r]
    BY <1>5 DEF SweepLists
  <2>2. /\ r \in ThreadRecord /\ r.pc = "time_out" /\ r.todo = thread[t].todo
        /\ r.key = thread[t].key /\ r.attempt = thread[t].attempt /\ r.moved = thread[t].moved
    BY <1>2, Types DEF ThreadRecord, ActiveRows
  <2> HIDE DEF r
  <2> QED BY <1>1, <2>1, <2>2
<1> QED BY <1>3, <1>4, <1>5
-----------------------------------------------------------------------------
(* What the handlers and the telephone do to the rows. *)

HandlerSteps(t) ==
  \/ TakeEvent(t) \/ Handles(t) \/ Fail(t) \/ Die(t)
  \/ (\E due \in SUBSET ActiveRows : SweepLists(t, due))
  \/ Answers(t) \/ Confirm(t)

SameRows == \A a \in Attempts : Exists(a)' <=> Exists(a)

LEMMA Announcing ==
  ASSUME TypeOK, NEW t \in Threads, Announce(t)
  PROVE  /\ thread[t].pc = "announce" /\ thread[t].attempt \in Attempts
         /\ Exists(thread[t].attempt)
         /\ Contacted(t, thread[t].attempt[1]) /\ thread[t].attempt[1] \in Contacts
<1>1. thread[t].pc = "announce" /\ Contacted(t, thread[t].attempt[1])
  BY DEF Announce, At
<1>2. thread[t].attempt \in Attempts /\ Exists(thread[t].attempt)
  BY <1>1, Types DEF Holds, ThreadRecord
<1> QED BY <1>1, <1>2, AttemptParts

LEMMA Recording ==
  ASSUME TypeOK, NEW t \in Threads, RecordAnswer(t)
  PROVE  /\ thread[t].attempt \in Attempts /\ Exists(thread[t].attempt)
         /\ thread[t].attempt[1] \in Contacts /\ thread[t].decision \in Decisions
<1>1. thread[t].pc = "record"
  BY DEF RecordAnswer, At
<1>2. thread[t].attempt \in Attempts /\ Exists(thread[t].attempt)
  BY <1>1, Types DEF Holds, ThreadRecord
<1> QED BY <1>2, AttemptParts, Types DEF ThreadRecord

\* A handler moves its own thread, and only the two statements that create a
\* row are about a row that does not exist.
LEMMA HandlerMoves ==
  ASSUME TypeOK, RowInv, NEW t \in Threads, HandlerSteps(t)
  PROVE  /\ Alone(t)
         /\ FindAttempt(t) \/ CreateAttempt(t) \/ thread'[t].pc \notin {"create", "announce"}
         /\ thread'[t].pc \in {"record", "settle"} =>
              thread'[t].attempt \in Attempts /\ Exists(thread'[t].attempt)
<1> DEFINE Fine == /\ Alone(t)
                   /\ thread'[t].pc \notin {"create", "announce", "record", "settle"}
<1>0. TriesLeft /\ thread[t] \in ThreadRecord /\ Idle.pc = "idle"
  BY Types DEF RowInv, Idle
<1>1. ASSUME NEW S, Alone(t), Jumps(t, S),
             S \cap {"create", "announce", "record", "settle"} = {}
      PROVE  Fine
  BY <1>0, <1>1 DEF Jumps, ThreadRecord
<1>2. ASSUME NEW key, Alone(t), Tells(t, key) PROVE Fine
  BY <1>0, <1>2 DEF Tells, ThreadRecord
<1>3. ASSUME Alone(t), thread'[t] = Idle PROVE Fine
  BY <1>0, <1>3
<1>4. CASE \/ TakeEvent(t) \/ Confirm(t) \/ MarkFailed(t) \/ Die(t) \/ Fail(t)
           \/ CountAlternatives(t) \/ CountActive(t) \/ ReviewAlternatives(t)
  BY <1>0, <1>1, <1>3, <1>4, Jumping
<1>5. CASE RecordAnswer(t)
  <2>1. Alone(t) /\ Jumps(t, {"settle", "source", "count_active"})
    BY <1>0, <1>5, Jumping
  <2>2. thread'[t].pc \in {"settle", "source", "count_active", "idle"}
    BY <1>0, <2>1 DEF Jumps, ThreadRecord
  <2>3. thread'[t].pc = "settle" => thread'[t].attempt = thread[t].attempt
    BY <1>0, <2>1 DEF Jumps, ThreadRecord
  <2> QED BY <1>5, <2>1, <2>2, <2>3, Recording
<1>6. CASE Start(t) \/ Advise(t) \/ Settle(t) \/ Resolve(t)
  BY <1>0, <1>2, <1>3, <1>6, Telling
<1>7. CASE TellLooksUp(t) \/ TellCreates(t)
  <2>1. Alone(t) /\ (Jumps(t, {"send", "mark_failed"}) \/ Route(t))
    BY <1>0, <1>7, Telling
  <2>2. Route(t) => Fine
    BY <1>0, RouteTo DEF ThreadRecord
  <2> QED BY <1>1, <2>1, <2>2
<1>8. ASSUME NEW c \in Contacts, Contacted(t, c) PROVE Fine
  BY <1>0, <1>8, ContactedTo
<1>9. CASE FindAttempt(t) \/ CreateAttempt(t)
  <2>1. CASE FindAttempt(t)
    BY <1>8, <1>9, <2>1, Finds
  <2>2. CASE CreateAttempt(t)
    BY <1>9, <2>2, Creates
  <2> QED BY <1>9, <2>1, <2>2
<1>10. CASE Announce(t)
  BY <1>8, <1>10, Announcing
<1>11. CASE ListVendors(t)
  BY <1>1, <1>11, Lists
<1>12. CASE Answers(t)
  <2>1. PICK a \in Attempts, d \in Decisions, call \in Attempts \cup {None} :
          ReadsAttempt(t, a, d, call)
    BY <1>12 DEF Answers, LinkAnswers, CallAnswers
  <2> QED BY <2>1, Reading
<1>13. CASE \/ TimeOut(t) \/ CountAssigned(t) \/ \E due \in SUBSET ActiveRows : SweepLists(t, due)
  BY <1>0, <1>13, Sweeping
<1> QED BY <1>4, <1>5, <1>6, <1>7, <1>9, <1>10, <1>11, <1>12, <1>13 DEF HandlerSteps, Handles

\* Only CreateAttempt creates a row, and no row goes.
LEMMA HandlerRows ==
  ASSUME TypeOK, RowInv, NEW t \in Threads, HandlerSteps(t), ~CreateAttempt(t)
  PROVE  /\ attempts' \in [Attempts -> AttemptRecord]
         /\ SameRows
         /\ \A a \in Attempts : attempts'[a].responded => Exists(a)
<1>1. CASE attempts' = attempts
  BY <1>1, Types DEF SameRows, Exists, RowsFirst
<1>2. ASSUME NEW a \in Attempts, NEW s \in AttemptStatus \ {"none"}, Exists(a),
             attempts' = [attempts EXCEPT ![a] = [status |-> s, responded |-> TRUE]]
      PROVE  /\ attempts' \in [Attempts -> AttemptRecord]
             /\ SameRows
             /\ \A b \in Attempts : attempts'[b].responded => Exists(b)
  BY <1>2, Types DEF SameRows, Exists, RowsFirst, AttemptRecord
<1>3. CASE RecordAnswer(t)
  <2> DEFINE s == Recorded(thread[t].decision)
  <2>1. s \in AttemptStatus \ {"none"}
    BY <1>3, Recording DEF Recorded, Decisions, AttemptStatus
  <2>2. attempts' = [attempts EXCEPT ![thread[t].attempt] = [status |-> s, responded |-> TRUE]]
    BY <1>3 DEF RecordAnswer
  <2> HIDE DEF s
  <2> QED BY <1>2, <1>3, <2>1, <2>2, Recording
<1>4. CASE TimeOut(t)
  <2>1. PICK a \in thread[t].due :
          \/ attempts' = attempts
          \/ /\ ActiveRow(a)
             /\ attempts' = [attempts EXCEPT ![a] = [status |-> "timed_out", responded |-> TRUE]]
    BY <1>4 DEF TimeOut
  <2>2. a \in Attempts /\ (ActiveRow(a) => Exists(a)) /\ "timed_out" \in AttemptStatus \ {"none"}
    BY Types DEF ThreadRecord, ActiveRow, Active, Exists, AttemptStatus
  <2> QED BY <1>1, <1>2, <2>1, <2>2
<1>5. CASE ~RecordAnswer(t) /\ ~TimeOut(t)
  <2>1. attempts' = attempts
    BY <1>5 DEF HandlerSteps, Handles, TakeEvent, Fail, Die, SweepLists, Answers, LinkAnswers,
                CallAnswers, Confirm, Start, MarkFailed, FindAttempt, Announce, CountAlternatives,
                ListVendors, Advise, TellLooksUp, TellCreates, Settle, CountActive, CountAssigned,
                ReviewAlternatives, Resolve
  <2> QED BY <1>1, <2>1
<1> QED BY <1>3, <1>4, <1>5

\* A call begins when its row is announced.
LEMMA HandlerCalls ==
  ASSUME TypeOK, RowInv, NEW t \in Threads, HandlerSteps(t)
  PROVE  /\ calls' \in [Attempts -> CallRecord]
         /\ \A a \in Attempts :
              /\ calls'[a] # calls[a] =>
                   \/ Announce(t) /\ a = thread[t].attempt
                   \/ calls[a].stage # "none" /\ calls'[a].stage # "none"
              /\ calls'[a].stage = "none" => calls'[a].dials = 0
              /\ calls'[a].stage = "job" => calls'[a].dials < MaxDials
<1>1. CASE calls' = calls
  BY <1>1, Types DEF RowInv, TriesLeft
<1>2. CASE Announce(t)
  <2> DEFINE a == thread[t].attempt
             s == IF a[1] \in Phoned THEN "job" ELSE "none"
  <2>1. a \in Attempts /\ calls[a] = NoCall
    BY <1>2, Announcing DEF RowInv, Announced
  <2>2. calls' = [calls EXCEPT ![a].stage = s]
    BY <1>2 DEF Announce
  <2>3. calls'[a].stage = s /\ calls'[a].dials = 0 /\ \A b \in Attempts \ {a} : calls'[b] = calls[b]
    BY <2>1, <2>2, Types DEF NoCall, CallRecord
  <2>4. calls' \in [Attempts -> CallRecord]
    BY <2>1, <2>2, Types DEF CallRecord
  <2> HIDE DEF a, s
  <2> QED BY <1>2, <2>1, <2>3, <2>4, DialsAssumption DEF RowInv, TriesLeft, a
<1>3. ASSUME NEW a \in Attempts, NEW d \in Decisions, CallAnswers(t, a, d)
      PROVE  /\ calls' \in [Attempts -> CallRecord]
             /\ calls[a].stage = "asked" /\ calls'[a].stage = "answered"
             /\ \A b \in Attempts \ {a} : calls'[b] = calls[b]
  BY <1>3, Types DEF CallAnswers, CallRecord
<1>4. CASE ~Announce(t) /\ ~\E a \in Attempts, d \in Decisions : CallAnswers(t, a, d)
  <2>1. calls' = calls
    BY <1>4 DEF HandlerSteps, Handles, TakeEvent, Fail, Die, SweepLists, Answers, LinkAnswers,
                Confirm, Start, MarkFailed, FindAttempt, CreateAttempt, CountAlternatives,
                ListVendors, Advise, TellLooksUp, TellCreates, RecordAnswer, Settle, CountActive,
                TimeOut, CountAssigned, ReviewAlternatives, Resolve
  <2> QED BY <1>1, <2>1
<1> QED BY <1>2, <1>3, <1>4 DEF RowInv, TriesLeft

\* The telephone calls for a row that exists and had its call begun.
LEMMA TelephoneRows ==
  ASSUME TypeOK, RowInv, NEW a \in Attempts, Telephone(a)
  PROVE  /\ attempts' \in [Attempts -> AttemptRecord] /\ calls' \in [Attempts -> CallRecord]
         /\ SameRows
         /\ \A b \in Attempts \ {a} : calls'[b] = calls[b] /\ attempts'[b] = attempts[b]
         /\ calls[a].stage # "none" /\ calls'[a].stage # "none"
         /\ calls'[a].stage = "job" => calls'[a].dials < MaxDials
         /\ attempts'[a].status \in Active \/ attempts'[a].status = attempts[a].status
         /\ attempts'[a].responded = attempts[a].responded
         /\ UNCHANGED <<recovery, event, thread, told, said>>
<1>1. calls[a] \in CallRecord /\ attempts[a] \in AttemptRecord
  BY Types
<1>2. calls[a].stage # "none" /\ Exists(a)
  BY Types DEF Telephone, Dial, Redial, Connect, Ask, Call, HangUp, FailsToThank, RowsFirst
<1>3. UNCHANGED <<recovery, event, thread, told, said>>
  BY DEF Telephone, Dial, Redial, Connect, Ask, Call, HangUp, FailsToThank
<1>4. \/ attempts' = attempts
      \/ \E s \in Active : attempts' = [attempts EXCEPT ![a].status = s]
  BY DEF Telephone, Dial, Redial, Connect, Ask, Call, HangUp, FailsToThank, Active
<1>5. /\ attempts' \in [Attempts -> AttemptRecord]
      /\ \A b \in Attempts \ {a} : attempts'[b] = attempts[b]
      /\ attempts'[a].status \in Active \/ attempts'[a].status = attempts[a].status
      /\ attempts'[a].responded = attempts[a].responded
  <2>1. CASE attempts' = attempts
    BY <2>1, Types
  <2>2. ASSUME NEW s \in Active, attempts' = [attempts EXCEPT ![a].status = s]
        PROVE  <1>5
    <3>1. s \in AttemptStatus
      BY DEF AttemptStatus
    <3> QED BY <2>2, <3>1, Types DEF AttemptRecord
  <2> QED BY <1>4, <2>1, <2>2
<1>6. SameRows
  BY <1>2, <1>5 DEF SameRows, Exists, Active
<1>7. /\ calls' \in [Attempts -> CallRecord]
      /\ \A b \in Attempts \ {a} : calls'[b] = calls[b]
      /\ calls'[a].stage # "none"
      /\ calls'[a].stage = "job" => calls'[a].dials < MaxDials
  <2>1. CASE Dial(a)
    <3>1. calls[a].dials + 1 \in 0 .. MaxDials
      BY <1>1, <2>1, DialsAssumption DEF Dial, CallRecord, RowInv, TriesLeft
    <3>2. calls' = [calls EXCEPT ![a] = [stage |-> "dialing", dials |-> calls[a].dials + 1]]
      BY <2>1 DEF Dial
    <3> QED BY <3>1, <3>2, Types DEF CallRecord
  <2>2. CASE Redial(a)
    <3>1. \/ calls' = [calls EXCEPT ![a].stage = "over"]
          \/ calls' = [calls EXCEPT ![a].stage = "job"] /\ calls[a].dials < MaxDials
      BY <2>2 DEF Redial
    <3>2. CASE calls' = [calls EXCEPT ![a].stage = "over"]
      BY <3>2, Types DEF CallRecord
    <3>3. CASE calls' = [calls EXCEPT ![a].stage = "job"] /\ calls[a].dials < MaxDials
      BY <3>3, Types DEF CallRecord
    <3> QED BY <3>1, <3>2, <3>3
  <2>3. CASE Connect(a) \/ Ask(a) \/ HangUp(a) \/ FailsToThank(a)
    <3>1. PICK next \in {"connected", "asked", "over"} : calls' = [calls EXCEPT ![a].stage = next]
      BY <2>3 DEF Connect, Ask, HangUp, FailsToThank, Call
    <3> QED BY <3>1, Types DEF CallRecord
  <2> QED BY <2>1, <2>2, <2>3 DEF Telephone
<1> QED BY <1>2, <1>3, <1>5, <1>6, <1>7
-----------------------------------------------------------------------------
(* Types, and the rows. *)

LEMMA HandlerData ==
  ASSUME TypeOK, RowInv, NEW t \in Threads, HandlerSteps(t)
  PROVE  /\ recovery' \in RecoveryRecord /\ told' \subseteq Keys
         /\ said' \subseteq Contacts \X (Decisions \cup {"timeout"})
         /\ said \subseteq said'
<1>1. recovery' \in RecoveryRecord
  <2>1. \/ recovery' = recovery
        \/ \E s \in RecoveryStatus : Advance(t, s)
        \/ recovery' = [status |-> "resolved", resolved |-> TRUE]
    BY DEF HandlerSteps, Handles, TakeEvent, Fail, Die, SweepLists, Answers, LinkAnswers,
           CallAnswers, Confirm, Start, MarkFailed, FindAttempt, CreateAttempt, Announce,
           CountAlternatives, ListVendors, Advise, TellLooksUp, TellCreates, RecordAnswer, Settle,
           CountActive, TimeOut, CountAssigned, ReviewAlternatives, Resolve, RecoveryStatus,
           Confirmed
  <2>2. "resolved" \in RecoveryStatus
    BY DEF RecoveryStatus
  <2>3. ASSUME NEW s \in RecoveryStatus, Advance(t, s) PROVE recovery' \in RecoveryRecord
    BY <2>3, Types DEF Advance, RecoveryRecord
  <2>4. [status |-> "resolved", resolved |-> TRUE] \in RecoveryRecord
    BY <2>2 DEF RecoveryRecord
  <2> QED BY <2>1, <2>3, <2>4, Types
<1>2. told' \subseteq Keys
  <2>1. told' = told \/ told' = told \cup {thread[t].key}
    BY DEF HandlerSteps, Handles, TakeEvent, Fail, Die, SweepLists, Answers, LinkAnswers,
           CallAnswers, Confirm, Start, MarkFailed, FindAttempt, CreateAttempt, Announce,
           CountAlternatives, ListVendors, Advise, TellLooksUp, TellCreates, RecordAnswer, Settle,
           CountActive, TimeOut, CountAssigned, ReviewAlternatives, Resolve
  <2> QED BY <2>1, Types DEF ThreadRecord
<1>3. /\ said' \subseteq Contacts \X (Decisions \cup {"timeout"})
      /\ said \subseteq said'
  <2>1. CASE RecordAnswer(t)
    <3>1. said' = said \cup {<<thread[t].attempt[1], thread[t].decision>>}
      BY <2>1 DEF RecordAnswer
    <3> QED BY <2>1, <3>1, Recording, Types
  <2>2. CASE TimeOut(t)
    <3>1. PICK a \in thread[t].due : said' = said \/ said' = said \cup {<<a[1], "timeout">>}
      BY <2>2 DEF TimeOut
    <3>2. a[1] \in Contacts
      BY AttemptParts, Types DEF ThreadRecord
    <3> QED BY <3>1, <3>2, Types
  <2>3. CASE ~RecordAnswer(t) /\ ~TimeOut(t)
    <3>1. said' = said
      BY <2>3 DEF HandlerSteps, Handles, TakeEvent, Fail, Die, SweepLists, Answers, LinkAnswers,
                  CallAnswers, Confirm, Start, MarkFailed, FindAttempt, CreateAttempt, Announce,
                  CountAlternatives, ListVendors, Advise, TellLooksUp, TellCreates, Settle,
                  CountActive, CountAssigned, ReviewAlternatives, Resolve
    <3> QED BY <3>1, Types
  <2> QED BY <2>1, <2>2, <2>3
<1> QED BY <1>1, <1>2, <1>3

LEMMA HandlerEvent ==
  ASSUME TypeOK, RowInv, NEW t \in Threads, HandlerSteps(t)
  PROVE  event' \in EventRecord /\ (event'.status = "pending" => event'.tries < MaxTries)
<1> DEFINE Fine == event' \in EventRecord /\ (event'.status = "pending" => event'.tries < MaxTries)
<1>0. TriesLeft /\ event \in EventRecord
  BY Types DEF RowInv
<1>1. CASE event' = event
  BY <1>0, <1>1 DEF TriesLeft
<1>2. CASE Throws(t)
  BY <1>0, <1>2, ThrowsTo
<1>3. Return(t) => Fine
  BY <1>0, ReturnTo DEF TriesLeft
<1>4. Told(t) => Fine
  BY <1>0, ToldTo DEF TriesLeft
<1>5. \A c \in Contacts : Contacted(t, c) => Fine
  BY <1>0, ContactedTo DEF TriesLeft
<1>6. CASE TakeEvent(t)
  <2>1. event.status = "pending" /\ event' = [status |-> "publishing", tries |-> event.tries + 1]
    BY <1>6 DEF TakeEvent
  <2>2. event.tries + 1 \in 0 .. MaxTries
    BY <1>0, <2>1, TriesAssumption DEF TriesLeft, EventRecord
  <2> QED BY <2>1, <2>2 DEF EventRecord
<1>7. CASE FindAttempt(t)
  BY <1>1, <1>5, <1>7, Finds
<1>8. CASE Announce(t)
  BY <1>5, <1>8, Announcing
<1>9. \/ event' = event \/ Throws(t) \/ Return(t) \/ Told(t)
      \/ TakeEvent(t) \/ FindAttempt(t) \/ Announce(t)
  BY DEF HandlerSteps, Handles, Fail, Die, SweepLists, Answers, LinkAnswers,
         CallAnswers, Confirm, Start, MarkFailed, CreateAttempt,
         CountAlternatives, ListVendors, Advise, TellLooksUp, TellCreates, RecordAnswer, Settle,
         CountActive, TimeOut, CountAssigned, ReviewAlternatives, Resolve
<1> QED BY <1>1, <1>2, <1>3, <1>4, <1>6, <1>7, <1>8, <1>9

\* Handlers of other threads still hold rows that exist.
LEMMA HandlerTypes ==
  ASSUME TypeOK, RowInv, NEW t \in Threads, HandlerSteps(t)
  PROVE  TypeOK' /\ \A a \in Attempts : Exists(a) => Exists(a)'
<1>1. /\ attempts' \in [Attempts -> AttemptRecord]
      /\ \A a \in Attempts : Exists(a) => Exists(a)'
      /\ \A a \in Attempts : attempts'[a].responded => Exists(a)
  <2>1. CASE CreateAttempt(t)
    BY <2>1, Creates, Types DEF Exists, RowsFirst
  <2>2. CASE ~CreateAttempt(t)
    BY <2>2, HandlerRows DEF SameRows
  <2> QED BY <2>1, <2>2
<1>2. calls' \in [Attempts -> CallRecord] /\ \A a \in Attempts : calls'[a].stage # "none" => Exists(a)
  BY HandlerCalls, Announcing, Types DEF RowsFirst
<1>3. Alone(t)
  BY HandlerMoves
<1>4. Holds(t)'
  <2>1. CASE CreateAttempt(t)
    <3>1. PICK a \in Attempts : thread'[t].attempt = a /\ attempts'[a].status = "queued"
      BY <2>1, Creates
    <3> QED BY <3>1, AttemptParts DEF Holds, Exists
  <2>2. CASE ~CreateAttempt(t)
    <3>1. ASSUME thread'[t].pc = "announce" PROVE FALSE
      <4>1. FindAttempt(t)
        BY <2>2, <3>1, HandlerMoves
      <4>2. PICK c \in Contacts : Contacted(t, c) \/ thread'[t].pc = "create"
        BY <4>1, Finds
      <4> QED BY <3>1, <4>2, ContactedTo DEF Idle
    <3>2. thread'[t].pc \in {"record", "settle"} =>
            thread'[t].attempt \in Attempts /\ Exists(thread'[t].attempt)
      BY HandlerMoves
    <3>3. \A a \in Attempts : Exists(a)' <=> attempts'[a].status # "none"
      BY DEF Exists
    <3>4. thread'[t].pc \in {"record", "settle"} =>
            thread'[t].attempt # None /\ attempts'[thread'[t].attempt].status # "none"
      BY <1>1, <3>2, <3>3, AttemptParts
    <3> QED BY <3>1, <3>4 DEF Holds, Exists
  <2> QED BY <2>1, <2>2
<1>5. \A u \in Threads \ {t} : Holds(u)'
  <2> TAKE u \in Threads \ {t}
  <2>1. thread'[u] = thread[u] /\ Holds(u) /\ thread[u].attempt \in Attempts \cup {None}
    BY <1>3, Types DEF Alone, ThreadRecord
  <2>2. thread[u].attempt \in Attempts /\ Exists(thread[u].attempt)
          => attempts'[thread[u].attempt].status # "none"
    BY <1>1 DEF Exists
  <2> QED BY <2>1, <2>2 DEF Holds, Exists
<1>6. RowsFirst'
  BY <1>1, <1>2 DEF RowsFirst
<1> QED BY <1>1, <1>2, <1>3, <1>4, <1>5, <1>6, HandlerData, HandlerEvent, TypesNext DEF Alone

\* As long as no row is created, only one who found no row may join those who
\* are about to create one.
LEMMA NumberKept ==
  ASSUME NEW c \in Contacts, Numbered(c), RowsOf(c)' = RowsOf(c),
         Creating(c)' \subseteq Creating(c) \/ RowsOf(c) = {}
  PROVE  Numbered(c)'
<1>1. /\ IsFiniteSet(Creating(c)) /\ IsFiniteSet(Creating(c)')
      /\ Cardinality(Creating(c)') <= Cardinality(Threads)
      /\ Creating(c)' \subseteq Creating(c) => Cardinality(Creating(c)') <= Cardinality(Creating(c))
  <2>1. Creating(c) \subseteq Threads /\ Creating(c)' \subseteq Threads
    BY DEF Creating
  <2> QED BY <2>1, Finite, FS_Subset
<1>2. /\ Cardinality(Creating(c)) \in Nat /\ Cardinality(Creating(c)') \in Nat
      /\ Cardinality(RowsOf(c)) \in Nat
  BY <1>1, Finite, FS_Subset, FS_CardinalityType DEF RowsOf
<1>3. /\ RowsOf(c) = {<<c, i>> : i \in 1 .. Cardinality(RowsOf(c))}
      /\ Cardinality(RowsOf(c)) + Cardinality(Creating(c)) <= Cardinality(Threads)
  BY DEF Numbered
<1>4. RowsOf(c) = {} => Cardinality(RowsOf(c)) = 0
  BY FS_EmptySet
<1>5. Cardinality(RowsOf(c)) + Cardinality(Creating(c)') <= Cardinality(Threads)
  BY <1>1, <1>2, <1>3, <1>4, Finite
<1> QED BY <1>3, <1>5 DEF Numbered

\* The row that is created gets the next number.
LEMMA NumberTaken ==
  ASSUME TypeOK, RowInv, NEW t \in Threads, CreateAttempt(t)
  PROVE  RowsNumbered'
<1>1. PICK a \in Attempts :
        /\ a = <<a[1], Cardinality(RowsOf(a[1])) + 1>> /\ t \in Creating(a[1]) /\ ~Exists(a)
        /\ \A b \in Attempts : attempts'[b] = IF b = a THEN [status |-> "queued", responded |-> FALSE]
                                                      ELSE attempts[b]
        /\ Alone(t) /\ thread'[t].pc = "announce"
  BY Creates
<1> DEFINE c == a[1]
           n == Cardinality(RowsOf(c))
<1>2. c \in Contacts /\ Numbered(c) /\ IsFiniteSet(RowsOf(c)) /\ n \in Nat
  BY AttemptParts, Finite, FS_Subset, FS_CardinalityType DEF RowInv, RowsNumbered, RowsOf
<1>3. \A b \in Attempts : Exists(b)' <=> Exists(b) \/ b = a
  BY <1>1 DEF Exists
<1>4. /\ RowsOf(c)' = RowsOf(c) \cup {a} /\ a \notin RowsOf(c)
      /\ \A d \in Contacts \ {c} : RowsOf(d)' = RowsOf(d)
  BY <1>1, <1>3 DEF RowsOf
<1>5. Cardinality(RowsOf(c)') = n + 1
  BY <1>2, <1>4, FS_AddElement
<1>6. Creating(c)' = Creating(c) \ {t} /\ \A d \in Contacts : Creating(d)' \subseteq Creating(d)
  BY <1>1 DEF Creating, Alone
<1>7. IsFiniteSet(Creating(c)) /\ Cardinality(Creating(c)) \in Nat
  <2>1. Creating(c) \subseteq Threads
    BY DEF Creating
  <2> QED BY <2>1, Finite, FS_Subset, FS_CardinalityType
<1>8. Cardinality(Creating(c)') = Cardinality(Creating(c)) - 1
  BY <1>1, <1>6, <1>7, FS_RemoveElement
<1>9. Numbered(c)'
  <2>1. RowsOf(c) = {<<c, i>> : i \in 1 .. n} /\ n + Cardinality(Creating(c)) <= Cardinality(Threads)
    BY <1>2 DEF Numbered
  <2>2. a = <<c, n + 1>>
    BY <1>1
  <2> HIDE DEF c, n
  <2>3. {<<c, i>> : i \in 1 .. n + 1} = {<<c, i>> : i \in 1 .. n} \cup {<<c, n + 1>>}
    BY <1>2
  <2>4. RowsOf(c)' = {<<c, i>> : i \in 1 .. n + 1}
    BY <1>4, <2>1, <2>2, <2>3
  <2>5. Cardinality(RowsOf(c)') + Cardinality(Creating(c)') <= Cardinality(Threads)
    BY <1>2, <1>5, <1>7, <1>8, <2>1, Finite
  <2> QED BY <1>5, <2>4, <2>5 DEF Numbered, c
<1>10. \A d \in Contacts \ {c} : Numbered(d)'
  BY <1>4, <1>6, NumberKept DEF RowInv, RowsNumbered
<1> QED BY <1>9, <1>10 DEF RowsNumbered

LEMMA HandlerNumbers ==
  ASSUME TypeOK, RowInv, NEW t \in Threads, HandlerSteps(t)
  PROVE  RowsNumbered'
<1>1. CASE CreateAttempt(t)
  BY <1>1, NumberTaken
<1>2. CASE ~CreateAttempt(t)
  <2>1. \A c \in Contacts : RowsOf(c)' = RowsOf(c)
    BY <1>2, HandlerRows DEF SameRows, RowsOf
  <2>2. Alone(t)
    BY HandlerMoves
  <2>3. thread'[t].pc = "create" => RowsOf(thread'[t].attempt[1]) = {}
    <3> SUFFICES ASSUME thread'[t].pc = "create" PROVE RowsOf(thread'[t].attempt[1]) = {}
      OBVIOUS
    <3>1. PICK c \in Contacts : \/ Contacted(t, c)
                                \/ RowsOf(c) = {} /\ thread'[t].attempt = <<c, 1>>
      BY <1>2, HandlerMoves, Finds
    <3>2. ~Contacted(t, c)
      BY ContactedTo DEF Idle
    <3> QED BY <3>1, <3>2
  <2>4. \A c \in Contacts : Creating(c)' \subseteq Creating(c) \/ RowsOf(c) = {}
    BY <2>2, <2>3 DEF Creating, Alone
  <2> QED BY <2>1, <2>4, NumberKept DEF RowInv, RowsNumbered
<1> QED BY <1>1, <1>2

LEMMA HandlerAnnounces ==
  ASSUME TypeOK, RowInv, NEW t \in Threads, HandlerSteps(t)
  PROVE  Announced'
<1>1. Alone(t)
  BY HandlerMoves
<1>2. \A u \in Threads : thread[u].pc = "announce" =>
        thread[u].attempt \in Attempts /\ Exists(thread[u].attempt)
  BY Types DEF Holds, ThreadRecord
<1>3. \A u \in Threads \ {t} : thread[u].pc = "announce" =>
        calls'[thread[u].attempt] = NoCall
  <2> SUFFICES ASSUME NEW u \in Threads \ {t}, thread[u].pc = "announce"
               PROVE  calls'[thread[u].attempt] = NoCall
    OBVIOUS
  <2>1. calls[thread[u].attempt] = NoCall /\ NoCall.stage = "none"
    BY DEF RowInv, Announced, NoCall
  <2>2. ~(Announce(t) /\ thread[u].attempt = thread[t].attempt)
    BY Announcing DEF RowInv, Announced
  <2> QED BY <1>2, <2>1, <2>2, HandlerCalls
<1>4. thread'[t].pc = "create" => thread'[t].attempt # None
  <2> SUFFICES ASSUME thread'[t].pc = "create" PROVE thread'[t].attempt # None
    OBVIOUS
  <2>1. ~CreateAttempt(t)
    BY Creates
  <2>2. PICK c \in Contacts : \/ Contacted(t, c)
                              \/ <<c, 1>> \in Attempts /\ thread'[t].attempt = <<c, 1>>
    BY <2>1, HandlerMoves, Finds
  <2>3. ~Contacted(t, c)
    BY ContactedTo DEF Idle
  <2> QED BY <2>2, <2>3, AttemptParts
<1>5. ASSUME thread'[t].pc = "announce"
      PROVE  /\ calls'[thread'[t].attempt] = NoCall
             /\ \A u \in Threads \ {t} :
                  thread[u].pc = "announce" => thread[u].attempt # thread'[t].attempt
  <2>1. CreateAttempt(t)
    <3>1. ASSUME FindAttempt(t) PROVE FALSE
      <4>1. PICK c \in Contacts : Contacted(t, c) \/ thread'[t].pc = "create"
        BY <3>1, Finds
      <4> QED BY <1>5, <4>1, ContactedTo DEF Idle
    <3> QED BY <1>5, <3>1, HandlerMoves
  <2>2. PICK a \in Attempts : ~Exists(a) /\ thread'[t].attempt = a
    BY <2>1, Creates
  <2>3. calls' = calls
    BY <2>1 DEF CreateAttempt
  <2>4. calls[a].stage = "none" /\ calls[a].dials = 0 /\ calls[a] \in CallRecord
    BY <2>2, Types DEF RowsFirst, RowInv, TriesLeft
  <2>5. calls[a] = NoCall
    BY <2>4 DEF CallRecord, NoCall
  <2> QED BY <1>2, <2>2, <2>3, <2>5
<1> QED BY <1>1, <1>3, <1>4, <1>5 DEF Alone, RowInv, Announced

\* A step of the telephone, or none.
LEMMA TelephoneKeeps ==
  ASSUME TypeOK, RowInv, NEW a \in Attempts, Telephone(a)
  PROVE  TypeOK' /\ RowInv'
<1>1. TypeOK'
  <2>1. \A b \in Attempts : attempts'[b].responded = attempts[b].responded
    BY TelephoneRows
  <2>2. Exists(a)
    BY TelephoneRows, Types DEF RowsFirst
  <2>3. RowsFirst'
    BY <2>1, <2>2, TelephoneRows, Types DEF RowsFirst, SameRows
  <2>4. \A t \in Threads : Holds(t)'
    <3> TAKE t \in Threads
    <3>1. thread' = thread /\ Holds(t) /\ thread[t].attempt \in Attempts \cup {None}
      BY TelephoneRows, Types DEF ThreadRecord
    <3>2. thread[t].attempt \in Attempts /\ Exists(thread[t].attempt)
            => attempts'[thread[t].attempt].status # "none"
      BY TelephoneRows DEF SameRows, Exists
    <3> QED BY <3>1, <3>2 DEF Holds, Exists
  <2> QED BY <2>3, <2>4, TelephoneRows, Types, TypesNext
<1>2. RowsNumbered'
  <2>1. \A c \in Contacts : RowsOf(c)' = RowsOf(c) /\ Creating(c)' = Creating(c)
    BY TelephoneRows DEF SameRows, RowsOf, Creating
  <2> QED BY <2>1, NumberKept DEF RowInv, RowsNumbered
<1>3. Announced'
  <2>1. /\ thread' = thread /\ calls[a].stage # "none" /\ NoCall.stage = "none"
        /\ \A b \in Attempts \ {a} : calls'[b] = calls[b]
    BY TelephoneRows DEF NoCall
  <2>2. \A t \in Threads : thread[t].pc = "announce" => thread[t].attempt \in Attempts
    BY Types DEF Holds, ThreadRecord
  <2> QED BY <2>1, <2>2 DEF RowInv, Announced
<1>4. TriesLeft'
  BY TelephoneRows DEF RowInv, TriesLeft
<1> QED BY <1>1, <1>2, <1>3, <1>4 DEF RowInv

LEMMA HandlerKeeps ==
  ASSUME TypeOK, RowInv, NEW t \in Threads, HandlerSteps(t)
  PROVE  TypeOK' /\ RowInv'
<1>1. TriesLeft'
  BY HandlerEvent, HandlerCalls DEF TriesLeft
<1> QED BY <1>1, HandlerTypes, HandlerNumbers, HandlerAnnounces DEF RowInv

LEMMA NextSteps ==
  Next => (\E t \in Threads : HandlerSteps(t)) \/ (\E a \in Attempts : Telephone(a))
BY DEF Next, HandlerSteps, Threads
-----------------------------------------------------------------------------
(* The order of the fallback. *)

\* What is known of the answers stays true, for answers are not taken back.
LEMMA AnswersLast ==
  ASSUME said \subseteq said'
  PROVE  /\ AssignedDeclined => AssignedDeclined'
         /\ VendorDone => VendorDone'
         /\ AdviceDue => AdviceDue'
         /\ SomeTimedOut => SomeTimedOut'
BY DEF AssignedDeclined, VendorDone, AdviceDue, SomeTimedOut, Declined, Answered

LEMMA ReasonsStay ==
  ASSUME said \subseteq said', NEW t, Reasons(t), thread'[t] = thread[t]
  PROVE  Reasons(t)'
BY AnswersLast DEF Reasons

LEMMA NewReasons ==
  ASSUME said \subseteq said', NEW t, Reasons(t),
         \/ thread'[t].todo \subseteq thread[t].todo
         \/ thread'[t].todo \cap Alternatives = {} \/ AssignedDeclined,
         \/ thread'[t].attempt = thread[t].attempt \/ thread'[t].attempt = None
         \/ thread'[t].attempt[1] \notin Alternatives \/ AssignedDeclined,
         \/ thread'[t].key = thread[t].key
         \/ thread'[t].key # <<"self_booking", None>> \/ AdviceDue,
         thread'[t].pc \in {"source", "list_vendors"} => AssignedDeclined',
         thread'[t].pc \in {"count_active", "advise"} => AdviceDue',
         thread'[t].pc \in {"idle", "time_out"} /\ thread'[t].moved => SomeTimedOut',
         thread'[t].pc = "review" => SomeTimedOut'
  PROVE  Reasons(t)'
<1>1. thread'[t].todo \cap Alternatives # {} => AssignedDeclined'
  BY AnswersLast DEF Reasons
<1>2. thread'[t].attempt # None /\ thread'[t].attempt[1] \in Alternatives => AssignedDeclined'
  BY AnswersLast DEF Reasons
<1>3. thread'[t].key = <<"self_booking", None>> => AdviceDue'
  BY AnswersLast DEF Reasons
<1> QED BY <1>1, <1>2, <1>3 DEF Reasons

LEMMA IdleReasons ==
  ASSUME NEW t, thread'[t] = Idle
  PROVE  Reasons(t)'
<1>1. /\ Idle.pc = "idle" /\ Idle.todo = {} /\ Idle.attempt = None /\ Idle.moved = FALSE
      /\ Idle.key = <<"none", None>>
  BY DEF Idle
<1>2. Idle.key # <<"self_booking", None>>
  BY <1>1
<1> QED BY <1>1, <1>2 DEF Reasons

LEMMA JumpReasons ==
  ASSUME TypeOK, said \subseteq said', NEW t \in Threads, Reasons(t),
         NEW S \in SUBSET (Steps \ {"idle", "time_out", "review"}), Jumps(t, S),
         "source" \in S \/ "list_vendors" \in S => AssignedDeclined',
         "count_active" \in S \/ "advise" \in S => AdviceDue'
  PROVE  Reasons(t)'
<1>1. CASE thread'[t] = Idle
  BY <1>1, IdleReasons
<1>2. ASSUME NEW p \in S, thread'[t] = [thread[t] EXCEPT !.pc = p] PROVE Reasons(t)'
  <2>1. /\ thread'[t].pc = p /\ thread'[t].todo = thread[t].todo
        /\ thread'[t].attempt = thread[t].attempt /\ thread'[t].key = thread[t].key
    BY <1>2, Types DEF ThreadRecord
  <2> QED BY <2>1, NewReasons
<1> QED BY <1>1, <1>2 DEF Jumps

LEMMA TellReasons ==
  ASSUME TypeOK, said \subseteq said', NEW t \in Threads, Reasons(t), NEW key, Tells(t, key),
         key # <<"self_booking", None>> \/ AdviceDue
  PROVE  Reasons(t)'
<1>1. /\ thread'[t].pc = "tell" /\ thread'[t].todo = thread[t].todo
      /\ thread'[t].attempt = thread[t].attempt /\ thread'[t].key = key
  BY Types DEF Tells, ThreadRecord
<1> QED BY <1>1, NewReasons

LEMMA ContactReasons ==
  ASSUME TypeOK, said \subseteq said', NEW t \in Threads, Reasons(t), NEW c \in Contacts,
         Contacted(t, c)
  PROVE  Reasons(t)'
<1>1. <<"contacted", None>> # <<"self_booking", None>>
  OBVIOUS
<1>2. CASE thread'[t] = Idle
  BY <1>2, IdleReasons
<1>3. CASE thread'[t].pc = "tell" /\ thread'[t].key = <<"contacted", None>>
           /\ thread'[t].todo \subseteq thread[t].todo /\ thread'[t].attempt = None
  BY <1>1, <1>3, NewReasons
<1>4. CASE thread'[t].pc = "find" /\ thread'[t].key = thread[t].key
           /\ thread'[t].todo \subseteq thread[t].todo /\ thread'[t].attempt = None
  BY <1>4, NewReasons
<1> QED BY <1>2, <1>3, <1>4, ContactedTo

LEMMA RouteReasons ==
  ASSUME TypeOK, said \subseteq said', NEW t \in Threads, Reasons(t), Route(t)
  PROVE  Reasons(t)'
<1>1. <<"none", None>> # <<"self_booking", None>>
  OBVIOUS
<1>2. CASE HasAssigned
  <2>1. /\ thread'[t].pc = "find" /\ thread'[t].todo = {Assigned}
        /\ thread'[t].attempt = thread[t].attempt /\ thread'[t].key = <<"none", None>>
    BY <1>2, RouteTo, Types, ZenonT(30) DEF ThreadRecord
  <2>2. {Assigned} \cap Alternatives = {}
    BY AlternativesAssumption
  <2> QED BY <1>1, <2>1, <2>2, NewReasons
<1>3. CASE ~HasAssigned
  <2>1. /\ thread'[t].pc = "source" /\ thread'[t].todo = thread[t].todo
        /\ thread'[t].attempt = thread[t].attempt /\ thread'[t].key = <<"none", None>>
    BY <1>3, RouteTo, Types, ZenonT(30) DEF ThreadRecord
  <2>2. AssignedDeclined'
    BY <1>3 DEF AssignedDeclined
  <2> QED BY <1>1, <2>1, <2>2, NewReasons
<1> QED BY <1>2, <1>3

\* A row of a vendor is there only after the assigned provider declined.
LEMMA VendorRows ==
  ASSUME FallbackInOrder, NEW a \in Attempts, Exists(a), a[1] \in Alternatives
  PROVE  AssignedDeclined
BY DEF FallbackInOrder, AlternativeRows, RowsOf, AssignedDeclined

\* The sweep turns to the vendors when it timed somebody out and there is no
\* row of a vendor, and gives up when the rows of the vendors say so.
LEMMA ReviewReasons ==
  ASSUME IInv, said \subseteq said', NEW t \in Threads, ReviewAlternatives(t)
  PROVE  Reasons(t)'
<1>1. /\ TypeOK /\ AnswersSaid /\ Reasons(t) /\ FallbackInOrder
      /\ thread[t].pc = "review"
  BY DEF IInv, OrderInv, ReviewAlternatives, At
<1>2. SomeTimedOut
  BY <1>1 DEF Reasons
<1>3. CASE AlternativeRows = {} /\ Proceed(t, "source")
  <2>1. PICK c \in Contacts : Answered(c, "timeout")
    BY <1>2 DEF SomeTimedOut
  <2>2. RowsOf(c) # {}
    <3>1. <<c, "timeout">> \in said
      BY <2>1 DEF Answered
    <3> QED BY <1>1, <3>1 DEF AnswersSaid
  <2>3. c \notin Alternatives
    BY <1>3, <2>2 DEF AlternativeRows
  <2>4. AssignedDeclined
    BY <2>1, <2>3 DEF AssignedDeclined, Declined, Contacts
  <2>5. "source" \in Steps
    BY DEF Steps
  <2>6. Jumps(t, {"source"})
    BY <1>1, <1>3, <2>5, ProceedTo DEF Jumps
  <2> QED BY <1>1, <2>4, <2>5, <2>6, AnswersLast, JumpReasons
<1>4. CASE AlternativeRows # {} /\ GivenUp /\ Proceed(t, "advise")
  <2>1. PICK c \in Alternatives, a \in Attempts : a[1] = c /\ Exists(a) /\ a \in AlternativeRows
    BY <1>4 DEF AlternativeRows, RowsOf
  <2>2. attempts[a].status \notin Active \cup {"none", "responded_available"}
    BY <1>4, <2>1 DEF GivenUp, Exists
  <2>3. attempts[a].status \in {"timed_out", "responded_unavailable", "human_requested"}
    BY <1>1, <2>2, Types DEF AttemptRecord, AttemptStatus
  <2>4. Declined(c) \/ Answered(c, "human")
    BY <1>1, <2>1, <2>3 DEF AnswersSaid, Declined
  <2>5. AdviceDue
    BY <1>1, <2>1, <2>4, VendorRows DEF AdviceDue, VendorDone
  <2>6. "advise" \in Steps
    BY DEF Steps
  <2>7. Jumps(t, {"advise"})
    BY <1>1, <1>4, <2>6, ProceedTo DEF Jumps
  <2> QED BY <1>1, <2>5, <2>6, <2>7, AnswersLast, JumpReasons
<1>5. CASE Ends(t)
  BY <1>1, <1>5, EndsTo, IdleReasons
<1> QED BY <1>3, <1>4, <1>5 DEF ReviewAlternatives

\* A refusal is recorded before the handler acts on it.
LEMMA RecordReasons ==
  ASSUME IInv, said \subseteq said', NEW t \in Threads, RecordAnswer(t)
  PROVE  Reasons(t)'
<1> DEFINE a == thread[t].attempt
           d == thread[t].decision
<1>1. /\ TypeOK /\ TriesLeft /\ Reasons(t)
      /\ a \in Attempts /\ a # None /\ a[1] \in Contacts /\ d \in Decisions
  BY Recording, AttemptParts DEF IInv, OrderInv, RowInv
<1>2. <<a[1], d>> \in said'
  BY DEF RecordAnswer
<1>3. Proceed(t, AfterAnswer(a, d))
  BY DEF RecordAnswer
<1>4. {"source", "count_active", "settle"} \subseteq Steps
  BY DEF Steps
<1> HIDE DEF a, d
<1>5. CASE d # "unavailable"
  <2>1. Jumps(t, {"settle"})
    BY <1>1, <1>3, <1>4, <1>5, ProceedTo DEF AfterAnswer, Jumps
  <2> QED BY <1>1, <1>4, <2>1, JumpReasons
<1>6. CASE d = "unavailable" /\ a[1] = Assigned
  <2>1. Jumps(t, {"source"})
    BY <1>1, <1>3, <1>4, <1>6, ProceedTo DEF AfterAnswer, Jumps
  <2>2. AssignedDeclined'
    BY <1>2, <1>6 DEF AssignedDeclined, Declined, Answered
  <2> QED BY <1>1, <1>4, <2>1, <2>2, JumpReasons
<1>7. CASE d = "unavailable" /\ a[1] # Assigned
  <2>1. Jumps(t, {"count_active"})
    BY <1>1, <1>3, <1>4, <1>7, ProceedTo DEF AfterAnswer, Jumps
  <2>2. a[1] \in Alternatives
    BY <1>1, <1>7 DEF Contacts
  <2>3. AssignedDeclined
    BY <1>1, <2>2 DEF Reasons, a
  <2>4. VendorDone'
    BY <1>2, <1>7, <2>2 DEF VendorDone, Declined, Answered
  <2>5. AdviceDue'
    BY <2>3, <2>4, AnswersLast DEF AdviceDue
  <2> QED BY <1>1, <1>4, <2>1, <2>5, JumpReasons
<1> QED BY <1>5, <1>6, <1>7

\* The sweep goes on to the review only if it timed somebody out.
LEMMA SweepReasons ==
  ASSUME IInv, said \subseteq said', NEW t \in Threads,
         \/ TimeOut(t) \/ CountAssigned(t) \/ \E due \in SUBSET ActiveRows : SweepLists(t, due)
  PROVE  Reasons(t)'
<1>1. TypeOK /\ Reasons(t)
  BY DEF IInv, OrderInv
<1>2. thread[t].pc \in {"idle", "time_out"} /\ (CountAssigned(t) => thread[t].pc = "time_out")
  BY DEF TimeOut, CountAssigned, SweepLists, At
<1>3. CASE thread'[t] = Idle
  BY <1>3, IdleReasons
<1>4. CASE thread'[t] # Idle
  <2>1. /\ thread'[t].pc \in {"time_out", "review"}
        /\ thread'[t].todo = thread[t].todo /\ thread'[t].key = thread[t].key
        /\ thread'[t].attempt = thread[t].attempt
        /\ thread'[t].pc = "review" => CountAssigned(t) /\ thread[t].moved
        /\ thread'[t].pc = "time_out" /\ thread'[t].moved /\ ~thread[t].moved =>
             \E a \in thread[t].due : /\ ActiveRow(a) /\ a \in Attempts
                                      /\ <<a[1], "timeout">> \in said'
    BY <1>1, <1>4, Sweeping
  <2>2. thread[t].moved => SomeTimedOut'
    BY <1>1, <1>2, AnswersLast DEF Reasons
  <2>3. thread'[t].pc = "time_out" /\ thread'[t].moved /\ ~thread[t].moved => SomeTimedOut'
    BY <2>1, AttemptParts DEF SomeTimedOut, Answered
  <2> QED BY <1>1, <2>1, <2>2, <2>3, NewReasons
<1> QED BY <1>3, <1>4

LEMMA HandlerReasons ==
  ASSUME IInv, NEW t \in Threads, HandlerSteps(t)
  PROVE  Reasons(t)'
<1>1. /\ TypeOK /\ RowInv /\ TriesLeft /\ AnswersSaid /\ Reasons(t) /\ FallbackInOrder
      /\ said \subseteq said'
  BY HandlerData DEF IInv, OrderInv, RowInv
<1>2. {"start", "resolve", "mark_failed", "send", "list_vendors", "advise"}
        \subseteq Steps \ {"idle", "time_out", "review"}
  BY DEF Steps
<1>3. CASE TakeEvent(t) \/ Confirm(t) \/ MarkFailed(t) \/ Die(t) \/ Fail(t)
  <2>1. Jumps(t, {"start", "resolve", "mark_failed"})
    BY <1>1, <1>3, Jumping DEF Jumps
  <2> QED BY <1>1, <1>2, <2>1, JumpReasons
<1>4. CASE CountAlternatives(t)
  <2>1. thread[t].pc = "source" /\ Jumps(t, {"list_vendors"})
    BY <1>1, <1>4, Jumping DEF CountAlternatives, At
  <2>2. AssignedDeclined'
    BY <1>1, <2>1, AnswersLast DEF Reasons
  <2> QED BY <1>1, <1>2, <2>1, <2>2, JumpReasons
<1>5. CASE CountActive(t)
  <2>1. thread[t].pc = "count_active" /\ Jumps(t, {"advise"})
    BY <1>1, <1>5, Jumping DEF CountActive, At
  <2>2. AdviceDue'
    BY <1>1, <2>1, AnswersLast DEF Reasons
  <2> QED BY <1>1, <1>2, <2>1, <2>2, JumpReasons
<1>6. CASE ReviewAlternatives(t)
  BY <1>1, <1>6, ReviewReasons
<1>7. CASE RecordAnswer(t)
  BY <1>1, <1>7, RecordReasons
<1>8. CASE Start(t) \/ Settle(t) \/ Resolve(t)
  <2>1. /\ <<"opened", None>> # <<"self_booking", None>>
        /\ <<"resolved", None>> # <<"self_booking", None>>
    OBVIOUS
  <2>2. thread'[t] = Idle \/ \E k \in Keys \cup {<<"opened", None>>, <<"resolved", None>>} :
                               k # <<"self_booking", None>> /\ Tells(t, k)
    BY <1>1, <1>8, <2>1, Telling
  <2> QED BY <1>1, <2>2, TellReasons, IdleReasons
<1>9. CASE Advise(t)
  <2>1. thread[t].pc = "advise" /\ Tells(t, <<"self_booking", None>>)
    BY <1>1, <1>9, Telling DEF Advise, At
  <2>2. AdviceDue
    BY <1>1, <2>1 DEF Reasons
  <2> QED BY <1>1, <2>1, <2>2, TellReasons
<1>10. CASE TellLooksUp(t) \/ TellCreates(t)
  <2>1. Jumps(t, {"send", "mark_failed"}) \/ Route(t)
    BY <1>1, <1>10, Telling
  <2> QED BY <1>1, <1>2, <2>1, JumpReasons, RouteReasons
<1>11. CASE FindAttempt(t)
  <2>1. PICK c \in thread[t].todo :
          /\ c \in Contacts
          /\ \/ Contacted(t, c)
             \/ /\ thread'[t].pc = "create" /\ thread'[t].attempt = <<c, 1>>
                /\ thread'[t].todo \subseteq thread[t].todo /\ thread'[t].key = thread[t].key
    BY <1>1, <1>11, Finds
  <2>2. c \in Alternatives => AssignedDeclined
    BY <1>1 DEF Reasons
  <2>3. CASE Contacted(t, c)
    BY <1>1, <2>1, <2>3, ContactReasons
  <2>4. CASE /\ thread'[t].pc = "create" /\ thread'[t].attempt = <<c, 1>>
             /\ thread'[t].todo \subseteq thread[t].todo /\ thread'[t].key = thread[t].key
    <3>1. thread'[t].attempt[1] = c
      BY <2>4
    <3> QED BY <1>1, <2>2, <2>4, <3>1, NewReasons
  <2> QED BY <2>1, <2>3, <2>4
<1>12. CASE CreateAttempt(t)
  <2>1. PICK a \in Attempts :
          /\ a[1] = thread[t].attempt[1] /\ thread'[t].pc = "announce" /\ thread'[t].attempt = a
          /\ thread'[t].todo = thread[t].todo /\ thread'[t].key = thread[t].key
    BY <1>1, <1>12, Creates
  <2>2. thread[t].attempt # None
    BY <1>1, <1>12 DEF CreateAttempt, At, RowInv, Announced
  <2>3. a[1] \in Alternatives => AssignedDeclined
    BY <1>1, <2>1, <2>2 DEF Reasons
  <2> QED BY <1>1, <2>1, <2>3, NewReasons
<1>13. CASE Announce(t)
  BY <1>1, <1>13, Announcing, ContactReasons
<1>14. CASE ListVendors(t)
  <2>1. thread[t].pc = "list_vendors"
    BY <1>14 DEF ListVendors, At
  <2>2. AssignedDeclined /\ AssignedDeclined'
    BY <1>1, <2>1, AnswersLast DEF Reasons
  <2>3. CASE Alternatives = {} /\ Jumps(t, {"advise"})
    <3>1. AdviceDue'
      BY <2>2, <2>3 DEF AdviceDue
    <3> QED BY <1>1, <1>2, <2>3, <3>1, JumpReasons
  <2>4. CASE /\ thread'[t].pc = "find" /\ thread'[t].todo = Alternatives
             /\ thread'[t].key = thread[t].key /\ thread'[t].attempt = thread[t].attempt
    BY <1>1, <2>2, <2>4, NewReasons
  <2> QED BY <1>1, <1>14, <2>3, <2>4, Lists
<1>15. CASE Answers(t)
  <2>1. PICK a \in Attempts, d \in Decisions, call \in Attempts \cup {None} :
          ReadsAttempt(t, a, d, call)
    BY <1>15 DEF Answers, LinkAnswers, CallAnswers
  <2>2. /\ Exists(a) /\ thread'[t].pc = "record" /\ thread'[t].attempt = a
        /\ thread'[t].todo = thread[t].todo /\ thread'[t].key = thread[t].key
    BY <1>1, <2>1, Reading
  <2>3. a[1] \in Alternatives => AssignedDeclined
    BY <1>1, <2>2, VendorRows
  <2> QED BY <1>1, <2>2, <2>3, NewReasons
<1>16. CASE \/ TimeOut(t) \/ CountAssigned(t) \/ \E due \in SUBSET ActiveRows : SweepLists(t, due)
  BY <1>1, <1>16, SweepReasons
<1> QED BY <1>3, <1>4, <1>5, <1>6, <1>7, <1>8, <1>9, <1>10, <1>11, <1>12, <1>13, <1>14, <1>15,
           <1>16 DEF HandlerSteps, Handles

LEMMA HandlerAnswers ==
  ASSUME IInv, NEW t \in Threads, HandlerSteps(t)
  PROVE  AnswersSaid'
<1>1. /\ TypeOK /\ RowInv /\ AnswersSaid
      /\ said \subseteq said' /\ attempts \in [Attempts -> AttemptRecord]
      /\ \A a \in Attempts : Exists(a) => Exists(a)'
  BY HandlerData, HandlerTypes, Types DEF IInv, OrderInv
<1>2. \A c : RowsOf(c) # {} => RowsOf(c)' # {}
  BY <1>1 DEF RowsOf
<1>3. ASSUME NEW a \in Attempts, NEW d, NEW s, Exists(a), said' = said \cup {<<a[1], d>>},
             attempts' = [attempts EXCEPT ![a] = [status |-> s, responded |-> TRUE]],
             s = "timed_out" => d = "timeout", s = "responded_unavailable" => d = "unavailable",
             s = "human_requested" => d = "human"
      PROVE  AnswersSaid'
  <2>1. \A k \in said' : RowsOf(k[1])' # {}
    <3>1. a \in RowsOf(a[1])
      BY <1>3 DEF RowsOf
    <3>2. \A k \in said' : k \in said \/ k[1] = a[1]
      BY <1>3
    <3> QED BY <1>1, <1>2, <3>1, <3>2 DEF AnswersSaid
  <2>2. attempts'[a].status = s /\ \A b \in Attempts \ {a} : attempts'[b] = attempts[b]
    BY <1>1, <1>3
  <2>3. <<a[1], d>> \in said'
    BY <1>3
  <2>4. ASSUME NEW b \in Attempts
        PROVE  /\ attempts'[b].status = "timed_out" => <<b[1], "timeout">> \in said'
               /\ attempts'[b].status = "responded_unavailable" => <<b[1], "unavailable">> \in said'
               /\ attempts'[b].status = "human_requested" => <<b[1], "human">> \in said'
    <3>1. CASE b = a
      BY <1>3, <2>2, <2>3, <3>1
    <3>2. CASE b # a
      BY <1>1, <2>2, <3>2 DEF AnswersSaid, Answered
    <3> QED BY <3>1, <3>2
  <2> QED BY <2>1, <2>4 DEF AnswersSaid, Answered
<1>4. CASE attempts' = attempts /\ said' = said
  BY <1>1, <1>2, <1>4 DEF AnswersSaid, Answered
<1>5. CASE RecordAnswer(t)
  <2> DEFINE a == thread[t].attempt
             d == thread[t].decision
             s == Recorded(d)
  <2>1. /\ s = "timed_out" => d = "timeout"
        /\ s = "responded_unavailable" => d = "unavailable"
        /\ s = "human_requested" => d = "human"
    <3>1. d \in {"available", "unavailable", "human"}
      BY <1>1, <1>5, Recording DEF Decisions
    <3> QED BY <3>1 DEF Recorded
  <2>2. /\ said' = said \cup {<<a[1], d>>}
        /\ attempts' = [attempts EXCEPT ![a] = [status |-> s, responded |-> TRUE]]
    BY <1>5 DEF RecordAnswer
  <2>3. a \in Attempts /\ Exists(a)
    BY <1>1, <1>5, Recording
  <2> HIDE DEF a, d, s
  <2> QED BY <1>3, <2>1, <2>2, <2>3
<1>6. CASE TimeOut(t)
  <2>1. PICK a \in thread[t].due :
          \/ attempts' = attempts /\ said' = said
          \/ /\ ActiveRow(a) /\ said' = said \cup {<<a[1], "timeout">>}
             /\ attempts' = [attempts EXCEPT ![a] = [status |-> "timed_out", responded |-> TRUE]]
    BY <1>6 DEF TimeOut
  <2>2. a \in Attempts /\ (ActiveRow(a) => Exists(a))
    BY <1>1, Types DEF ThreadRecord, ActiveRow, Active, Exists
  <2> QED BY <1>3, <1>4, <2>1, <2>2
<1>7. CASE CreateAttempt(t)
  <2>1. said' = said
    BY <1>7 DEF CreateAttempt
  <2>2. PICK a \in Attempts :
          \A b \in Attempts : attempts'[b] = IF b = a THEN [status |-> "queued", responded |-> FALSE]
                                                      ELSE attempts[b]
    BY <1>1, <1>7, Creates
  <2> QED BY <1>1, <1>2, <2>1, <2>2 DEF AnswersSaid, Answered
<1>8. CASE ~RecordAnswer(t) /\ ~TimeOut(t) /\ ~CreateAttempt(t)
  <2>1. attempts' = attempts /\ said' = said
    BY <1>8 DEF HandlerSteps, Handles, TakeEvent, Fail, Die, SweepLists, Answers, LinkAnswers,
                CallAnswers, Confirm, Start, MarkFailed, FindAttempt, Announce, CountAlternatives,
                ListVendors, Advise, TellLooksUp, TellCreates, Settle, CountActive, CountAssigned,
                ReviewAlternatives, Resolve
  <2> QED BY <1>4, <2>1
<1> QED BY <1>5, <1>6, <1>7, <1>8

LEMMA HandlerOrder ==
  ASSUME IInv, NEW t \in Threads, HandlerSteps(t)
  PROVE  FallbackInOrder'
<1>1. /\ TypeOK /\ RowInv /\ Reasons(t) /\ FallbackInOrder /\ said \subseteq said'
  BY HandlerData DEF IInv, OrderInv
<1>2. AlternativeRows' # {} => AssignedDeclined'
  <2>1. CASE CreateAttempt(t)
    <3>1. PICK a \in Attempts :
            /\ a[1] = thread[t].attempt[1]
            /\ \A b \in Attempts : attempts'[b] = IF b = a
                                                  THEN [status |-> "queued", responded |-> FALSE]
                                                  ELSE attempts[b]
      BY <1>1, <2>1, Creates
    <3>2. thread[t].attempt # None
      BY <1>1, <2>1 DEF CreateAttempt, At, RowInv, Announced
    <3>3. a[1] \in Alternatives => AssignedDeclined
      BY <1>1, <3>1, <3>2 DEF Reasons
    <3>4. ASSUME NEW b \in Attempts, Exists(b)', b[1] \in Alternatives PROVE AssignedDeclined
      <4>1. CASE b = a
        BY <3>3, <3>4, <4>1
      <4>2. CASE b # a
        <5>1. Exists(b)
          BY <3>1, <3>4, <4>2 DEF Exists
        <5> QED BY <1>1, <3>4, <5>1, VendorRows
      <4> QED BY <4>1, <4>2
    <3> QED BY <1>1, <3>4, AnswersLast DEF AlternativeRows, RowsOf
  <2>2. CASE ~CreateAttempt(t)
    <3>1. AlternativeRows' = AlternativeRows
      BY <1>1, <2>2, HandlerRows DEF SameRows, AlternativeRows, RowsOf
    <3> QED BY <1>1, <3>1, AnswersLast DEF FallbackInOrder, AssignedDeclined
  <2> QED BY <2>1, <2>2
<1>3. Advised' => AdviceDue'
  <2>1. told' = told \/ told' = told \cup {thread[t].key}
    BY DEF HandlerSteps, Handles, TakeEvent, Fail, Die, SweepLists, Answers, LinkAnswers,
           CallAnswers, Confirm, Start, MarkFailed, FindAttempt, CreateAttempt, Announce,
           CountAlternatives, ListVendors, Advise, TellLooksUp, TellCreates, RecordAnswer, Settle,
           CountActive, TimeOut, CountAssigned, ReviewAlternatives, Resolve
  <2>2. Advised => AdviceDue
    BY <1>1 DEF FallbackInOrder, AdviceDue, AssignedDeclined, VendorDone
  <2>3. thread[t].key = <<"self_booking", None>> => AdviceDue
    BY <1>1 DEF Reasons
  <2>4. Advised' => Advised \/ thread[t].key = <<"self_booking", None>>
    BY <2>1 DEF Advised
  <2> QED BY <1>1, <2>2, <2>3, <2>4, AnswersLast
<1> QED BY <1>2, <1>3 DEF FallbackInOrder, AssignedDeclined, AdviceDue, VendorDone

LEMMA HandlerOrderInv ==
  ASSUME IInv, NEW t \in Threads, HandlerSteps(t)
  PROVE  OrderInv'
<1>1. TypeOK /\ RowInv /\ \A u \in Threads : Reasons(u)
  BY DEF IInv, OrderInv
<1>2. \A u \in Threads \ {t} : thread'[u] = thread[u]
  BY <1>1, HandlerMoves DEF Alone
<1>3. said \subseteq said'
  BY <1>1, HandlerData
<1>4. \A u \in Threads \ {t} : Reasons(u)'
  BY <1>1, <1>2, <1>3, ReasonsStay
<1> QED BY <1>4, HandlerReasons, HandlerAnswers, HandlerOrder DEF OrderInv

LEMMA TelephoneOrder ==
  ASSUME IInv, NEW a \in Attempts, Telephone(a)
  PROVE  OrderInv'
<1>1. /\ TypeOK /\ RowInv /\ OrderInv
      /\ SameRows /\ said' = said /\ told' = told /\ thread' = thread
      /\ \A b \in Attempts : attempts'[b].status \in Active
                             \/ attempts'[b].status = attempts[b].status
  BY TelephoneRows DEF IInv
<1>2. \A c : RowsOf(c)' = RowsOf(c)
  BY <1>1 DEF SameRows, RowsOf
<1>3. AnswersSaid'
  BY <1>1, <1>2 DEF OrderInv, AnswersSaid, Answered, Active
<1>4. \A t \in Threads : Reasons(t)'
  BY <1>1, ReasonsStay DEF OrderInv
<1>5. FallbackInOrder'
  BY <1>1, <1>2 DEF OrderInv, FallbackInOrder, AlternativeRows, Declined, Answered, Advised
<1> QED BY <1>3, <1>4, <1>5 DEF OrderInv

LEMMA StutterKeeps ==
  ASSUME IInv, UNCHANGED vars
  PROVE  IInv'
<1>1. TypeOK'
  BY DEF IInv, TypeOK, vars, Exists
<1>2. RowInv'
  BY DEF IInv, vars, RowInv, RowsNumbered, Numbered, RowsOf, Creating, Announced, TriesLeft, Exists
<1>3. OrderInv'
  <2>1. OrderInv /\ said \subseteq said' /\ UNCHANGED <<attempts, said, told, thread>>
    BY DEF IInv, vars
  <2>2. AnswersSaid'
    BY <2>1 DEF OrderInv, AnswersSaid, RowsOf, Exists, Answered
  <2>3. FallbackInOrder'
    BY <2>1 DEF OrderInv, FallbackInOrder, AlternativeRows, RowsOf, Exists, Declined, Answered,
                Advised
  <2>4. \A t \in Threads : Reasons(t)'
    BY <2>1, ReasonsStay DEF OrderInv
  <2> QED BY <2>2, <2>3, <2>4 DEF OrderInv
<1> QED BY <1>1, <1>2, <1>3 DEF IInv
-----------------------------------------------------------------------------
LEMMA InitHolds == Init => IInv
<1> SUFFICES ASSUME Init PROVE IInv
  OBVIOUS
<1>1. \A t \in Threads : /\ thread[t].pc \in {"idle", "start"} /\ thread[t].todo = {}
                         /\ thread[t].attempt = None /\ thread[t].moved = FALSE
                         /\ thread[t].key = <<"none", None>> /\ thread[t] \in ThreadRecord
  <2>1. "start" \in Steps
    BY DEF Steps
  <2>2. [Idle EXCEPT !.pc = "start"] \in ThreadRecord
    BY <2>1, IdleRecord DEF ThreadRecord
  <2> QED BY <2>2, IdleRecord DEF Init, Idle
<1>2. \A a \in Attempts : /\ ~Exists(a) /\ attempts[a].responded = FALSE
                          /\ attempts[a].status = "none" /\ calls[a] = NoCall
  BY DEF Init, Exists, NoAttempt
<1>3. TypeOK
  <2>1. recovery \in RecoveryRecord /\ told \subseteq Keys
        /\ said \subseteq Contacts \X (Decisions \cup {"timeout"})
    BY DEF Init, RecoveryRecord, RecoveryStatus
  <2>2. attempts \in [Attempts -> AttemptRecord]
    BY DEF Init, AttemptRecord, AttemptStatus, NoAttempt
  <2>3. calls \in [Attempts -> CallRecord]
    BY DialsAssumption DEF Init, CallRecord, NoCall
  <2>4. event \in EventRecord
    BY TriesAssumption DEF Init, EventRecord
  <2>5. thread \in [Threads -> ThreadRecord]
    BY <1>1 DEF Init
  <2>6. (\A t \in Threads : Holds(t)) /\ RowsFirst
    BY <1>1, <1>2 DEF Holds, RowsFirst, NoCall
  <2> QED BY <2>1, <2>2, <2>3, <2>4, <2>5, <2>6, Types
<1>4. \A c : RowsOf(c) = {}
  BY <1>2 DEF RowsOf
<1>5. RowInv
  <2>1. ASSUME NEW c \in Contacts PROVE Numbered(c)
    <3>1. Creating(c) = {}
      BY <1>1 DEF Creating
    <3>2. Cardinality(RowsOf(c)) = 0 /\ Cardinality(Creating(c)) = 0
      BY <1>4, <3>1, FS_EmptySet
    <3>3. {<<c, i>> : i \in 1 .. 0} = {}
      OBVIOUS
    <3>4. 0 + 0 <= Cardinality(Threads)
      BY Finite
    <3> QED BY <1>4, <3>2, <3>3, <3>4 DEF Numbered
  <2>2. Announced
    BY <1>1 DEF Announced
  <2>3. TriesLeft
    BY <1>2, TriesAssumption DEF Init, TriesLeft, NoCall
  <2> QED BY <2>1, <2>2, <2>3 DEF RowInv, RowsNumbered
<1>6. OrderInv
  <2>1. AnswersSaid
    BY <1>2 DEF Init, AnswersSaid
  <2>2. <<"none", None>> # <<"self_booking", None>>
    OBVIOUS
  <2>3. \A t \in Threads : Reasons(t)
    BY <1>1, <2>2 DEF Reasons
  <2>4. FallbackInOrder
    BY <1>4 DEF Init, FallbackInOrder, AlternativeRows, Advised
  <2> QED BY <2>1, <2>3, <2>4 DEF OrderInv
<1> QED BY <1>3, <1>5, <1>6 DEF IInv

LEMMA Step == IInv /\ [Next]_vars => IInv'
<1>1. ASSUME IInv, NEW t \in Threads, HandlerSteps(t) PROVE IInv'
  BY <1>1, HandlerKeeps, HandlerOrderInv DEF IInv
<1>2. ASSUME IInv, NEW a \in Attempts, Telephone(a) PROVE IInv'
  BY <1>2, TelephoneKeeps, TelephoneOrder DEF IInv
<1>3. ASSUME IInv, UNCHANGED vars PROVE IInv'
  BY <1>3, StutterKeeps
<1> QED BY <1>1, <1>2, <1>3, NextSteps

LEMMA Invariance == Spec => []IInv
BY InitHolds, Step, PTL DEF Spec

(* Rows, calls and handlers stay well formed, however many handlers, calls *)
(* and sweeps run at once: nobody announces or answers a row that does not *)
(* exist, an attempt is dialled at most MaxDials times and the event is    *)
(* tried at most MaxTries times.                                           *)
THEOREM TypeCorrect == Spec => []TypeOK
<1>1. IInv => TypeOK
  BY DEF IInv
<1> QED BY <1>1, Invariance, PTL

(* Vendors are contacted only after the assigned provider declined or let  *)
(* the time pass, and the traveller is sent to book himself only after     *)
(* that and after a vendor had his chance, for any number of vendors and   *)
(* of requests, batches and sweeps at once, and whatever throws or dies    *)
(* (incidentRecoveryService.ts 354-442, 540-556, 593-609).                 *)
THEOREM FallbackKept == Spec => []FallbackInOrder
<1>1. IInv => FallbackInOrder
  BY DEF IInv, OrderInv
<1> QED BY <1>1, Invariance, PTL
=============================================================================
