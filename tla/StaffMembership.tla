-------------------------- MODULE StaffMembership --------------------------
(***************************************************************************)
(* The members and the invitations of one company with a fixed number of   *)
(* seats.  An invitation reads the version of the tenant's quota, the      *)
(* members and the open invitations, one after the other, and then claims  *)
(* the version it has read; acceptances, operators' calls and requests to  *)
(* delete the company read a row and later write without looking again.    *)
(* Whether the workspace is open is the matter of TenantAccount and is not *)
(* looked at here.                                                         *)
(***************************************************************************)
EXTENDS Naturals, FiniteSets

CONSTANTS People,    \* addresses
          Founder,   \* the owner the workspace begins with
          Requests,  \* requests the servers handle at the same time
          Seats,     \* seats of the plan
          MaxTries,  \* how often an invitation tries to claim the quota
          MaxRows,   \* bound on the invitations made
          MaxAsked   \* bound on the deletions of the company that are asked for

ASSUME StaffAssumption ==
  /\ Founder \in People
  /\ IsFiniteSet(People)
  /\ Seats \in Nat \ {0} /\ MaxTries \in Nat \ {0} /\ MaxRows \in Nat /\ MaxAsked \in Nat

VARIABLES
  member,        \* the membership of each person
  invitation,    \* the invitation rows
  rows,          \* how many there are
  scheduled,     \* deletions of the company that are scheduled
  asked,         \* how many there were
  quotaVersion,
  request,       \* what the requests do
  unchecked      \* history: people whose seat no count has seen

vars == <<member, invitation, rows, scheduled, asked, quotaVersion, request, unchecked>>

RowIds == 1..MaxRows

Membership == [role: {"owner", "staff"}, status: {"none", "active", "suspended"}]
\* An invitation is open, or its term is over, or it is open again because it was
\* sent with a new term, or it was accepted or revoked.
Invitation == [to: People, status: {"open", "lapsed", "reopened", "closed"}]

NoMember    == [role |-> "staff", status |-> "none"]
ActiveOwner == [role |-> "owner", status |-> "active"]
ActiveStaff == [role |-> "staff", status |-> "active"]

Idle == [at |-> "idle", who |-> Founder, from |-> Founder, row |-> 0,
         version |-> 0, taken |-> 0, missed |-> {}, tries |-> 0]

InviteSteps   == {"count", "members", "invitations", "claim"}
MemberSteps   == {"member", "transfer"}
DeletionSteps == {"delete", "schedule", "cancel", "withdraw"}
Steps == {"idle", "join", "letter"} \cup InviteSteps \cup MemberSteps \cup DeletionSteps

\* "missed" is history: people who joined after a count had read the members.
Request == [at: Steps, who: People, from: People, row: Nat, version: Nat, taken: Nat,
            missed: SUBSET People, tries: 0..(MaxTries - 1)]

TypeOK ==
  /\ member \in [People -> Membership]
  /\ invitation \in [RowIds -> Invitation]
  /\ rows \in 0..MaxRows /\ asked \in 0..MaxAsked
  /\ scheduled \subseteq 1..asked
  /\ quotaVersion \in Nat
  /\ request \in [Requests -> Request]
  /\ unchecked \subseteq People

Init ==
  /\ member = [p \in People |-> IF p = Founder THEN ActiveOwner ELSE NoMember]
  /\ invitation = [r \in RowIds |-> [to |-> Founder, status |-> "closed"]]
  /\ rows = 0 /\ asked = 0
  /\ scheduled = {}
  /\ quotaVersion = 0
  /\ request = [q \in Requests |-> Idle]
  /\ unchecked = {}

-----------------------------------------------------------------------------
Made == 1..rows

Open(r)    == invitation[r].status \in {"open", "reopened"}
Pending    == {invitation[r].to : r \in {s \in Made : Open(s)}}
Staff      == {p \in People : member[p].status = "active"}
Owners     == {p \in Staff : member[p].role = "owner"}

Goes(q, at, who, row) ==
  request' = [request EXCEPT ![q] = [Idle EXCEPT !.at = at, !.who = who, !.from = who, !.row = row]]
Returns(q) == request' = [request EXCEPT ![q] = Idle]

invitations == <<invitation, rows, quotaVersion>>
deletions   == <<scheduled, asked>>

OnlyRequests == UNCHANGED <<member, invitations, deletions, unchecked>>

-----------------------------------------------------------------------------
\* Inviting

\* Someone who has a membership, in whatever state, is not invited.
OpenInvite(q, p) ==
  /\ request[q] = Idle
  /\ member[p].status = "none"
  /\ Goes(q, "count", p, 0)
  /\ OnlyRequests

\* The tenant's row with the version of its quota, then the memberships, then
\* the invitations: three SELECTs without a transaction.
ReadVersion(q) ==
  /\ request[q].at = "count"
  /\ request' = [request EXCEPT ![q].at = "members", ![q].version = quotaVersion]
  /\ OnlyRequests

ReadMembers(q) ==
  /\ request[q].at = "members"
  /\ request' = [request EXCEPT ![q].at = "invitations", ![q].taken = Cardinality(Staff)]
  /\ OnlyRequests

Refuses(q) ==
  \/ request[q].who \in Pending
  \/ request[q].taken + Cardinality(Pending) >= Seats

CountRefuses(q) ==
  /\ request[q].at = "invitations"
  /\ Refuses(q)
  /\ Returns(q)
  /\ OnlyRequests

Count(q) ==
  /\ request[q].at = "invitations"
  /\ ~Refuses(q)
  /\ request' = [request EXCEPT ![q].at = "claim", ![q].taken = 0]
  /\ OnlyRequests

\* The row is written, and whom the count has missed has no seat of the plan.
Invites(q) ==
  /\ rows < MaxRows
  /\ rows' = rows + 1
  /\ invitation' = [invitation EXCEPT ![rows + 1] =
                      [to |-> request[q].who, status |-> "open"]]
  /\ unchecked' = (unchecked \cup request[q].missed) \ {request[q].who}
  /\ Returns(q)
  /\ UNCHANGED <<member, deletions>>

\* A slip: the version is not compared.
ClaimBlindly(q) ==
  /\ request[q].at = "claim"
  /\ quotaVersion' = quotaVersion + 1
  /\ Invites(q)

\* A slip: the version is compared and left as it is.
ClaimUncounted(q) ==
  /\ request[q].at = "claim"
  /\ request[q].version = quotaVersion
  /\ UNCHANGED quotaVersion
  /\ Invites(q)

Claim(q) ==
  /\ request[q].at = "claim"
  /\ request[q].version = quotaVersion
  /\ quotaVersion' = quotaVersion + 1
  /\ Invites(q)

CountsAgain(call) == [Idle EXCEPT !.at = "count", !.who = call.who, !.from = call.who, !.tries = call.tries + 1]

\* A slip: one try too many.
ClaimConflictsLate(q) ==
  /\ request[q].at = "claim"
  /\ request[q].version # quotaVersion
  /\ IF request[q].tries < MaxTries
       THEN request' = [request EXCEPT ![q] = CountsAgain(@)]
       ELSE Returns(q)
  /\ OnlyRequests

\* Another invitation was first: count again, MaxTries times at most.
ClaimConflicts(q) ==
  /\ request[q].at = "claim"
  /\ request[q].version # quotaVersion
  /\ IF request[q].tries + 1 < MaxTries
       THEN request' = [request EXCEPT ![q] = CountsAgain(@)]
       ELSE Returns(q)
  /\ OnlyRequests

\* Seven days pass.
Lapse(r) ==
  /\ r \in Made /\ Open(r)
  /\ invitation' = [invitation EXCEPT ![r].status = "lapsed"]
  /\ UNCHANGED <<member, rows, quotaVersion, deletions, request, unchecked>>

-----------------------------------------------------------------------------
\* Writing memberships

OpenAccept(q, r) ==
  /\ request[q] = Idle
  /\ r \in Made /\ Open(r)
  /\ Goes(q, "join", invitation[r].to, r)
  /\ OnlyRequests

\* A count that has read the members and not yet the invitations sees someone
\* who joins now among neither.
Misses(call, p) ==
  IF call.at = "invitations" THEN [call EXCEPT !.missed = @ \cup {p}] ELSE call

\* The transaction looks neither at the invitation nor at a membership again.
Join(q) ==
  LET p == request[q].who
      r == request[q].row
  IN /\ request[q].at = "join"
     /\ member' = [member EXCEPT ![p] = ActiveStaff]
     /\ invitation' = [invitation EXCEPT ![r].status = "closed"]
     /\ unchecked' = IF Open(r) THEN unchecked ELSE unchecked \cup {p}
     /\ request' = [other \in Requests |-> IF other = q THEN Idle ELSE Misses(request[other], p)]
     /\ UNCHANGED <<rows, quotaVersion, deletions>>

\* An operator's call on a member who is not the owner; what it does it decides
\* when it writes.
OpenMemberCall(q, p) ==
  /\ request[q] = Idle
  /\ member[p].status # "none" /\ member[p].role # "owner"
  /\ Goes(q, "member", p, 0)
  /\ OnlyRequests

\* The owner is looked up with the target.
OpenTransfer(q, p) ==
  /\ request[q] = Idle
  /\ p \in Staff \ Owners
  /\ \E owner \in Owners :
       request' = [request EXCEPT ![q] = [Idle EXCEPT !.at = "transfer", !.who = p, !.from = owner]]
  /\ OnlyRequests

\* Writes of the memberships and of the history.
Writes(members, seated) ==
  /\ member' = members
  /\ unchecked' = unchecked \cup seated
  /\ UNCHANGED invitations

\* updateMembership writes the status asked for, or the one it has read when
\* only the role was to change, and always a role other than owner.
SetMember(q, status, seated) ==
  /\ Writes([member EXCEPT ![request[q].who] = [role |-> "staff", status |-> status]], seated)
  /\ Returns(q)
  /\ UNCHANGED deletions

Suspend(q) ==
  /\ request[q].at = "member"
  /\ SetMember(q, "suspended", {})

\* A member who is reactivated takes a seat again, and nothing counts.
Reactivate(q) ==
  /\ request[q].at = "member"
  /\ SetMember(q, "active", {request[q].who} \ Staff)

\* The row is deleted: whatever others were to write to it will throw.
Remove(q) ==
  LET p == request[q].who
      void(other) == other = q \/ /\ request[other].at \in MemberSteps
                                  /\ p \in {request[other].who, request[other].from}
  IN /\ request[q].at = "member"
     /\ Writes([member EXCEPT ![p] = NoMember], {})
     /\ request' = [other \in Requests |-> IF void(other) THEN Idle ELSE request[other]]
     /\ UNCHANGED deletions

Transfer(q) ==
  /\ request[q].at = "transfer"
  /\ Writes([member EXCEPT ![request[q].from].role = "staff",
                              ![request[q].who].role = "owner"], {})
  /\ Returns(q)
  /\ UNCHANGED deletions

-----------------------------------------------------------------------------
\* Deleting the company

\* The memberships when those of some people get a status, whatever they had.
AllGet(people, status) ==
  [p \in People |-> IF p \in people /\ member[p].status # "none"
                      THEN [role |-> member[p].role, status |-> status] ELSE member[p]]

\* The company asks, by any of its administrators, or an operator does; a
\* deletion that is scheduled is answered instead.
OpenDeletion(q, p, at) ==
  /\ request[q] = Idle
  /\ scheduled = {}
  /\ at = "delete" => p \in Staff
  /\ Goes(q, at, p, 0)
  /\ OnlyRequests

Schedules(q) ==
  /\ asked < MaxAsked
  /\ asked' = asked + 1
  /\ scheduled' = scheduled \cup {asked + 1}
  /\ Returns(q)

\* Whoever asks stays a member, and everybody else is suspended, the owner too.
Delete(q) ==
  /\ request[q].at = "delete"
  /\ Schedules(q)
  /\ Writes(AllGet(People \ {request[q].who}, "suspended"), {})

\* The operator's deletion leaves the memberships.
Schedule(q) ==
  /\ request[q].at = "schedule"
  /\ Schedules(q)
  /\ Writes(member, {})

\* A member of the company or an operator cancels the latest one.
OpenCancel(q, d, at) ==
  /\ request[q] = Idle
  /\ d \in scheduled /\ \A e \in scheduled : e <= d
  /\ at = "cancel" => Staff # {}
  /\ Goes(q, at, Founder, d)
  /\ OnlyRequests

\* The company's cancellation makes every membership active, whatever it was
\* before, and counts no seats.
Restore(q) ==
  /\ request[q].at = "cancel"
  /\ scheduled' = scheduled \ {request[q].row}
  /\ Writes(AllGet(People, "active"), {p \in People : member[p].status = "suspended"})
  /\ Returns(q)
  /\ UNCHANGED asked

\* The operator's cancellation leaves the memberships as they are.
Withdraw(q) ==
  /\ request[q].at = "withdraw"
  /\ scheduled' = scheduled \ {request[q].row}
  /\ Writes(member, {})
  /\ Returns(q)
  /\ UNCHANGED asked

\* The company's time is over: its data are destroyed and all are suspended.
Purge ==
  /\ member' = AllGet(People, "suspended")
  /\ scheduled' = {}
  /\ UNCHANGED <<invitations, asked, request, unchecked>>

\* Part of its data could not be destroyed; the deletion it was for has failed.
PurgeFails(d) ==
  /\ d \in scheduled
  /\ scheduled' = scheduled \ {d}
  /\ UNCHANGED <<member, invitations, asked, request, unchecked>>

-----------------------------------------------------------------------------
\* Operators' calls on invitations

OpenInvitationCall(q, r) ==
  /\ request[q] = Idle
  /\ r \in Made /\ invitation[r].status # "closed"
  /\ Goes(q, "letter", invitation[r].to, r)
  /\ OnlyRequests

\* A new token and seven more days, also for an invitation that had lapsed
\* and whose seat may be taken; one that was closed meanwhile stays closed.
Resend(q) ==
  LET r == request[q].row
  IN /\ request[q].at = "letter"
     /\ IF invitation[r].status = "lapsed"
          THEN /\ invitation' = [invitation EXCEPT ![r].status = "reopened"]
               /\ unchecked' = unchecked \cup {invitation[r].to}
          ELSE UNCHANGED <<invitation, unchecked>>
     /\ Returns(q)
     /\ UNCHANGED <<member, rows, quotaVersion, deletions>>

Revoke(q) ==
  /\ request[q].at = "letter"
  /\ invitation' = [invitation EXCEPT ![request[q].row].status = "closed"]
  /\ Returns(q)
  /\ UNCHANGED <<member, rows, quotaVersion, deletions, unchecked>>

-----------------------------------------------------------------------------
Begins(q) ==
  \/ \E p \in People : \/ OpenInvite(q, p) \/ OpenTransfer(q, p)
                       \/ OpenMemberCall(q, p) \/ OpenDeletion(q, p, "delete")
  \/ \E r \in RowIds : OpenAccept(q, r) \/ OpenInvitationCall(q, r)
  \/ OpenDeletion(q, Founder, "schedule")
  \/ \E d \in 1..MaxAsked : OpenCancel(q, d, "cancel") \/ OpenCancel(q, d, "withdraw")

GoesOn(q) ==
  \/ ReadVersion(q) \/ ReadMembers(q) \/ CountRefuses(q) \/ Count(q)
  \/ Claim(q) \/ ClaimConflicts(q) \/ Join(q)
  \/ Suspend(q) \/ Reactivate(q) \/ Remove(q) \/ Transfer(q)
  \/ Resend(q) \/ Revoke(q)
  \/ Delete(q) \/ Schedule(q) \/ Restore(q) \/ Withdraw(q)

\* A request ends early: its server dies, or a statement throws.
Dies(q) ==
  /\ request[q] # Idle
  /\ Returns(q)
  /\ OnlyRequests

Next ==
  \/ \E q \in Requests : Begins(q) \/ GoesOn(q) \/ Dies(q)
  \/ \E r \in RowIds : Lapse(r)
  \/ \E d \in 1..MaxAsked : PurgeFails(d)
  \/ Purge

Spec == Init /\ [][Next]_vars

-----------------------------------------------------------------------------
\* Members and open invitations never take more seats than the plan has,
\* whichever invitations race for the last one (invitationService.ts 35-92).
\* On top come people who were seated where nothing counts (by a late
\* acceptance, a lapsed invitation that is sent again, a reactivation, a
\* cancelled deletion), and people a count could not see because they accepted
\* between its reads of the members and of the invitations.
SeatsWithinPlan == Cardinality((Staff \cup Pending) \ unchecked) <= Seats

\* Nobody has two invitations that can be accepted, though the invitation looks
\* for another one before it claims the quota and two of them may look at the
\* same time (invitationService.ts 50-52); only one that had lapsed and was
\* sent again may stand beside a newer one.
OneInvitation ==
  \A r, s \in Made :
    /\ invitation[r].status = "open" /\ invitation[s].status = "open"
    /\ invitation[r].to = invitation[s].to
    => r = s

\* Violated: a company with active members has an owner among them.  Who is to
\* own it is checked when a transfer begins, and may be suspended or removed
\* before it ends; a deletion that another administrator asks for suspends the
\* owner.
OwnerKept == Staff # {} => Owners # {}

\* Violated: a company whose deletion is scheduled has someone who can cancel
\* it.  Two administrators who ask at the same time suspend each other.
CanBeCancelled == scheduled # {} => Staff # {}
=============================================================================
