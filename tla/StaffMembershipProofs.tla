----------------------- MODULE StaffMembershipProofs -----------------------
(***************************************************************************)
(* Theorems about StaffMembership, for any people, seats and requests.     *)
(* A claim succeeds only with the version it has read.  Until that version *)
(* is claimed nobody takes a seat but on top of the quota, except people   *)
(* who leave the open invitations for the members, and whoever does so     *)
(* between the two reads of a count is known to have been missed.          *)
(***************************************************************************)
EXTENDS StaffMembership, FiniteSetTheorems, TLAPS

\* The people who hold a seat that an invitation counted.
Seated == (Staff \cup Pending) \ unchecked

\* A request that answers an invitation has found it, and knows whom it is for.
FindsItsRow ==
  \A q \in Requests :
    request[q].at \in {"join", "letter"} =>
      /\ request[q].row \in Made
      /\ invitation[request[q].row].to = request[q].who

Counting == {"members", "invitations", "claim"}

VersionKnown(q) == request[q].at \in Counting => request[q].version <= quotaVersion

\* A count that is not yet out of date: the members it has read, and those it
\* has missed, are all there are.
MembersCounted(q) ==
  request[q].at = "invitations" /\ request[q].version = quotaVersion =>
    Cardinality(Staff \ (unchecked \cup request[q].missed)) <= request[q].taken

\* A claim that will succeed: a seat is still free, but for whom it has missed,
\* and nobody has invited the same person.
RoomToClaim(q) ==
  request[q].at = "claim" /\ request[q].version = quotaVersion =>
    Cardinality(Seated \ request[q].missed) < Seats

FreshToClaim(q) ==
  request[q].at = "claim" /\ request[q].version = quotaVersion =>
    \A r \in Made : invitation[r].status = "open" => invitation[r].to # request[q].who

CallInv(q) == VersionKnown(q) /\ MembersCounted(q) /\ RoomToClaim(q)
SeatInv    == SeatsWithinPlan /\ \A q \in Requests : CallInv(q)
FreshInv   == OneInvitation /\ \A q \in Requests : FreshToClaim(q)

IInv == TypeOK /\ FindsItsRow /\ SeatInv /\ FreshInv

-----------------------------------------------------------------------------
(* What the operations write. *)

LEMMA IdleType == Idle \in Request
BY StaffAssumption DEF Idle, Request, Steps

LEMMA RoleType ==
  ASSUME NEW m \in [People -> Membership], NEW p \in People, NEW role \in {"owner", "staff"}
  PROVE  [m EXCEPT ![p].role = role] \in [People -> Membership]
BY DEF Membership

LEMMA ReturnsOnly ==
  ASSUME TypeOK, NEW q \in Requests, Returns(q)
  PROVE  /\ request'[q] = Idle
         /\ \A other \in Requests \ {q} : request'[other] = request[other]
         /\ request' \in [Requests -> Request]
BY IdleType DEF TypeOK, Returns

LEMMA GoesOnly ==
  ASSUME TypeOK, NEW q \in Requests, NEW at \in Steps, NEW p \in People, NEW r \in Nat,
         Goes(q, at, p, r)
  PROVE  /\ request'[q].at = at /\ request'[q].who = p /\ request'[q].row = r
         /\ \A other \in Requests \ {q} : request'[other] = request[other]
         /\ request' \in [Requests -> Request]
BY IdleType DEF TypeOK, Goes, Idle, Request

\* A request that begins is about to count, to answer a row it has found, or to
\* write memberships.
LEMMA BeginsOnly ==
  ASSUME TypeOK, NEW q \in Requests, Begins(q)
  PROVE  /\ OnlyRequests
         /\ request'[q].at \notin Counting
         /\ request'[q].at \in {"join", "letter"} =>
              request'[q].row \in Made /\ invitation[request'[q].row].to = request'[q].who
         /\ \A other \in Requests \ {q} : request'[other] = request[other]
         /\ request' \in [Requests -> Request]
<1> DEFINE Post == /\ OnlyRequests
                   /\ request'[q].at \notin Counting
                   /\ request'[q].at \in {"join", "letter"} =>
                        request'[q].row \in Made /\ invitation[request'[q].row].to = request'[q].who
                   /\ \A other \in Requests \ {q} : request'[other] = request[other]
                   /\ request' \in [Requests -> Request]
<1>0. /\ 0 \in Nat /\ Founder \in People /\ Made \subseteq RowIds
      /\ \A r \in RowIds : r \in Nat /\ invitation[r].to \in People
      /\ \A d \in 1..MaxAsked : d \in Nat
  BY StaffAssumption DEF TypeOK, RowIds, Made, Invitation
<1>1. ASSUME NEW p \in People, NEW r \in Nat, NEW at \in Steps \ (Counting \cup {"join", "letter"}),
             Goes(q, at, p, r), OnlyRequests
      PROVE  Post
  BY <1>1, GoesOnly
<1>2. ASSUME NEW r \in RowIds, NEW at \in {"join", "letter"}, r \in Made,
             Goes(q, at, invitation[r].to, r), OnlyRequests
      PROVE  Post
  BY <1>0, <1>2, GoesOnly DEF Steps, Counting
<1>3. ASSUME NEW p \in People, OpenTransfer(q, p) PROVE Post
  <2>1. PICK o \in Owners :
          request' = [request EXCEPT ![q] = [Idle EXCEPT !.at = "transfer", !.who = p, !.from = o]]
    BY <1>3 DEF OpenTransfer
  <2>2. o \in People /\ "transfer" \in Steps
    BY DEF Owners, Staff, Steps, MemberSteps
  <2>3. [Idle EXCEPT !.at = "transfer", !.who = p, !.from = o] \in Request
    BY <2>2, IdleType DEF Request
  <2> QED BY <1>3, <2>1, <2>3 DEF OpenTransfer, TypeOK, Idle, Counting
<1>4. ASSUME NEW p \in People, OpenInvite(q, p) PROVE Post
  BY <1>0, <1>1, <1>4 DEF OpenInvite, Steps, InviteSteps, Counting
<1>5. ASSUME NEW p \in People, OpenMemberCall(q, p) PROVE Post
  BY <1>0, <1>1, <1>5 DEF OpenMemberCall, Steps, MemberSteps, Counting
<1>6. ASSUME NEW p \in People, NEW at \in {"delete", "schedule"}, OpenDeletion(q, p, at) PROVE Post
  BY <1>0, <1>1, <1>6 DEF OpenDeletion, Steps, DeletionSteps, Counting
<1>7. ASSUME NEW d \in 1..MaxAsked, NEW at \in {"cancel", "withdraw"}, OpenCancel(q, d, at) PROVE Post
  BY <1>0, <1>1, <1>7 DEF OpenCancel, Steps, DeletionSteps, Counting
<1>8. ASSUME NEW r \in RowIds, OpenAccept(q, r) \/ OpenInvitationCall(q, r) PROVE Post
  BY <1>2, <1>8 DEF OpenAccept, OpenInvitationCall
<1> HIDE DEF Post
<1>9. Post
  BY <1>0, <1>3, <1>4, <1>5, <1>6, <1>7, <1>8 DEF Begins
<1> QED BY <1>9 DEF Post

LEMMA TransferWrites ==
  ASSUME TypeOK, NEW q \in Requests, Transfer(q)
  PROVE  /\ member' \in [People -> Membership]
         /\ \A p \in People : member'[p].status = member[p].status
<1> DEFINE m == [member EXCEPT ![request[q].from].role = "staff"]
<1>1. m \in [People -> Membership]
  BY RoleType DEF TypeOK, Request
<1>2. \A p \in People : m[p].status = member[p].status
  BY DEF TypeOK, Membership
<1>3. member' = [m EXCEPT ![request[q].who].role = "owner"] /\ request[q].who \in People
  BY DEF Transfer, Writes, TypeOK, Request
<1> HIDE DEF m
<1>4. member' \in [People -> Membership]
  BY <1>1, <1>3, RoleType
<1>5. \A p \in People : member'[p].status = m[p].status
  BY <1>1, <1>3 DEF Membership
<1> QED BY <1>2, <1>4, <1>5

LEMMA AllGetWrites ==
  ASSUME TypeOK, NEW people, NEW status \in {"active", "suspended"}
  PROVE  /\ AllGet(people, status) \in [People -> Membership]
         /\ \A p \in People : AllGet(people, status)[p].status \in {member[p].status, status}
         /\ \A p \in People : AllGet(people, status)[p].status = "active" =>
                                member[p].status = "active" \/
                                (status = "active" /\ member[p].status = "suspended")
BY DEF TypeOK, Membership, AllGet

MemberWrite(q) ==
  \/ Suspend(q) \/ Reactivate(q) \/ Remove(q) \/ Transfer(q)
  \/ Delete(q) \/ Schedule(q) \/ Restore(q) \/ Withdraw(q)

\* Whoever becomes active through a write of memberships goes by the quota.
LEMMA MemberWrites ==
  ASSUME TypeOK, NEW q \in Requests, MemberWrite(q)
  PROVE  /\ UNCHANGED invitations
         /\ member' \in [People -> Membership]
         /\ unchecked \subseteq unchecked' /\ unchecked' \subseteq People
         /\ asked' \in 0..MaxAsked /\ scheduled' \subseteq 1..asked'
         /\ \A p \in People : member'[p].status = "active" => member[p].status = "active" \/ p \in unchecked'
         /\ \A other \in Requests : request'[other] \in {request[other], Idle}
         /\ request' \in [Requests -> Request]
<1> DEFINE Post == /\ UNCHANGED invitations
                   /\ member' \in [People -> Membership]
                   /\ unchecked \subseteq unchecked' /\ unchecked' \subseteq People
                   /\ asked' \in 0..MaxAsked /\ scheduled' \subseteq 1..asked'
                   /\ \A p \in People : member'[p].status = "active" =>
                                          member[p].status = "active" \/ p \in unchecked'
                   /\ \A other \in Requests : request'[other] \in {request[other], Idle}
                   /\ request' \in [Requests -> Request]
<1>0. request[q].who \in People /\ request[q].from \in People
  BY DEF TypeOK, Request
<1>1. ASSUME Returns(q) PROVE /\ \A other \in Requests : request'[other] \in {request[other], Idle}
                              /\ request' \in [Requests -> Request]
  BY <1>1, ReturnsOnly
<1>2. CASE Suspend(q)
  BY <1>0, <1>1, <1>2 DEF Suspend, SetMember, Writes, TypeOK, Membership, deletions
<1>3. CASE Reactivate(q)
  BY <1>0, <1>1, <1>3 DEF Reactivate, SetMember, Writes, TypeOK, Membership, deletions, Staff
<1>4. CASE Remove(q)
  <2>1. /\ \A other \in Requests : request'[other] \in {request[other], Idle}
        /\ request' \in [Requests -> Request]
    BY <1>4, IdleType DEF Remove, TypeOK
  <2> QED BY <1>0, <1>4, <2>1 DEF Remove, Writes, TypeOK, Membership, NoMember, deletions
<1>5. CASE Transfer(q)
  BY <1>1, <1>5, TransferWrites DEF Transfer, Writes, TypeOK, deletions
<1>6. ASSUME Schedules(q) PROVE asked' \in 0..MaxAsked /\ scheduled' \subseteq 1..asked'
  BY <1>6, StaffAssumption DEF Schedules, TypeOK
<1>7. CASE Delete(q)
  <2>1. member' = AllGet(People \ {request[q].who}, "suspended")
    BY <1>7 DEF Delete, Writes
  <2>2. /\ member' \in [People -> Membership]
        /\ \A p \in People : member'[p].status = "active" => member[p].status = "active"
    BY <2>1, AllGetWrites
  <2> QED BY <1>1, <1>6, <1>7, <2>2 DEF Delete, Writes, Schedules, TypeOK
<1>8. CASE Schedule(q)
  BY <1>1, <1>6, <1>8 DEF Schedule, Writes, Schedules, TypeOK
<1>9. CASE Restore(q)
  <2>1. member' = AllGet(People, "active")
    BY <1>9 DEF Restore, Writes
  <2>2. /\ member' \in [People -> Membership]
        /\ \A p \in People : member'[p].status = "active" =>
                               member[p].status = "active" \/ member[p].status = "suspended"
    BY <2>1, AllGetWrites
  <2>3. unchecked' = unchecked \cup {p \in People : member[p].status = "suspended"}
    BY <1>9 DEF Restore, Writes
  <2> QED BY <1>1, <1>9, <2>2, <2>3 DEF Restore, Writes, TypeOK
<1>10. CASE Withdraw(q)
  BY <1>1, <1>10 DEF Withdraw, Writes, TypeOK
<1> HIDE DEF Post
<1>11. Post
  BY <1>2, <1>3, <1>4, <1>5, <1>7, <1>8, <1>9, <1>10 DEF MemberWrite, Post
<1> QED BY <1>11 DEF Post

\* The steps that neither begin a request nor write memberships or rows.
LEMMA ReadsOnly ==
  ASSUME TypeOK, NEW q \in Requests,
         ReadVersion(q) \/ ReadMembers(q) \/ CountRefuses(q) \/ Count(q) \/ ClaimConflicts(q) \/ Dies(q)
  PROVE  /\ OnlyRequests /\ request' \in [Requests -> Request]
         /\ request'[q].at \in {"idle", "count"} \cup Counting
         /\ \A other \in Requests \ {q} : request'[other] = request[other]
<1>0. /\ request \in [Requests -> Request] /\ request[q] \in Request /\ quotaVersion \in Nat
      /\ {"members", "invitations", "claim"} \subseteq Steps
  BY DEF TypeOK, Steps, InviteSteps
<1>1. CASE CountRefuses(q) \/ Dies(q)
  BY <1>1, ReturnsOnly DEF CountRefuses, Dies, Idle
<1>2. CASE ReadVersion(q)
  <2>1. [request[q] EXCEPT !.at = "members", !.version = quotaVersion] \in Request
    BY <1>0 DEF Request
  <2> QED BY <1>0, <1>2, <2>1, SMTT(20) DEF ReadVersion, Request, Counting
<1>3. CASE ReadMembers(q)
  <2>1. Cardinality(Staff) \in Nat
    BY StaffAssumption, FS_Subset, FS_CardinalityType DEF Staff
  <2>2. [request[q] EXCEPT !.at = "invitations", !.taken = Cardinality(Staff)] \in Request
    BY <1>0, <2>1 DEF Request
  <2> QED BY <1>0, <1>3, <2>2, SMTT(20) DEF ReadMembers, Request, Counting
<1>4. CASE Count(q)
  <2>1. [request[q] EXCEPT !.at = "claim", !.taken = 0] \in Request
    BY <1>0 DEF Request
  <2> QED BY <1>0, <1>4, <2>1, SMTT(20) DEF Count, Request, Counting
<1>5. CASE ClaimConflicts(q)
  <2>1. request[q] \in Request
    BY DEF TypeOK
  <2>2. CASE request[q].tries + 1 < MaxTries
    <3>0. /\ request[q].tries + 1 \in 0..(MaxTries - 1) /\ request[q].who \in People
          /\ "count" \in Steps
      BY <2>1, <2>2, StaffAssumption DEF Request, Steps, InviteSteps
    <3>1. CountsAgain(request[q]) \in Request
      BY <3>0, IdleType DEF CountsAgain, Request
    <3>2. request' = [request EXCEPT ![q] = CountsAgain(request[q])] /\ OnlyRequests
      BY <1>5, <2>2 DEF ClaimConflicts
    <3>3. CountsAgain(request[q]).at = "count"
      BY DEF CountsAgain, Idle
    <3> QED BY <3>1, <3>2, <3>3 DEF TypeOK
  <2>3. CASE ~(request[q].tries + 1 < MaxTries)
    BY <1>5, <2>3, ReturnsOnly DEF ClaimConflicts, Idle
  <2> QED BY <2>2, <2>3
<1> QED BY <1>1, <1>2, <1>3, <1>4, <1>5

\* What a join leaves of the other requests.
LEMMA JoinOnly ==
  ASSUME TypeOK, NEW q \in Requests, Join(q)
  PROVE  /\ request'[q] = Idle
         /\ \A other \in Requests \ {q} :
              /\ request'[other].at = request[other].at /\ request'[other].who = request[other].who
              /\ request'[other].row = request[other].row
              /\ request'[other].version = request[other].version
              /\ request'[other].taken = request[other].taken
              /\ request[other].missed \subseteq request'[other].missed
              /\ request[other].at = "invitations" => request[q].who \in request'[other].missed
         /\ request' \in [Requests -> Request]
<1>1. \A other \in Requests : request[other] \in Request
  BY DEF TypeOK
<1>2. /\ request'[q] = Idle
      /\ \A other \in Requests \ {q} : request'[other] = Misses(request[other], request[q].who)
      /\ request' = [other \in Requests |-> IF other = q THEN Idle ELSE Misses(request[other], request[q].who)]
  BY DEF Join
<1>3. \A call \in Request, p \in People :
        /\ Misses(call, p) \in Request
        /\ Misses(call, p).at = call.at /\ Misses(call, p).who = call.who
        /\ Misses(call, p).row = call.row /\ Misses(call, p).version = call.version
        /\ Misses(call, p).taken = call.taken
        /\ call.missed \subseteq Misses(call, p).missed
        /\ call.at = "invitations" => p \in Misses(call, p).missed
  BY DEF Misses, Request
<1>4. request[q].who \in People
  BY <1>1 DEF Request
<1> HIDE DEF Misses
<1> QED BY <1>1, <1>2, <1>3, <1>4, IdleType
-----------------------------------------------------------------------------
(* Type correctness. *)

LEMMA TypeInit == Init => TypeOK
<1> SUFFICES ASSUME Init PROVE TypeOK
  OBVIOUS
<1>1. member \in [People -> Membership]
  BY DEF Init, Membership, NoMember, ActiveOwner
<1>2. invitation \in [RowIds -> Invitation]
  BY StaffAssumption DEF Init, Invitation
<1>3. rows \in 0..MaxRows /\ quotaVersion \in Nat /\ asked \in 0..MaxAsked
  BY StaffAssumption DEF Init
<1> QED BY <1>1, <1>2, <1>3, IdleType DEF Init, TypeOK

LEMMA TypeStep == TypeOK /\ FindsItsRow /\ [Next]_vars => TypeOK'
<1> SUFFICES ASSUME TypeOK, FindsItsRow, [Next]_vars PROVE TypeOK'
  OBVIOUS
<1>1. ASSUME NEW q \in Requests, Begins(q) PROVE TypeOK'
  BY <1>1, BeginsOnly DEF OnlyRequests, invitations, deletions, TypeOK
<1>2. ASSUME NEW q \in Requests,
             ReadVersion(q) \/ ReadMembers(q) \/ CountRefuses(q) \/ Count(q) \/ ClaimConflicts(q) \/ Dies(q)
      PROVE  TypeOK'
  BY <1>2, ReadsOnly DEF OnlyRequests, invitations, deletions, TypeOK
<1>3. ASSUME NEW q \in Requests, Claim(q) PROVE TypeOK'
  <2>1. request[q].who \in People /\ request[q].missed \subseteq People
    BY DEF TypeOK, Request
  <2>2. invitation' \in [RowIds -> Invitation]
    BY <1>3, <2>1 DEF Claim, Invites, TypeOK, Invitation
  <2> QED BY <1>3, <2>1, <2>2, ReturnsOnly, StaffAssumption DEF Claim, Invites, TypeOK, deletions
<1>4. ASSUME NEW q \in Requests, Join(q) PROVE TypeOK'
  <2>1. request[q].who \in People
    BY DEF TypeOK, Request
  <2>2. member' \in [People -> Membership]
    BY <1>4, <2>1 DEF Join, TypeOK, Membership, ActiveStaff
  <2>3. invitation' \in [RowIds -> Invitation]
    BY <1>4 DEF Join, TypeOK, Invitation
  <2> QED BY <1>4, <2>1, <2>2, <2>3, JoinOnly DEF Join, TypeOK, deletions
<1>5. ASSUME NEW q \in Requests, MemberWrite(q) PROVE TypeOK'
  BY <1>5, MemberWrites DEF TypeOK, invitations
<1>6. ASSUME NEW q \in Requests, Resend(q) \/ Revoke(q) PROVE TypeOK'
  <2>1. request[q].at = "letter"
    BY <1>6 DEF Resend, Revoke
  <2>2. request[q].row \in RowIds
    BY <2>1, StaffAssumption DEF FindsItsRow, Made, RowIds, TypeOK
  <2>3. invitation' \in [RowIds -> Invitation] /\ unchecked' \subseteq People
    BY <1>6, <2>2 DEF Resend, Revoke, TypeOK, Invitation
  <2> QED BY <1>6, <2>3, ReturnsOnly DEF Resend, Revoke, TypeOK, deletions
<1>7. ASSUME NEW r \in RowIds, Lapse(r) PROVE TypeOK'
  BY <1>7 DEF Lapse, TypeOK, Invitation, deletions
<1>8. CASE Purge \/ \E d \in 1..MaxAsked : PurgeFails(d)
  <2>1. member' = member \/ member' = AllGet(People, "suspended")
    BY <1>8 DEF Purge, PurgeFails
  <2>2. member' \in [People -> Membership]
    BY <2>1, AllGetWrites DEF TypeOK
  <2> QED BY <1>8, <2>2 DEF Purge, PurgeFails, TypeOK, invitations
<1>9. CASE UNCHANGED vars
  BY <1>9 DEF vars, TypeOK
<1> QED BY <1>1, <1>2, <1>3, <1>4, <1>5, <1>6, <1>7, <1>8, <1>9 DEF Next, GoesOn, MemberWrite
-----------------------------------------------------------------------------
(* Requests find their rows. *)

LEMMA RowsKept ==
  ASSUME TypeOK, FindsItsRow, rows' \in 0..MaxRows, rows <= rows',
         \A r \in Made : invitation'[r].to = invitation[r].to,
         \A q \in Requests : \/ /\ request'[q].at = request[q].at /\ request'[q].row = request[q].row
                                /\ request'[q].who = request[q].who
                             \/ request'[q].at \notin {"join", "letter"}
  PROVE  FindsItsRow'
BY StaffAssumption DEF TypeOK, FindsItsRow, Made

LEMMA RowStep == TypeOK /\ FindsItsRow /\ [Next]_vars => FindsItsRow'
<1> SUFFICES ASSUME TypeOK, FindsItsRow, [Next]_vars PROVE FindsItsRow'
  OBVIOUS
<1>rows. rows \in 0..MaxRows /\ MaxRows \in Nat /\ rows <= rows
  BY StaffAssumption DEF TypeOK
<1>idle. Idle.at \notin {"join", "letter"}
  BY DEF Idle
<1>1. ASSUME NEW q \in Requests, Begins(q) PROVE FindsItsRow'
  BY <1>1, BeginsOnly DEF OnlyRequests, invitations, FindsItsRow, Made
<1>2. ASSUME NEW q \in Requests,
             ReadVersion(q) \/ ReadMembers(q) \/ CountRefuses(q) \/ Count(q) \/ ClaimConflicts(q) \/ Dies(q)
      PROVE  FindsItsRow'
  BY <1>2, <1>rows, ReadsOnly, RowsKept DEF OnlyRequests, invitations, Counting
<1>3. ASSUME NEW q \in Requests, Claim(q) PROVE FindsItsRow'
  <2>1. rows' \in 0..MaxRows /\ rows <= rows' /\ rows + 1 \notin Made
    BY <1>3, <1>rows DEF Claim, Invites, Made
  <2>2. \A r \in Made : invitation'[r].to = invitation[r].to
    BY <1>3, <2>1, <1>rows DEF Claim, Invites, TypeOK, Made, RowIds
  <2> QED BY <1>3, <2>1, <2>2, <1>idle, ReturnsOnly, RowsKept DEF Claim, Invites
<1>4. ASSUME NEW q \in Requests, Join(q) PROVE FindsItsRow'
  <2>1. \A r \in Made : invitation'[r].to = invitation[r].to
    BY <1>4, <1>rows DEF Join, TypeOK, Invitation, Made, RowIds
  <2> QED BY <1>4, <2>1, <1>rows, <1>idle, JoinOnly, RowsKept DEF Join
<1>5. ASSUME NEW q \in Requests, MemberWrite(q) PROVE FindsItsRow'
  BY <1>5, <1>rows, <1>idle, MemberWrites, RowsKept DEF invitations
<1>6. ASSUME NEW q \in Requests, Resend(q) \/ Revoke(q) PROVE FindsItsRow'
  <2>1. \A r \in Made : invitation'[r].to = invitation[r].to
    BY <1>6, <1>rows DEF Resend, Revoke, TypeOK, Invitation, Made, RowIds
  <2> QED BY <1>6, <2>1, <1>rows, <1>idle, ReturnsOnly, RowsKept DEF Resend, Revoke
<1>7. ASSUME NEW r \in RowIds, Lapse(r) PROVE FindsItsRow'
  <2>1. \A s \in Made : invitation'[s].to = invitation[s].to
    BY <1>7, <1>rows DEF Lapse, TypeOK, Invitation, Made, RowIds
  <2> QED BY <1>7, <2>1, <1>rows, RowsKept DEF Lapse
<1>8. CASE Purge \/ (\E d \in 1..MaxAsked : PurgeFails(d)) \/ UNCHANGED vars
  BY <1>8, <1>rows, RowsKept DEF Purge, PurgeFails, invitations, vars
<1> QED BY <1>1, <1>2, <1>3, <1>4, <1>5, <1>6, <1>7, <1>8 DEF Next, GoesOn, MemberWrite

-----------------------------------------------------------------------------
(* Seats. *)

LEMMA SeatedNow ==
  \A p : p \in Seated <=>
    /\ p \notin unchecked
    /\ \/ p \in People /\ member[p].status = "active"
       \/ \E r \in Made : invitation[r].status \in {"open", "reopened"} /\ invitation[r].to = p
BY DEF Seated, Staff, Pending, Open

LEMMA SeatedNext ==
  \A p : p \in Seated' <=>
    /\ p \notin unchecked'
    /\ \/ p \in People /\ member'[p].status = "active"
       \/ \E r \in Made' : invitation'[r].status \in {"open", "reopened"} /\ invitation'[r].to = p
BY DEF Seated, Staff, Pending, Open

LEMMA SeatedFinite ==
  ASSUME TypeOK
  PROVE  /\ IsFiniteSet(Staff) /\ IsFiniteSet(Pending) /\ IsFiniteSet(Seated)
         /\ Cardinality(Staff) \in Nat /\ Cardinality(Pending) \in Nat
         /\ Cardinality(Seated) \in Nat
<1>1. Staff \in SUBSET People /\ Pending \in SUBSET People
  <2>1. \A r \in Made : invitation[r].to \in People
    BY StaffAssumption DEF Made, TypeOK, RowIds, Invitation
  <2> QED BY <2>1 DEF Staff, Pending
<1>2. Seated \in SUBSET People
  BY <1>1 DEF Seated
<1> QED BY <1>1, <1>2, StaffAssumption, FS_Subset, FS_CardinalityType

LEMMA Fewer ==
  ASSUME NEW S, IsFiniteSet(S), NEW T, T \subseteq S
  PROVE  /\ IsFiniteSet(T) /\ Cardinality(T) \in Nat /\ Cardinality(S) \in Nat
         /\ Cardinality(T) <= Cardinality(S)
BY FS_Subset, FS_CardinalityType

\* A count goes on as it was, and may have missed more people.
Keeps(q) ==
  /\ request'[q].at = request[q].at /\ request'[q].who = request[q].who
  /\ request'[q].version = request[q].version /\ request'[q].taken = request[q].taken
  /\ request[q].missed \subseteq request'[q].missed

\* A step that leaves the version: whoever is seated was, or goes by the quota,
\* or was an open invitation's whose acceptance the counts under way have missed.
LEMMA SeatsKept ==
  ASSUME TypeOK, SeatInv, quotaVersion' = quotaVersion, Seated' \subseteq Seated,
         \A q \in Requests :
           \/ request'[q].at \notin Counting
           \/ CallInv(q)'
           \/ /\ Keeps(q)
              /\ request[q].at = "invitations" =>
                   Staff' \ (unchecked' \cup request'[q].missed)
                     \subseteq Staff \ (unchecked \cup request[q].missed)
  PROVE  SeatInv'
<1>1. SeatsWithinPlan'
  <2>1. /\ Cardinality(Seated') <= Cardinality(Seated)
        /\ Cardinality(Seated') \in Nat /\ Cardinality(Seated) \in Nat
    BY SeatedFinite, Fewer
  <2> QED BY <2>1, StaffAssumption DEF SeatInv, SeatsWithinPlan, Seated
<1>2. ASSUME NEW q \in Requests PROVE CallInv(q)'
  <2>1. CASE request'[q].at \notin Counting
    BY <2>1 DEF CallInv, VersionKnown, MembersCounted, RoomToClaim, Counting
  <2>2. CASE Keeps(q) /\ (request[q].at = "invitations" =>
                            Staff' \ (unchecked' \cup request'[q].missed)
                              \subseteq Staff \ (unchecked \cup request[q].missed))
    <3>1. CallInv(q)
      BY DEF SeatInv
    <3>2. VersionKnown(q)'
      BY <2>2, <3>1 DEF CallInv, VersionKnown, Keeps
    <3>3. MembersCounted(q)'
      <4> DEFINE S == Staff \ (unchecked \cup request[q].missed)
                 T == Staff' \ (unchecked' \cup request'[q].missed)
      <4> SUFFICES ASSUME request[q].at = "invitations", request[q].version = quotaVersion
                   PROVE  Cardinality(T) <= request[q].taken
        BY <2>2 DEF MembersCounted, Keeps
      <4>1. Cardinality(S) <= request[q].taken
        BY <3>1 DEF CallInv, MembersCounted
      <4>2. IsFiniteSet(S)
        BY SeatedFinite, Fewer
      <4>3. T \subseteq S
        BY <2>2
      <4>4. request[q].taken \in Nat
        BY DEF TypeOK, Request
      <4> HIDE DEF S, T
      <4> QED BY <4>1, <4>2, <4>3, <4>4, Fewer
    <3>4. RoomToClaim(q)'
      <4> DEFINE S == Seated \ request[q].missed
                 T == Seated' \ request'[q].missed
      <4> SUFFICES ASSUME request[q].at = "claim", request[q].version = quotaVersion
                   PROVE  Cardinality(T) < Seats
        BY <2>2 DEF RoomToClaim, Keeps
      <4>1. Cardinality(S) < Seats
        BY <3>1 DEF CallInv, RoomToClaim
      <4>2. IsFiniteSet(S)
        BY SeatedFinite, Fewer
      <4>3. T \subseteq S
        BY <2>2 DEF Keeps
      <4> HIDE DEF S, T
      <4> QED BY <4>1, <4>2, <4>3, StaffAssumption, Fewer
    <3> QED BY <3>2, <3>3, <3>4 DEF CallInv
  <2> QED BY <2>1, <2>2
<1> QED BY <1>1, <1>2 DEF SeatInv

\* Nothing is written, and one request goes on.
LEMMA SeatsSame ==
  ASSUME TypeOK, SeatInv, UNCHANGED <<member, invitation, rows, quotaVersion, unchecked>>,
         \A q \in Requests :
           \/ request'[q].at \notin Counting
           \/ CallInv(q)'
           \/ request'[q] = request[q]
  PROVE  SeatInv'
<1>1. Seated' = Seated /\ Staff' = Staff
  BY DEF Seated, Staff, Pending, Made, Open
<1>2. \A q \in Requests : request'[q] = request[q] => Keeps(q)
  BY DEF Keeps
<1> QED BY <1>1, <1>2, SeatsKept

LEMMA ReadSeats ==
  ASSUME TypeOK, SeatInv, NEW q \in Requests,
         Begins(q) \/ ReadVersion(q) \/ ReadMembers(q) \/ CountRefuses(q) \/ ClaimConflicts(q) \/ Dies(q)
  PROVE  SeatInv'
<1>1. OnlyRequests /\ \A other \in Requests \ {q} : request'[other] = request[other]
  BY BeginsOnly, ReadsOnly
<1>2. UNCHANGED <<member, invitation, rows, quotaVersion, unchecked>>
  BY <1>1 DEF OnlyRequests, invitations
<1>3. Staff' = Staff /\ quotaVersion' = quotaVersion /\ quotaVersion \in Nat /\ unchecked' = unchecked
  BY <1>2 DEF Staff, TypeOK
<1>4. CASE Begins(q)
  BY <1>1, <1>2, <1>4, BeginsOnly, SeatsSame
<1>5. CASE CountRefuses(q) \/ ClaimConflicts(q) \/ Dies(q)
  <2>1. request'[q].at \notin Counting
    <3>1. request'[q] = Idle \/ request'[q] = CountsAgain(request[q])
      BY <1>5, ReturnsOnly DEF CountRefuses, ClaimConflicts, Dies, TypeOK
    <3>2. Idle.at = "idle" /\ CountsAgain(request[q]).at = "count"
      BY DEF CountsAgain, Idle
    <3> QED BY <3>1, <3>2 DEF Counting
  <2> QED BY <1>1, <1>2, <2>1, SeatsSame
<1>6. CASE ReadVersion(q)
  <2>1. request'[q].at = "members" /\ request'[q].version = quotaVersion
    BY <1>6 DEF ReadVersion, TypeOK, Request
  <2>2. CallInv(q)'
    BY <1>3, <2>1 DEF CallInv, VersionKnown, MembersCounted, RoomToClaim
  <2> QED BY <1>1, <1>2, <2>2, SeatsSame
<1>7. CASE ReadMembers(q)
  <2>1. /\ request'[q].at = "invitations" /\ request'[q].version = request[q].version
        /\ request'[q].taken = Cardinality(Staff) /\ request[q].at = "members"
    BY <1>7 DEF ReadMembers, TypeOK, Request
  <2>2. Cardinality(Staff \ (unchecked \cup request'[q].missed)) <= Cardinality(Staff)
    BY SeatedFinite, Fewer
  <2>3. VersionKnown(q)
    BY DEF SeatInv, CallInv
  <2>4. CallInv(q)'
    BY <1>3, <2>1, <2>2, <2>3 DEF CallInv, VersionKnown, MembersCounted, RoomToClaim, Counting
  <2> QED BY <1>1, <1>2, <2>4, SeatsSame
<1> QED BY <1>4, <1>5, <1>6, <1>7

\* Of those who were there when the members were read and of those who are
\* invited now, all but the ones it has missed were counted.
LEMMA CountSeats ==
  ASSUME TypeOK, SeatInv, NEW q \in Requests, Count(q)
  PROVE  SeatInv'
<1> DEFINE S == Staff \ (unchecked \cup request[q].missed)
<1>1. /\ request[q].at = "invitations" /\ request'[q].at = "claim"
      /\ request'[q].version = request[q].version /\ request'[q].missed = request[q].missed
      /\ \A other \in Requests \ {q} : request'[other] = request[other]
  BY DEF Count, TypeOK, Request
<1>2. UNCHANGED <<member, invitation, rows, quotaVersion, unchecked>>
  BY DEF Count, OnlyRequests, invitations
<1>3. Seated' = Seated /\ quotaVersion' = quotaVersion
  BY <1>2 DEF Seated, Staff, Pending, Made, Open
<1>4. ASSUME request[q].version = quotaVersion
      PROVE  Cardinality(Seated \ request[q].missed) < Seats
  <2>1. Cardinality(S) <= request[q].taken
    BY <1>1, <1>4 DEF SeatInv, CallInv, MembersCounted
  <2>2. IsFiniteSet(S) /\ Cardinality(S) \in Nat /\ IsFiniteSet(Pending) /\ Cardinality(Pending) \in Nat
    BY SeatedFinite, Fewer
  <2>3. request[q].taken \in Nat /\ request[q].taken + Cardinality(Pending) < Seats
    BY <2>2, StaffAssumption DEF Count, Refuses, TypeOK, Request
  <2>4. Seated \ request[q].missed \subseteq S \cup Pending
    BY DEF Seated
  <2> HIDE DEF S
  <2>5. IsFiniteSet(S \cup Pending) /\ Cardinality(S \cup Pending) <= Cardinality(S) + Cardinality(Pending)
    <3>1. Cardinality(S \cap Pending) \in Nat
      BY <2>2, FS_Intersection, FS_CardinalityType
    <3>2. /\ IsFiniteSet(S \cup Pending)
          /\ Cardinality(S \cup Pending) = Cardinality(S) + Cardinality(Pending) - Cardinality(S \cap Pending)
      BY <2>2, FS_Union
    <3> QED BY <2>2, <3>1, <3>2
  <2>6. /\ Cardinality(Seated \ request[q].missed) <= Cardinality(S \cup Pending)
        /\ Cardinality(Seated \ request[q].missed) \in Nat /\ Cardinality(S \cup Pending) \in Nat
    BY <2>4, <2>5, Fewer
  <2> QED BY <2>1, <2>2, <2>3, <2>5, <2>6, StaffAssumption
<1>5. VersionKnown(q)
  BY DEF SeatInv, CallInv
<1>6. CallInv(q)'
  BY <1>1, <1>3, <1>4, <1>5 DEF CallInv, VersionKnown, MembersCounted, RoomToClaim, Counting
<1> QED BY <1>1, <1>2, <1>6, SeatsSame

\* A claim takes the last of its seats, and every other count is out of date.
LEMMA ClaimSeats ==
  ASSUME TypeOK, SeatInv, NEW q \in Requests, Claim(q)
  PROVE  SeatInv'
<1> DEFINE p == request[q].who
           S == Seated \ request[q].missed
<1>1. Seated' \subseteq S \cup {p}
  <2>1. /\ Made' = Made \cup {rows + 1} /\ rows + 1 \in RowIds /\ rows + 1 \notin Made
        /\ Made \subseteq RowIds
    BY StaffAssumption DEF Claim, Invites, TypeOK, Made, RowIds
  <2>2. /\ invitation'[rows + 1].to = p
        /\ \A r \in Made : invitation'[r] = invitation[r]
    BY <2>1 DEF Claim, Invites, TypeOK
  <2>3. member' = member /\ unchecked' = (unchecked \cup request[q].missed) \ {p}
    BY DEF Claim, Invites
  <2> QED BY <2>1, <2>2, <2>3, SeatedNow, SeatedNext
<1>2. Cardinality(S) < Seats
  BY DEF Claim, SeatInv, CallInv, RoomToClaim
<1>3. SeatsWithinPlan'
  <2>1. IsFiniteSet(S) /\ Cardinality(S) \in Nat
    BY SeatedFinite, Fewer
  <2> HIDE DEF S, p
  <2>2. /\ IsFiniteSet(S \cup {p})
        /\ Cardinality(S \cup {p}) <= Cardinality(S) + 1
        /\ Cardinality(S \cup {p}) \in Nat
    <3>1. /\ IsFiniteSet(S \cup {p})
          /\ Cardinality(S \cup {p}) = IF p \in S THEN Cardinality(S) ELSE Cardinality(S) + 1
      BY <2>1, FS_AddElement
    <3> QED BY <2>1, <3>1
  <2>3. Cardinality(Seated') <= Cardinality(S \cup {p}) /\ Cardinality(Seated') \in Nat
    BY <1>1, <2>2, Fewer
  <2>4. Cardinality(Seated') <= Seats
    BY <1>2, <2>1, <2>2, <2>3, StaffAssumption
  <2> QED BY <2>4 DEF SeatsWithinPlan, Seated
<1>4. ASSUME NEW other \in Requests PROVE CallInv(other)'
  <2>1. request'[other] = request[other] \/ request'[other].at = "idle"
    BY ReturnsOnly DEF Claim, Invites, Idle
  <2>2. /\ request[other].at \in Counting => request[other].version <= quotaVersion
        /\ quotaVersion \in Nat /\ quotaVersion' = quotaVersion + 1 /\ request[other].version \in Nat
    BY DEF SeatInv, CallInv, VersionKnown, Claim, TypeOK, Request
  <2> QED BY <2>1, <2>2 DEF CallInv, VersionKnown, MembersCounted, RoomToClaim, Counting
<1> QED BY <1>3, <1>4 DEF SeatInv

\* An acceptance turns an open invitation into a member, or goes by the quota.
LEMMA JoinSeats ==
  ASSUME TypeOK, FindsItsRow, SeatInv, NEW q \in Requests, Join(q)
  PROVE  SeatInv'
<1> DEFINE p == request[q].who
           r == request[q].row
<1>1. r \in Made /\ r \in RowIds /\ invitation[r].to = p
  BY StaffAssumption DEF Join, FindsItsRow, Made, TypeOK, RowIds
<1>2. p \in unchecked' \/ p \in Seated \/ p \in unchecked
  <2>1. Open(r) => p \in Pending
    BY <1>1 DEF Pending
  <2> QED BY <2>1 DEF Join, Seated
<1>3. \A x \in People : member'[x].status = "active" => x = p \/ member[x].status = "active"
  BY DEF Join, TypeOK
<1>4. \A s \in Made : /\ invitation'[s].to = invitation[s].to
                      /\ invitation'[s].status \in {invitation[s].status, "closed"}
  BY <1>1, StaffAssumption DEF Join, TypeOK, Invitation, Made, RowIds
<1>5. Made' = Made /\ unchecked \subseteq unchecked' /\ quotaVersion' = quotaVersion
  BY DEF Join, Made
<1>6. Seated' \subseteq Seated
  BY <1>2, <1>3, <1>4, <1>5, SeatedNow, SeatedNext
<1>7. ASSUME NEW other \in Requests
      PROVE  \/ request'[other].at \notin Counting
             \/ /\ Keeps(other)
                /\ request[other].at = "invitations" =>
                     Staff' \ (unchecked' \cup request'[other].missed)
                       \subseteq Staff \ (unchecked \cup request[other].missed)
  <2>1. CASE other = q
    BY <2>1, JoinOnly DEF Idle, Counting
  <2>2. CASE other # q
    <3>1. Keeps(other) /\ (request[other].at = "invitations" => p \in request'[other].missed)
      BY <2>2, JoinOnly DEF Keeps
    <3> QED BY <1>3, <1>5, <3>1 DEF Staff, Keeps
  <2> QED BY <2>1, <2>2
<1> HIDE DEF p, r
<1> QED BY <1>5, <1>6, <1>7, SeatsKept

\* Whatever else is written seats nobody but by the quota.
LEMMA OtherSeats ==
  ASSUME TypeOK, SeatInv, quotaVersion' = quotaVersion, Made' = Made, unchecked \subseteq unchecked',
         \A x \in People : member'[x].status = "active" => member[x].status = "active" \/ x \in unchecked',
         \A s \in Made : /\ invitation'[s].to = invitation[s].to
                         /\ invitation'[s].status = "reopened" => Open(s) \/ invitation[s].to \in unchecked'
                         /\ invitation'[s].status = "open" => invitation[s].status = "open",
         \A q \in Requests : request'[q] = request[q] \/ request'[q].at \notin Counting
  PROVE  SeatInv'
<1>1. Seated' \subseteq Seated
  BY SeatedNow, SeatedNext DEF Open
<1>2. Staff' \ unchecked' \subseteq Staff \ unchecked
  BY DEF Staff
<1>3. \A q \in Requests : request'[q] = request[q] => Keeps(q)
  BY DEF Keeps
<1> QED BY <1>1, <1>2, <1>3, SeatsKept

\* An invitation that is sent again or revoked is not one that is new.
LEMMA LetterWrites ==
  ASSUME TypeOK, FindsItsRow, NEW q \in Requests, Resend(q) \/ Revoke(q), NEW s \in Made
  PROVE  /\ invitation'[s].to = invitation[s].to
         /\ invitation'[s].status = "reopened" => Open(s) \/ invitation[s].to \in unchecked'
         /\ invitation'[s].status = "open" => invitation[s].status = "open"
<1> DEFINE r == request[q].row
<1>1. r \in RowIds /\ s \in RowIds
  BY StaffAssumption DEF Resend, Revoke, FindsItsRow, Made, TypeOK, RowIds
<1>2. invitation[s] \in Invitation /\ invitation[r] \in Invitation
  BY <1>1 DEF TypeOK
<1>3. \/ invitation' = invitation
      \/ invitation' = [invitation EXCEPT ![r].status = "closed"]
      \/ /\ invitation' = [invitation EXCEPT ![r].status = "reopened"]
         /\ invitation[r].to \in unchecked'
  BY DEF Resend, Revoke
<1> HIDE DEF r
<1> QED BY <1>1, <1>2, <1>3 DEF TypeOK, Invitation, Open

LEMMA IdleApart == Idle.at = "idle" /\ Idle.at \notin Counting
BY DEF Idle, Counting

LEMMA SeatStep == TypeOK /\ FindsItsRow /\ SeatInv /\ [Next]_vars => SeatInv'
<1> SUFFICES ASSUME TypeOK, FindsItsRow, SeatInv, [Next]_vars PROVE SeatInv'
  OBVIOUS
<1>1. ASSUME NEW q \in Requests, MemberWrite(q) PROVE SeatInv'
  <2>1. invitation' = invitation /\ Made' = Made /\ quotaVersion' = quotaVersion
    BY <1>1, MemberWrites DEF invitations, Made
  <2>2. \A x \in People : member'[x].status = "active" => member[x].status = "active" \/ x \in unchecked'
    BY <1>1, MemberWrites
  <2>4. \A s \in Made : /\ invitation'[s].to = invitation[s].to
                        /\ invitation'[s].status = "reopened" => Open(s) \/ invitation[s].to \in unchecked'
                        /\ invitation'[s].status = "open" => invitation[s].status = "open"
    BY <2>1 DEF Open
  <2>5. \A other \in Requests : request'[other] = request[other] \/ request'[other].at \notin Counting
    BY <1>1, MemberWrites, IdleApart
  <2> QED BY <1>1, <2>1, <2>2, <2>4, <2>5, MemberWrites, OtherSeats
<1>2. ASSUME NEW q \in Requests, Resend(q) \/ Revoke(q) PROVE SeatInv'
  <2>2. /\ member' = member /\ Made' = Made /\ quotaVersion' = quotaVersion
        /\ unchecked \subseteq unchecked' /\ Returns(q)
    BY <1>2 DEF Resend, Revoke, Made
  <2>3. \A s \in Made : /\ invitation'[s].to = invitation[s].to
                        /\ invitation'[s].status = "reopened" => Open(s) \/ invitation[s].to \in unchecked'
                        /\ invitation'[s].status = "open" => invitation[s].status = "open"
    BY <1>2, LetterWrites
  <2>4. \A other \in Requests : request'[other] = request[other] \/ request'[other].at \notin Counting
    BY <2>2, ReturnsOnly, IdleApart
  <2> QED BY <2>2, <2>3, <2>4, OtherSeats
<1>3. ASSUME NEW r \in RowIds, Lapse(r) PROVE SeatInv'
  <2>1. \A s \in Made : /\ invitation'[s].to = invitation[s].to
                        /\ invitation'[s].status = "reopened" => Open(s) \/ invitation[s].to \in unchecked'
                        /\ invitation'[s].status = "open" => invitation[s].status = "open"
    BY <1>3, StaffAssumption DEF Lapse, TypeOK, Invitation, Made, RowIds, Open
  <2>2. Made' = Made
    BY <1>3 DEF Lapse, Made
  <2> QED BY <1>3, <2>1, <2>2, OtherSeats DEF Lapse
<1>4. CASE Purge \/ (\E d \in 1..MaxAsked : PurgeFails(d)) \/ UNCHANGED vars
  <2>1. UNCHANGED <<invitation, rows, quotaVersion, unchecked, request>> /\ Made' = Made
    BY <1>4 DEF Purge, PurgeFails, invitations, vars, Made
  <2>2. member' = member \/ member' = AllGet(People, "suspended")
    BY <1>4 DEF Purge, PurgeFails, vars
  <2>3. \A x \in People : member'[x].status = "active" => member[x].status = "active"
    BY <2>2, AllGetWrites
  <2> QED BY <2>1, <2>3, OtherSeats DEF Open
<1> QED BY <1>1, <1>2, <1>3, <1>4, ReadSeats, CountSeats, ClaimSeats, JoinSeats
        DEF Next, GoesOn, MemberWrite

-----------------------------------------------------------------------------
(* One invitation for each person. *)

\* A step that leaves the version makes no invitation.
LEMMA FreshKept ==
  ASSUME FreshInv, quotaVersion' = quotaVersion, Made' = Made,
         \A r \in Made : /\ invitation'[r].to = invitation[r].to
                         /\ invitation'[r].status = "open" => invitation[r].status = "open",
         \A q \in Requests : request'[q].at # "claim" \/ Keeps(q) \/ FreshToClaim(q)'
  PROVE  FreshInv'
<1>1. OneInvitation'
  BY DEF FreshInv, OneInvitation
<1>2. ASSUME NEW q \in Requests PROVE FreshToClaim(q)'
  BY DEF FreshInv, FreshToClaim, Keeps
<1> QED BY <1>1, <1>2 DEF FreshInv

LEMMA CountFresh ==
  ASSUME TypeOK, FreshInv, NEW q \in Requests, Count(q)
  PROVE  FreshInv'
<1>1. /\ request'[q].who = request[q].who
      /\ \A other \in Requests \ {q} : request'[other] = request[other]
  BY DEF Count, TypeOK, Request
<1>2. UNCHANGED <<invitation, rows, quotaVersion>> /\ Made' = Made
  BY DEF Count, OnlyRequests, invitations, Made
<1>3. \A r \in Made : invitation[r].status = "open" => invitation[r].to # request[q].who
  BY DEF Count, Refuses, Pending, Open
<1>4. FreshToClaim(q)'
  BY <1>1, <1>2, <1>3 DEF FreshToClaim
<1>5. \A other \in Requests \ {q} : Keeps(other)
  BY <1>1 DEF Keeps
<1> QED BY <1>2, <1>4, <1>5, FreshKept

LEMMA ClaimFresh ==
  ASSUME TypeOK, SeatInv, FreshInv, NEW q \in Requests, Claim(q)
  PROVE  FreshInv'
<1>1. /\ Made' = Made \cup {rows + 1} /\ rows + 1 \in RowIds /\ rows + 1 \notin Made
      /\ Made \subseteq RowIds
  BY StaffAssumption DEF Claim, Invites, TypeOK, Made, RowIds
<1>2. /\ invitation'[rows + 1].to = request[q].who
      /\ \A r \in Made : invitation'[r] = invitation[r]
  BY <1>1 DEF Claim, Invites, TypeOK
<1>3. \A r \in Made : invitation[r].status = "open" => invitation[r].to # request[q].who
  BY DEF Claim, FreshInv, FreshToClaim
<1>4. OneInvitation'
  BY <1>1, <1>2, <1>3 DEF OneInvitation, FreshInv
<1>5. ASSUME NEW other \in Requests PROVE FreshToClaim(other)'
  <2>1. request'[other] = request[other] \/ request'[other].at = "idle"
    BY ReturnsOnly, IdleApart DEF Claim, Invites
  <2>2. /\ request[other].at \in Counting => request[other].version <= quotaVersion
        /\ quotaVersion \in Nat /\ quotaVersion' = quotaVersion + 1 /\ request[other].version \in Nat
    BY DEF SeatInv, CallInv, VersionKnown, Claim, TypeOK, Request
  <2> QED BY <2>1, <2>2 DEF FreshToClaim, Counting
<1> QED BY <1>4, <1>5 DEF FreshInv

LEMMA FreshStep == TypeOK /\ FindsItsRow /\ SeatInv /\ FreshInv /\ [Next]_vars => FreshInv'
<1> SUFFICES ASSUME TypeOK, FindsItsRow, SeatInv, FreshInv, [Next]_vars PROVE FreshInv'
  OBVIOUS
<1>same. \A q \in Requests : request'[q] = request[q] => Keeps(q)
  BY DEF Keeps
<1>idle. Idle.at # "claim"
  BY DEF Idle
<1>1. ASSUME NEW q \in Requests,
             Begins(q) \/ ReadVersion(q) \/ ReadMembers(q) \/ CountRefuses(q) \/ ClaimConflicts(q) \/ Dies(q)
      PROVE  FreshInv'
  <2>1. OnlyRequests /\ \A other \in Requests \ {q} : request'[other] = request[other]
    BY <1>1, BeginsOnly, ReadsOnly
  <2>2. request'[q].at # "claim"
    <3>1. CASE Begins(q)
      BY <3>1, BeginsOnly DEF Counting
    <3>2. CASE ReadVersion(q) \/ ReadMembers(q)
      BY <3>2 DEF ReadVersion, ReadMembers, TypeOK, Request
    <3>3. CASE CountRefuses(q) \/ ClaimConflicts(q) \/ Dies(q)
      <4>1. request'[q] = Idle \/ request'[q] = CountsAgain(request[q])
        BY <3>3, ReturnsOnly DEF CountRefuses, ClaimConflicts, Dies, TypeOK
      <4>2. CountsAgain(request[q]).at = "count"
        BY DEF CountsAgain, Idle
      <4> QED BY <1>idle, <4>1, <4>2
    <3> QED BY <1>1, <3>1, <3>2, <3>3
  <2>3. UNCHANGED <<invitation, rows, quotaVersion>> /\ Made' = Made
    BY <2>1 DEF OnlyRequests, invitations, Made
  <2> QED BY <2>1, <2>2, <2>3, <1>same, FreshKept
<1>2. ASSUME NEW q \in Requests, Join(q) PROVE FreshInv'
  <2>1. request[q].row \in Made /\ request[q].row \in RowIds
    BY <1>2, StaffAssumption DEF Join, FindsItsRow, Made, TypeOK, RowIds
  <2>2. \A s \in Made : /\ invitation'[s].to = invitation[s].to
                        /\ invitation'[s].status = "open" => invitation[s].status = "open"
    BY <1>2, <2>1, StaffAssumption DEF Join, TypeOK, Invitation, Made, RowIds
  <2>3. \A other \in Requests : request'[other].at # "claim" \/ Keeps(other)
    BY <1>2, <1>idle, JoinOnly DEF Keeps
  <2>4. Made' = Made /\ quotaVersion' = quotaVersion
    BY <1>2 DEF Join, Made
  <2> QED BY <2>2, <2>3, <2>4, FreshKept
<1>3. ASSUME NEW q \in Requests, MemberWrite(q) PROVE FreshInv'
  <2>1. UNCHANGED <<invitation, quotaVersion>> /\ Made' = Made
    BY <1>3, MemberWrites DEF invitations, Made
  <2>2. \A other \in Requests : request'[other].at # "claim" \/ Keeps(other)
    BY <1>3, <1>same, <1>idle, MemberWrites
  <2> QED BY <2>1, <2>2, FreshKept
<1>4. ASSUME NEW q \in Requests, Resend(q) \/ Revoke(q) PROVE FreshInv'
  <2>2. \A s \in Made : /\ invitation'[s].to = invitation[s].to
                        /\ invitation'[s].status = "open" => invitation[s].status = "open"
    BY <1>4, LetterWrites
  <2>3. Made' = Made /\ quotaVersion' = quotaVersion /\ Returns(q)
    BY <1>4 DEF Resend, Revoke, Made
  <2>4. \A other \in Requests : request'[other].at # "claim" \/ Keeps(other)
    BY <2>3, <1>same, <1>idle, ReturnsOnly
  <2> QED BY <2>2, <2>3, <2>4, FreshKept
<1>5. ASSUME NEW r \in RowIds, Lapse(r) PROVE FreshInv'
  <2>1. \A s \in Made : /\ invitation'[s].to = invitation[s].to
                        /\ invitation'[s].status = "open" => invitation[s].status = "open"
    BY <1>5, StaffAssumption DEF Lapse, TypeOK, Invitation, Made, RowIds
  <2> QED BY <1>5, <2>1, <1>same, FreshKept DEF Lapse, Made
<1>6. CASE Purge \/ (\E d \in 1..MaxAsked : PurgeFails(d)) \/ UNCHANGED vars
  BY <1>6, <1>same, FreshKept DEF Purge, PurgeFails, invitations, vars, Made
<1> QED BY <1>1, <1>2, <1>3, <1>4, <1>5, <1>6, CountFresh, ClaimFresh DEF Next, GoesOn, MemberWrite

-----------------------------------------------------------------------------
(* The theorems. *)

LEMMA InitHolds == Init => IInv
<1> SUFFICES ASSUME Init PROVE IInv
  OBVIOUS
<1>1. TypeOK
  BY TypeInit
<1>2. \A q \in Requests : request[q].at = "idle"
  BY DEF Init, Idle
<1>3. FindsItsRow /\ \A q \in Requests : CallInv(q) /\ FreshToClaim(q)
  BY <1>2 DEF FindsItsRow, CallInv, VersionKnown, MembersCounted, RoomToClaim, FreshToClaim, Counting
<1>4. Made = {}
  BY DEF Init, Made
<1>5. Seated = {Founder}
  <2>1. Staff = {Founder}
    BY StaffAssumption DEF Init, Staff, ActiveOwner, NoMember
  <2> QED BY <1>4, <2>1 DEF Init, Seated, Pending
<1>6. SeatsWithinPlan
  BY <1>5, StaffAssumption, FS_Singleton DEF SeatsWithinPlan, Seated
<1> QED BY <1>1, <1>3, <1>4, <1>6 DEF IInv, SeatInv, FreshInv, OneInvitation

LEMMA StepHolds == IInv /\ [Next]_vars => IInv'
  BY TypeStep, RowStep, SeatStep, FreshStep DEF IInv

LEMMA Invariance == Spec => []IInv
  BY InitHolds, StepHolds, PTL DEF Spec

\* Every variable keeps its type; a request that answers an invitation never
\* has the number of a row that was not made.
THEOREM TypeCorrect == Spec => []TypeOK
<1>1. IInv => TypeOK
  BY DEF IInv
<1> QED BY <1>1, Invariance, PTL

\* However many invitations race, whatever lapses, is revoked, joins or leaves
\* between the reads of a count and its claim: members and open invitations stay
\* within the plan, but for those whose seat no count has seen.
THEOREM SeatsAreKept == Spec => []SeatsWithinPlan
<1>1. IInv => SeatsWithinPlan
  BY DEF IInv, SeatInv
<1> QED BY <1>1, Invariance, PTL

\* However many invitations of the same person race, one open invitation is all
\* that comes of them.
THEOREM InvitationsAreSingle == Spec => []OneInvitation
<1>1. IInv => OneInvitation
  BY DEF IInv, FreshInv
<1> QED BY <1>1, Invariance, PTL
=============================================================================
