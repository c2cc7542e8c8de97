--------------------------- MODULE RefreshTokens ---------------------------
(***************************************************************************)
(* Rotation of refresh tokens.  The same protocol is written three times:  *)
(* for the staff of a tenant, for customers and for platform users.  A     *)
(* login starts a family; a refresh revokes the token it was called with   *)
(* and issues the next one of the family; a revoked token that is used     *)
(* again ends the family.                                                  *)
(*                                                                         *)
(* Staff and customers rotate in one transaction that succeeds only while  *)
(* the token is live.  Platform users rotate in three statements that look *)
(* at the token once, so requests that race are told apart by a history    *)
(* variable.                                                               *)
(***************************************************************************)
EXTENDS Naturals, FiniteSets

CONSTANTS Families, \* families of tokens, one login each
          Ids,      \* identifiers of tokens
          Requests, \* refresh requests the servers handle at the same time
          None

ASSUME NoneAssumption == None \notin Ids /\ None \notin Families

VARIABLES
  service,   \* the service a family belongs to
  active,    \* families whose membership is active
  family,    \* the family of a token, None when the identifier is unused
  state,     \* the token: live, revoked or deleted
  from,      \* the token a token was issued for, None after a login
  expired,   \* tokens past their term
  req,       \* the refresh requests
  ended,     \* history: families all of whose tokens were revoked
  reused,    \* history: families a request was told of reuse in
  used,      \* history: tokens a request has found
  excused,   \* history: tokens found again, taken away by a logout or the end of
             \* the sessions, or that the database failed to rotate
  raced      \* history: families in which a request overlapped another
             \* request or the end of the family

token   == <<family, state, from, expired>>
history == <<ended, reused, used, excused, raced>>
vars    == <<service, active, token, req, history>>

Services == {"staff", "customer", "platform"}
Idle     == [pc |-> "idle", token |-> None, member |-> FALSE]

Init ==
  /\ service \in [Families -> Services]
  /\ active    = Families
  /\ family    = [k \in Ids |-> None]
  /\ state     = [k \in Ids |-> "unused"]
  /\ from      = [k \in Ids |-> None]
  /\ expired   = {}
  /\ req       = [r \in Requests |-> Idle]
  /\ ended     = {}
  /\ reused    = {}
  /\ used      = {}
  /\ excused   = {}
  /\ raced     = {}

TokensOf(f)   == {k \in Ids : family[k] = f}
LiveOf(f)     == {k \in TokensOf(f) : state[k] = "live"}
Handling(f)   == {r \in Requests : req[r].token # None /\ family[req[r].token] = f}
At(r, pc)     == req[r].pc = pc
Goto(r, pc)   == req' = [req EXCEPT ![r].pc = pc]
Done(r)       == req' = [req EXCEPT ![r] = Idle]

(* Rows the service creates and revokes. *)
(* Mutant: a row is written over. *)
CreateInPlace(k, f, parent) ==
  /\ family' = [family EXCEPT ![k] = f]
  /\ from'   = [from EXCEPT ![k] = parent]

Create(k, f, parent) ==
  /\ family[k] = None
  /\ family' = [family EXCEPT ![k] = f]
  /\ from'   = [from EXCEPT ![k] = parent]

RevokeAll(f) ==
  /\ state' = [k \in Ids |-> IF k \in LiveOf(f) THEN "revoked" ELSE state[k]]
  /\ ended' = ended \cup {f}

-----------------------------------------------------------------------------
Login(f, k) ==
  /\ TokensOf(f) = {} /\ f \in active
  /\ Create(k, f, None)
  /\ state' = [state EXCEPT ![k] = "live"]
  /\ UNCHANGED <<service, active, expired, req, history>>

(* The request reads the row of its token.  A token that is unknown or past *)
(* its term is refused without any effect; the platform looks at the term   *)
(* first, the other services at the revocation.                             *)
Refusal(k) == k \in expired /\ (service[family[k]] = "platform" \/ state[k] = "live")

(* Mutant: a token is not refused because it is revoked. *)
NextStepUnchecked(k) == IF service[family[k]] = "platform" THEN "member" ELSE "rotate"

NextStep(k) == IF state[k] = "revoked" THEN "end_family"
               ELSE IF service[family[k]] = "platform" THEN "member" ELSE "rotate"

Present(r, k) ==
  /\ At(r, "idle")
  /\ state[k] \in {"live", "revoked"} /\ ~Refusal(k)
  /\ req'   = [req EXCEPT ![r] = [pc |-> NextStep(k), token |-> k, member |-> FALSE]]
  /\ used'  = used \cup {k}
  /\ excused' = excused \cup ({k} \cap used)
  /\ raced' = IF Handling(family[k]) = {} THEN raced ELSE raced \cup {family[k]}
  /\ UNCHANGED <<service, active, token, ended, reused>>

(* revokeFamily, and the answer that the token was used before.  What the  *)
(* alarm itself revokes excuses no alarm.                                  *)
EndFamily(r) ==
  /\ At(r, "end_family")
  /\ LET f == family[req[r].token] IN
       /\ RevokeAll(f)
       /\ reused' = reused \cup {f}
       /\ raced'  = IF Handling(f) = {r} THEN raced ELSE raced \cup {f}
  /\ Done(r)
  /\ UNCHANGED <<service, active, family, from, expired, used, excused>>

(* rotateRefreshToken: one transaction that re-checks the row. *)
(* Mutant: the transaction looks the row up by its identifier only. *)
RotatableIfKept(k) == state[k] # "deleted"

Rotatable(k) == state[k] = "live"

(* Mutant: the family is revoked after the next token was written. *)
RotatedLate(old, k) == [j \in Ids |-> IF j = k \/ family[j] = family[old] THEN "revoked" ELSE state[j]]

Rotated(old, k) == [state EXCEPT ![old] = "revoked", ![k] = "live"]

Rotate(r, k) ==
  /\ At(r, "rotate")
  /\ LET old == req[r].token IN
       /\ Rotatable(old)
       /\ Create(k, family[old], old)
       /\ state' = Rotated(old, k)
  /\ Done(r)
  /\ UNCHANGED <<service, active, expired, history>>

(* The transaction fails, because the token was rotated or revoked or      *)
(* because the database did, or because the row was deleted at the end of  *)
(* its term; the caller does not tell these apart.  A customer's family is *)
(* revoked, a staff member is only told.                                   *)
(* Mutant: nobody's family is revoked. *)
EndsForNobody(s) == s = "nobody"

EndsOnConflict(s) == s = "customer"

RotateFails(r) ==
  /\ At(r, "rotate")
  /\ LET old == req[r].token
         f   == family[old] IN
       /\ excused' = IF state[old] # "revoked" THEN excused \cup {old} ELSE excused
       /\ IF EndsOnConflict(service[f])
          THEN Goto(r, "end_family") /\ UNCHANGED reused
          ELSE Done(r) /\ reused' = reused \cup {f}
  /\ UNCHANGED <<service, active, token, ended, used, raced>>

(* The platform's refresh: read the membership, revoke the token by its    *)
(* identifier, and issue the next one if the membership that was read is   *)
(* active.                                                                 *)
ReadMember(r) ==
  /\ At(r, "member")
  /\ LET k == req[r].token IN
       req' = [req EXCEPT ![r] = [pc |-> "revoke", token |-> k, member |-> family[k] \in active]]
  /\ UNCHANGED <<service, active, token, history>>

RevokeCurrent(r) ==
  /\ At(r, "revoke")
  /\ LET old == req[r].token IN
       IF state[old] = "deleted"
       THEN Done(r) /\ UNCHANGED state
       ELSE Goto(r, "issue") /\ state' = [state EXCEPT ![old] = "revoked"]
  /\ UNCHANGED <<service, active, family, from, expired, history>>

Issue(r, k) ==
  /\ At(r, "issue") /\ req[r].member
  /\ Create(k, family[req[r].token], req[r].token)
  /\ state' = [state EXCEPT ![k] = "live"]
  /\ Done(r)
  /\ UNCHANGED <<service, active, expired, history>>

IssueRefused(r) ==
  /\ At(r, "issue") /\ ~req[r].member
  /\ Done(r)
  /\ UNCHANGED <<service, active, token, history>>

(* The process stops, or a statement outside a try block fails. *)
Die(r) ==
  /\ ~At(r, "idle")
  /\ Done(r)
  /\ UNCHANGED <<service, active, token, history>>

-----------------------------------------------------------------------------
(* logout, with any token the client still has. *)
Logout(k) ==
  /\ state[k] = "live"
  /\ state'     = [state EXCEPT ![k] = "revoked"]
  /\ excused'   = excused \cup {k}
  /\ UNCHANGED <<service, active, family, from, expired, req, ended, reused, used, raced>>

(* revokeUser and its platform counterparts: a logout everywhere, a reset  *)
(* or a change of the account ends every session; a platform membership    *)
(* that is suspended is also switched off.                                 *)
EndSessions(f) ==
  /\ TokensOf(f) # {}
  /\ RevokeAll(f)
  /\ excused' = excused \cup LiveOf(f)
  /\ active' \in IF service[f] = "platform" THEN {active, active \ {f}} ELSE {active}
  /\ raced'  = IF Handling(f) = {} THEN raced ELSE raced \cup {f}
  /\ UNCHANGED <<service, family, from, expired, req, reused, used>>

Expire(k) ==
  /\ state[k] \in {"live", "revoked"} /\ k \notin expired
  /\ expired' = expired \cup {k}
  /\ UNCHANGED <<service, active, family, state, from, req, history>>

(* The maintenance job deletes the rows of staff and customers, the          *)
(* lifecycle job those of the platform a week later.                       *)
DeleteExpired ==
  /\ expired # {}
  /\ state' = [k \in Ids |-> IF k \in expired /\ service[family[k]] # "platform" THEN "deleted" ELSE state[k]]
  /\ UNCHANGED <<service, active, family, from, expired, req, history>>

DeletePlatform(k) ==
  /\ k \in expired /\ service[family[k]] = "platform" /\ state[k] # "deleted"
  /\ state' = [state EXCEPT ![k] = "deleted"]
  /\ UNCHANGED <<service, active, family, from, expired, req, history>>

Next ==
  \/ \E r \in Requests, k \in Ids : Present(r, k) \/ Rotate(r, k) \/ Issue(r, k)
  \/ \E r \in Requests : \/ EndFamily(r) \/ RotateFails(r) \/ ReadMember(r)
                         \/ RevokeCurrent(r) \/ IssueRefused(r) \/ Die(r)
  \/ \E f \in Families, k \in Ids : Login(f, k)
  \/ \E f \in Families : EndSessions(f)
  \/ \E k \in Ids : Logout(k) \/ Expire(k) \/ DeletePlatform(k)
  \/ DeleteExpired

Spec == Init /\ [][Next]_vars

-----------------------------------------------------------------------------
(* Properties. *)

(* Every token that is in use has a family and every successor is of the   *)
(* family of its predecessor; a request that is being handled has found a  *)
(* token, and only the platform's requests go through its statements.      *)
TypeOK ==
  /\ service \in [Families -> Services]
  /\ active \subseteq Families
  /\ family \in [Ids -> Families \cup {None}]
  /\ state \in [Ids -> {"unused", "live", "revoked", "deleted"}]
  /\ from \in [Ids -> Ids \cup {None}]
  /\ expired \subseteq Ids
  /\ req \in [Requests -> [pc : {"idle", "rotate", "end_family", "member", "revoke", "issue"},
                           token : Ids \cup {None}, member : BOOLEAN]]
  /\ ended \subseteq Families /\ reused \subseteq Families /\ raced \subseteq Families
  /\ used \subseteq Ids /\ excused \subseteq Ids
  /\ \A k \in Ids : family[k] = None <=> state[k] = "unused"
  /\ \A k \in expired : family[k] # None
  /\ \A k \in Ids : from[k] # None => from[k] # k /\ family[k] # None /\ family[from[k]] = family[k]
  /\ \A r \in Requests : req[r].pc = "idle" <=> req[r].token = None
  /\ \A r \in Requests : req[r].token # None => family[req[r].token] # None
  /\ \A r \in Requests :
       /\ req[r].pc \in {"member", "revoke", "issue"} => service[family[req[r].token]] = "platform"
       /\ req[r].pc = "rotate" => service[family[req[r].token]] # "platform"

(* A family in which the code keeps its promises: any of staff and         *)
(* customers, whose rotation re-checks the token, and on the platform one  *)
(* whose requests did not overlap.                                         *)
Sequential(f) == service[f] # "platform" \/ f \notin raced

(* However many requests present the same or older tokens at once, at most *)
(* one token of a family is live and no token is replaced twice            *)
(* (authRepository.ts 44-52, authService.ts 92-131, customerAuthService.ts *)
(* 260-290).                                                               *)
RotationChain ==
  \A f \in Families : Sequential(f) =>
    \A j, k \in TokensOf(f) :
      /\ state[j] = "live" /\ state[k] = "live" => j = k
      /\ from[j] = from[k] => j = k

(* Once all tokens of a family were revoked, because of reuse or by the    *)
(* end of the user's sessions, no refresh that was already under way       *)
(* brings the family back.                                                 *)
EndedForGood == \A f \in ended : Sequential(f) => LiveOf(f) = {}

(* A customer or a platform user is told of reuse only after the tokens of *)
(* the family were revoked, also when the reuse shows as a lost rotation   *)
(* (customerAuthService.ts 286-291).                                       *)
ReuseEndsFamily == \A f \in reused : service[f] # "staff" => f \in ended

(* A client that never presents a token twice is never told of reuse,      *)
(* unless a logout or the end of its sessions took the token away, or the  *)
(* database failed its rotation or had deleted the row: neither rotation   *)
(* itself, nor a request that dies half way, nor what an alarm revokes is  *)
(* a reason for an alarm (authService.ts 95-98, 118-122).                  *)
NoFalseAlarm ==
  \A f \in reused : \E k \in TokensOf(f) : k \in excused

(* Refuted: a token that was exchanged twice ends its family; docs/         *)
(* commercial-saas.md:43 says "the family is revoked on reuse".  The        *)
(* platform's refresh looks at the token only before its first await       *)
(* (platformAuthService.ts 236-259).                                       *)
ReuseRevokesFamily ==
  \A j, k \in Ids : j # k /\ from[j] = from[k] /\ from[j] # None => family[j] \in ended
=============================================================================
