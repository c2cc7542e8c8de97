------------------------ MODULE RefreshTokensProofs ------------------------
(***************************************************************************)
(* Proofs about RefreshTokens, for any numbers of families, tokens and     *)
(* concurrent requests.                                                    *)
(***************************************************************************)
EXTENDS RefreshTokens, TLAPS

Platform == {"member", "revoke", "issue"}

(* A live token was not replaced. *)
Forward ==
  \A f \in Families : Sequential(f) =>
    \A j \in TokensOf(f) : state[j] = "live" => \A k \in Ids : from[k] # j

(* Only families with tokens are ended. *)
EndedKnown == \A f \in ended : TokensOf(f) # {}

(* Two requests in one family overlap. *)
Alone ==
  \A q, r \in Requests :
    /\ req[q].token # None /\ req[r].token # None
    /\ family[req[q].token] = family[req[r].token]
    /\ family[req[q].token] \notin raced
    => q = r

(* A platform refresh that nothing overlaps holds the family's last token. *)
InHandOf(r) ==
  LET t == req[r].token
      f == family[t] IN
  req[r].pc \in Platform /\ f \notin raced =>
    /\ f \notin ended
    /\ \A k \in Ids : from[k] # t
    /\ \A k \in TokensOf(f) : state[k] = "live" => k = t /\ req[r].pc # "issue"

InHand == \A r \in Requests : InHandOf(r)

(* The part of the invariant that is about tokens alone. *)
Chains == RotationChain /\ Forward /\ EndedForGood /\ EndedKnown

ChainInv == Chains /\ Alone /\ InHand

(* There is a reason for an alarm in a family. *)
Blamed(f) == \E k \in Ids : family[k] = f /\ k \in excused

(* What is revoked was presented, or there is such a reason in its family. *)
Explained ==
  \A k \in Ids : state[k] = "revoked" => k \in used \/ Blamed(family[k])

(* Two requests hold one token only if it was found again; a rotation that *)
(* is going to fail, or a family about to end, has such a reason.          *)
Held ==
  \A r \in Requests : req[r].token # None =>
    /\ req[r].token \in used
    /\ \A q \in Requests \ {r} : req[q].token = req[r].token => req[r].token \in excused
    /\ req[r].pc = "rotate" /\ state[req[r].token] = "revoked" => Blamed(family[req[r].token])
    /\ req[r].pc = "end_family" => Blamed(family[req[r].token])

AlarmInv == NoFalseAlarm /\ Explained /\ Held
-----------------------------------------------------------------------------
(* Type correctness. *)

LEMMA InitType == Init => TypeOK
  BY NoneAssumption DEF Init, TypeOK, Services, Idle

RequestType == [pc : {"idle", "rotate", "end_family", "member", "revoke", "issue"},
                token : Ids \cup {None}, member : BOOLEAN]

RequestsOK ==
  /\ req \in [Requests -> RequestType]
  /\ \A q \in Requests : req[q].pc = "idle" <=> req[q].token = None
  /\ \A q \in Requests : req[q].token # None => family[req[q].token] # None
  /\ \A q \in Requests :
       /\ req[q].pc \in {"member", "revoke", "issue"} => service[family[req[q].token]] = "platform"
       /\ req[q].pc = "rotate" => service[family[req[q].token]] # "platform"

(* A request that ends, or goes on to another statement with its token. *)
LEMMA RequestStep ==
  ASSUME RequestsOK, NEW r \in Requests, NEW x \in RequestType,
         req' = [req EXCEPT ![r] = x], UNCHANGED <<service, family>>,
         x = Idle \/ (x.token = req[r].token /\ x.token # None /\ x.pc # "idle"),
         x.pc \in {"member", "revoke", "issue"} => service[family[x.token]] = "platform",
         x.pc # "rotate"
  PROVE  RequestsOK'
<1>1. \A q \in Requests : req'[q] = IF q = r THEN x ELSE req[q]
  BY DEF RequestsOK
<1>2. req' \in [Requests -> RequestType]
  BY DEF RequestsOK, RequestType
<1>3. QED
  BY <1>1, <1>2 DEF RequestsOK, Idle

LEMMA RequestEnds ==
  ASSUME RequestsOK, NEW r \in Requests, req' = [req EXCEPT ![r] = Idle], UNCHANGED <<service, family>>
  PROVE  RequestsOK'
  BY DEF RequestsOK, RequestType, Idle

LEMMA TypeStep ==
  ASSUME TypeOK, [Next]_vars
  PROVE  TypeOK'
<1>0. RequestsOK
  BY DEF TypeOK, RequestsOK, RequestType
<1> USE NoneAssumption DEF TypeOK, Services, Idle, At, Done, token, history
<1>1. ASSUME NEW r \in Requests, NEW k \in Ids, Present(r, k) PROVE TypeOK'
  BY <1>1 DEF Present, NextStep, Refusal
<1>2. ASSUME NEW r \in Requests, NEW k \in Ids, Rotate(r, k) PROVE TypeOK'
  BY <1>2 DEF Rotate, Rotatable, Rotated, Create
<1>3. ASSUME NEW r \in Requests, NEW k \in Ids, Issue(r, k) PROVE TypeOK'
  BY <1>3 DEF Issue, Create
<1>4. ASSUME NEW r \in Requests, EndFamily(r) PROVE TypeOK'
  BY <1>4 DEF EndFamily, RevokeAll, LiveOf, TokensOf
<1>5. ASSUME NEW r \in Requests, RotateFails(r) PROVE TypeOK'
  <2> DEFINE x == [pc |-> "end_family", token |-> req[r].token, member |-> req[r].member]
  <2>1. req' = [req EXCEPT ![r] = x] \/ req' = [req EXCEPT ![r] = Idle]
    BY <1>5 DEF RotateFails, Goto
  <2>2. /\ req[r].token \in Ids
        /\ UNCHANGED <<service, active, family, from, state, expired, ended, used, raced>>
    BY <1>5 DEF RotateFails
  <2>3. family[req[r].token] \in Families
    BY <2>2
  <2>4. excused' \subseteq Ids /\ reused' \subseteq Families
    BY <1>5, <2>2, <2>3 DEF RotateFails
  <2>5. x \in RequestType /\ Idle \in RequestType
    BY DEF RequestType
  <2>6. x.pc = "end_family" /\ x.token = req[r].token /\ x.token # None /\ Idle.pc = "idle"
    BY <2>2
  <2>7. RequestsOK'
    <3> HIDE DEF x, Idle, TypeOK
    <3>1. CASE req' = [req EXCEPT ![r] = x]
      BY <1>0, <2>2, <2>5, <2>6, <3>1, RequestStep
    <3>2. CASE req' = [req EXCEPT ![r] = Idle]
      BY <1>0, <2>2, <3>2, RequestEnds
    <3>3. QED
      BY <2>1, <3>1, <3>2
  <2>8. QED
    BY <2>2, <2>4, <2>7 DEF RequestsOK, RequestType
<1>6. ASSUME NEW r \in Requests, ReadMember(r) PROVE TypeOK'
  <2> DEFINE m == family[req[r].token] \in active
             x == [pc |-> "revoke", token |-> req[r].token, member |-> m]
  <2>1. m \in BOOLEAN
    OBVIOUS
  <2>2. req[r].pc = "member" /\ req' = [req EXCEPT ![r] = x]
    BY <1>6 DEF ReadMember
  <2>3. UNCHANGED <<service, active, token, history>>
    BY <1>6 DEF ReadMember
  <2> HIDE DEF m
  <2>4. x \in RequestType /\ x.pc # "rotate"
    BY <2>1 DEF RequestType
  <2>5. req[r].token # None /\ service[family[req[r].token]] = "platform"
    BY <2>2
  <2>6. x.token = req[r].token /\ x.pc = "revoke"
    OBVIOUS
  <2>7. RequestsOK'
    <3> HIDE DEF x, Idle, TypeOK
    <3>1. QED
      BY <1>0, <2>2, <2>3, <2>4, <2>5, <2>6, RequestStep
  <2>8. QED
    BY <2>3, <2>7 DEF RequestsOK, RequestType
<1>7. ASSUME NEW r \in Requests, RevokeCurrent(r) PROVE TypeOK'
  <2> DEFINE x == [pc |-> "issue", token |-> req[r].token, member |-> req[r].member]
  <2>1. req' = [req EXCEPT ![r] = x] \/ req' = [req EXCEPT ![r] = Idle]
    BY <1>7 DEF RevokeCurrent, Goto
  <2>2. /\ req[r].pc = "revoke" /\ req[r].token \in Ids
        /\ UNCHANGED <<service, active, family, from, expired, history>>
    BY <1>7 DEF RevokeCurrent
  <2>3. state' = state \/ state' = [state EXCEPT ![req[r].token] = "revoked"]
    BY <1>7 DEF RevokeCurrent
  <2>4. x \in RequestType /\ Idle \in RequestType
    BY DEF RequestType
  <2>5. family[req[r].token] # None /\ service[family[req[r].token]] = "platform"
    BY <2>2
  <2>6. /\ state' \in [Ids -> {"unused", "live", "revoked", "deleted"}]
        /\ \A k \in Ids : family'[k] = None <=> state'[k] = "unused"
    BY <2>2, <2>3, <2>5
  <2>7. x.pc = "issue" /\ x.token = req[r].token /\ x.token # None /\ Idle.pc = "idle"
    BY <2>2
  <2>8. RequestsOK'
    <3> HIDE DEF x, Idle, TypeOK
    <3>1. CASE req' = [req EXCEPT ![r] = x]
      BY <1>0, <2>2, <2>4, <2>5, <2>7, <3>1, RequestStep
    <3>2. CASE req' = [req EXCEPT ![r] = Idle]
      BY <1>0, <2>2, <3>2, RequestEnds
    <3>3. QED
      BY <2>1, <3>1, <3>2
  <2>9. QED
    BY <2>2, <2>6, <2>8 DEF RequestsOK, RequestType
<1>8. ASSUME NEW r \in Requests, IssueRefused(r) PROVE TypeOK'
  BY <1>8 DEF IssueRefused
<1>9. ASSUME NEW r \in Requests, Die(r) PROVE TypeOK'
  BY <1>9 DEF Die
<1>10. ASSUME NEW f \in Families, NEW k \in Ids, Login(f, k) PROVE TypeOK'
  BY <1>10 DEF Login, Create
<1>11. ASSUME NEW f \in Families, EndSessions(f) PROVE TypeOK'
  BY <1>11 DEF EndSessions, RevokeAll, LiveOf, TokensOf
<1>12. ASSUME NEW k \in Ids, Logout(k) PROVE TypeOK'
  BY <1>12 DEF Logout
<1>13. ASSUME NEW k \in Ids, Expire(k) PROVE TypeOK'
  BY <1>13 DEF Expire
<1>14. ASSUME DeleteExpired PROVE TypeOK'
  BY <1>14 DEF DeleteExpired
<1>15. ASSUME NEW k \in Ids, DeletePlatform(k) PROVE TypeOK'
  BY <1>15 DEF DeletePlatform
<1>16. CASE UNCHANGED vars
  BY <1>16 DEF vars
<1>17. QED
  BY <1>1, <1>2, <1>3, <1>4, <1>5, <1>6, <1>7, <1>8, <1>9, <1>10, <1>11, <1>12, <1>13, <1>14, <1>15, <1>16 DEF Next

(* Every reachable state is well typed: tokens in use have a family, a      *)
(* successor shares the family of its predecessor, and a request is in the  *)
(* statements of its token's service. *)
THEOREM TypeCorrect == Spec => []TypeOK
<1>1. Init => TypeOK
  BY InitType
<1>2. TypeOK /\ [Next]_vars => TypeOK'
  BY TypeStep
<1>3. QED
  BY <1>1, <1>2, PTL DEF Spec

-----------------------------------------------------------------------------
(* Rotation.  Steps that issue no token, and steps that do. *)

LEMMA ChainsKept ==
  ASSUME TypeOK, Chains, UNCHANGED <<service, family, from>>, raced \subseteq raced',
         \A k \in Ids : state'[k] = "live" => state[k] = "live",
         \A f \in ended' \ ended : TokensOf(f) # {} /\ \A k \in TokensOf(f) : state'[k] # "live"
  PROVE  Chains'
<1>1. \A f : TokensOf(f)' = TokensOf(f)
  BY DEF TokensOf
<1>2. \A f : Sequential(f)' => Sequential(f)
  BY DEF Sequential
<1>3. RotationChain' /\ Forward'
  <2> SUFFICES ASSUME NEW f \in Families, Sequential(f)
               PROVE  \A j, k \in TokensOf(f) :
                        /\ state'[j] = "live" /\ state'[k] = "live" => j = k
                        /\ from[j] = from[k] => j = k
                        /\ state'[j] = "live" => \A i \in Ids : from[i] # j
    BY <1>1, <1>2 DEF RotationChain, Forward
  <2>1. QED
    BY DEF Chains, RotationChain, Forward, TokensOf
<1>4. EndedForGood'
  <2> SUFFICES ASSUME NEW f \in ended', Sequential(f), NEW k \in TokensOf(f), state'[k] = "live"
               PROVE  FALSE
    BY <1>1, <1>2 DEF EndedForGood, LiveOf
  <2>1. f \in ended /\ state[k] = "live"
    BY DEF TokensOf
  <2>2. QED
    BY <2>1 DEF Chains, EndedForGood, LiveOf
<1>5. EndedKnown'
  BY <1>1 DEF Chains, EndedKnown
<1>6. QED
  BY <1>3, <1>4, <1>5 DEF Chains

LEMMA ChainsGrow ==
  ASSUME TypeOK, Chains, NEW f \in Families, NEW k \in Ids, NEW p \in TokensOf(f) \cup {None},
         UNCHANGED <<service, raced, ended>>, Create(k, f, p),
         \A j \in Ids \ {k} : state'[j] = "live" => state[j] = "live",
         p = None => TokensOf(f) = {},
         Sequential(f) => /\ f \notin ended
                          /\ \A j \in Ids : from[j] # p \/ j \notin TokensOf(f)
                          /\ \A j \in TokensOf(f) : state'[j] # "live"
  PROVE  Chains'
<1> USE NoneAssumption
<1>1. /\ k \notin TokensOf(f)
      /\ \A g \in Families : TokensOf(g)' = IF g = f THEN TokensOf(f) \cup {k} ELSE TokensOf(g)
      /\ \A j \in Ids : from'[j] = IF j = k THEN p ELSE from[j]
  BY DEF Create, TokensOf, TypeOK
<1>2. \A g : Sequential(g)' <=> Sequential(g)
  BY DEF Sequential
<1>3. \A j \in Ids : from[j] # k
  BY DEF TypeOK, Create
<1>4. p # k
  BY DEF Create, TokensOf
<1>5. RotationChain'
  <2> SUFFICES ASSUME NEW g \in Families, Sequential(g), NEW i \in TokensOf(g)', NEW j \in TokensOf(g)'
               PROVE  /\ state'[i] = "live" /\ state'[j] = "live" => i = j
                      /\ from'[i] = from'[j] => i = j
    BY <1>2 DEF RotationChain
  <2>1. CASE g = f
    BY <2>1, <1>1 DEF Chains, RotationChain, TokensOf
  <2>2. CASE g # f
    BY <2>2, <1>1 DEF Chains, RotationChain, TokensOf, Create
  <2>3. QED
    BY <2>1, <2>2
<1>6. Forward'
  <2> SUFFICES ASSUME NEW g \in Families, Sequential(g), NEW j \in TokensOf(g)', state'[j] = "live",
                      NEW i \in Ids
               PROVE  from'[i] # j
    BY <1>2 DEF Forward
  <2>1. CASE j = k
    BY <2>1, <1>1, <1>3, <1>4
  <2>2. CASE j # k
    <3>1. j \in TokensOf(g) /\ state[j] = "live"
      BY <2>2, <1>1 DEF TokensOf
    <3>2. from[i] # j
      BY <3>1 DEF Chains, Forward
    <3>3. j # p
      BY <3>1 DEF TokensOf
    <3>4. QED
      BY <3>2, <3>3, <1>1
  <2>3. QED
    BY <2>1, <2>2
<1>7. EndedForGood'
  BY <1>1, <1>2 DEF Chains, EndedForGood, LiveOf, TokensOf, TypeOK
<1>8. EndedKnown'
  BY <1>1 DEF Chains, EndedKnown, TypeOK
<1>9. QED
  BY <1>5, <1>6, <1>7, <1>8 DEF Chains

LEMMA AloneKept ==
  ASSUME TypeOK, Alone, raced \subseteq raced',
         \A q \in Requests : req'[q].token \in {req[q].token, None},
         \A k \in Ids : family[k] # None => family'[k] = family[k]
  PROVE  Alone'
  BY DEF TypeOK, Alone

LEMMA InHandKept ==
  ASSUME TypeOK, NEW q \in Requests, InHandOf(q), req'[q] = req[q], raced \subseteq raced',
         \A k \in Ids : family[k] # None => family'[k] = family[k],
         \A k \in Ids : req[q].token # None /\ family'[k] = family[req[q].token] =>
                        family[k] = family'[k] /\ (state'[k] = "live" => state[k] = "live"),
         \A k \in Ids : from'[k] = from[k] \/ from'[k] # req[q].token,
         req[q].token # None /\ family[req[q].token] \in ended' \ ended => family[req[q].token] \in raced'
  PROVE  InHandOf(q)'
<1>1. SUFFICES ASSUME req'[q].pc \in Platform, family'[req'[q].token] \notin raced'
               PROVE  InHandOf(q)'
  BY DEF InHandOf
<1>2. req[q].token \in Ids /\ family[req[q].token] # None
  BY <1>1 DEF TypeOK, Platform
<1>3. family'[req'[q].token] = family[req[q].token]
  BY <1>2
<1> DEFINE t == req[q].token
           f == family[t]
<1>4. /\ f \notin ended
      /\ \A k \in Ids : from[k] # t
      /\ \A k \in TokensOf(f) : state[k] = "live" => k = t /\ req[q].pc # "issue"
  BY <1>1, <1>3 DEF InHandOf
<1>5. f \notin raced' /\ f \notin ended'
  <2>1. f \notin raced'
    BY <1>1, <1>3
  <2>2. f \notin ended' \ ended
    BY <2>1, <1>2, NoneAssumption
  <2>3. QED
    BY <2>1, <2>2, <1>4
<1>6. \A k \in Ids : from'[k] # t
  BY <1>4
<1>7. \A k \in Ids : family'[k] = f /\ state'[k] = "live" => k = t /\ req[q].pc # "issue"
  <2>1. t # None
    BY <1>2, NoneAssumption
  <2>2. \A k \in Ids : family'[k] = f => k \in TokensOf(f) /\ (state'[k] = "live" => state[k] = "live")
    BY <2>1 DEF TokensOf
  <2>3. QED
    BY <2>2, <1>4
<1>8. QED
  BY <1>3, <1>5, <1>6, <1>7 DEF InHandOf, TokensOf
LEMMA PresentChain ==
  ASSUME TypeOK, TypeOK', ChainInv, NEW r \in Requests, NEW k \in Ids, Present(r, k)
  PROVE  ChainInv'
<1> DEFINE f == family[k]
<1> USE NoneAssumption
<1>1. /\ UNCHANGED <<service, active, family, from, state, expired, ended>>
      /\ raced' = IF Handling(f) = {} THEN raced ELSE raced \cup {f}
      /\ raced \subseteq raced'
      /\ req' = [req EXCEPT ![r] = [pc |-> NextStep(k), token |-> k, member |-> FALSE]]
      /\ state[k] \in {"live", "revoked"} /\ req[r].pc = "idle"
  BY DEF Present, At, token, history
<1>2. f \in Families /\ k \in TokensOf(f)
  BY <1>1 DEF TypeOK, TokensOf
<1>3. \A q \in Requests \ {r} : req'[q] = req[q]
  BY <1>1 DEF TypeOK
<1>4. req'[r].token = k /\ req'[r].pc = NextStep(k)
  BY <1>1 DEF TypeOK
<1>5. Chains'
  BY <1>1, ended' \ ended = {}, ChainsKept DEF ChainInv
<1>6. Alone'
  <2> SUFFICES ASSUME NEW q \in Requests, NEW p \in Requests,
                      req'[q].token # None, req'[p].token # None,
                      family[req'[q].token] = family[req'[p].token],
                      family[req'[q].token] \notin raced', q # p
               PROVE  FALSE
    BY <1>1 DEF Alone
  <2>1. CASE q # r /\ p # r
    BY <2>1, <1>1, <1>3 DEF ChainInv, Alone
  <2>2. CASE q = r \/ p = r
    BY <2>2, <1>1, <1>3, <1>4 DEF Handling
  <2>3. QED
    BY <2>1, <2>2
<1>7. ASSUME NEW q \in Requests PROVE InHandOf(q)'
  <2>1. CASE q # r
    BY <2>1, <1>1, <1>3, InHandKept DEF ChainInv, InHand
  <2>2. CASE q = r
    <3> SUFFICES ASSUME NextStep(k) \in Platform, f \notin raced'
                 PROVE  /\ f \notin ended
                        /\ \A j \in Ids : from[j] # k
                        /\ \A j \in TokensOf(f) : state[j] = "live" => j = k /\ NextStep(k) # "issue"
      BY <2>2, <1>1, <1>4 DEF InHandOf, TokensOf
    <3>1. state[k] = "live" /\ NextStep(k) = "member"
      BY <1>1 DEF NextStep, Platform
    <3>2. Sequential(f)
      BY <1>1 DEF Sequential
    <3>3. QED
      BY <1>2, <3>1, <3>2 DEF ChainInv, Chains, RotationChain, Forward, EndedForGood, LiveOf
  <2>3. QED
    BY <2>1, <2>2
<1>8. QED
  BY <1>5, <1>6, <1>7 DEF ChainInv, InHand

(* Requests that end, or stop being a platform refresh. *)
LEMMA InHandEnds ==
  ASSUME TypeOK, NEW r \in Requests, InHand, req' = [req EXCEPT ![r] = req'[r]],
         req'[r].pc \notin Platform, UNCHANGED <<service, family, from>>, raced \subseteq raced',
         \A k \in Ids : state'[k] = "live" => state[k] = "live",
         \A f \in ended' \ ended : Handling(f) \subseteq {r} \/ f \in raced'
  PROVE  InHand'
<1>1. ASSUME NEW q \in Requests PROVE InHandOf(q)'
  <2>1. CASE q = r
    BY <2>1 DEF InHandOf
  <2>2. CASE q # r
    <3>1. req'[q] = req[q]
      BY <2>2 DEF TypeOK
    <3>2. req[q].token # None => q \in Handling(family[req[q].token])
      BY DEF Handling
    <3>3. QED
      BY <2>2, <3>1, <3>2, InHandKept DEF InHand
  <2>3. QED
    BY <2>1, <2>2
<1>2. QED
  BY <1>1 DEF InHand

LEMMA EndFamilyChain ==
  ASSUME TypeOK, TypeOK', ChainInv, NEW r \in Requests, EndFamily(r)
  PROVE  ChainInv'
<1> DEFINE f == family[req[r].token]
<1> USE NoneAssumption
<1>1. /\ UNCHANGED <<service, family, from>>
      /\ state' = [k \in Ids |-> IF k \in LiveOf(f) THEN "revoked" ELSE state[k]]
      /\ ended' = ended \cup {f}
      /\ raced' = IF Handling(f) = {r} THEN raced ELSE raced \cup {f}
      /\ req' = [req EXCEPT ![r] = Idle]
      /\ req[r].pc = "end_family"
  BY DEF EndFamily, RevokeAll, At, Done
<1>2. req[r].token \in TokensOf(f) /\ f \in Families
  BY <1>1 DEF TypeOK, TokensOf
<1>3. /\ \A k \in TokensOf(f) : state'[k] # "live"
      /\ \A k \in Ids : state'[k] = "live" => state[k] = "live"
  BY <1>1 DEF LiveOf, TokensOf
<1>4. req'[r] = Idle /\ \A q \in Requests \ {r} : req'[q] = req[q]
  BY <1>1 DEF TypeOK
<1>5. raced \subseteq raced' /\ \A g \in ended' \ ended : Handling(g) \subseteq {r} \/ g \in raced'
  BY <1>1
<1>6. Chains'
  BY <1>1, <1>2, <1>3, <1>5, ChainsKept DEF ChainInv
<1>7. Alone'
  BY <1>1, <1>4, <1>5, AloneKept DEF ChainInv, Idle
<1>8. InHand'
  <2>1. req'[r].pc \notin Platform /\ req' = [req EXCEPT ![r] = req'[r]]
    BY <1>1, <1>4 DEF Idle, Platform, TypeOK
  <2>2. QED
    BY <1>1, <1>3, <1>5, <2>1, InHandEnds DEF ChainInv
<1>9. QED
  BY <1>6, <1>7, <1>8 DEF ChainInv
(* A request that only ends, or goes on to revoke the family. *)
LEMMA EndChain ==
  ASSUME TypeOK, ChainInv, NEW r \in Requests, UNCHANGED <<service, family, from, state, ended, raced>>,
         req' = [req EXCEPT ![r] = Idle] \/ req' = [req EXCEPT ![r].pc = "end_family"]
  PROVE  ChainInv'
<1>1. /\ req'[r].pc \notin Platform /\ req'[r].token \in {req[r].token, None}
      /\ req' = [req EXCEPT ![r] = req'[r]]
      /\ \A q \in Requests \ {r} : req'[q] = req[q]
  BY DEF Idle, Platform, TypeOK
<1>2. ended' \ ended = {} /\ raced \subseteq raced'
  OBVIOUS
<1>3. Chains'
  BY <1>2, ChainsKept DEF ChainInv
<1>4. Alone'
  BY <1>1, <1>2, AloneKept DEF ChainInv
<1>5. InHand'
  BY <1>1, <1>2, InHandEnds DEF ChainInv
<1>6. QED
  BY <1>3, <1>4, <1>5 DEF ChainInv

(* A platform refresh goes on to its next statement. *)
LEMMA PlatformChain ==
  ASSUME TypeOK, ChainInv, NEW r \in Requests, NEW x \in RequestType, req[r].pc \in Platform,
         req' = [req EXCEPT ![r] = x], x.token = req[r].token, x.pc \in Platform,
         UNCHANGED <<service, family, from, ended, raced>>,
         \A k \in Ids : state'[k] = "live" => state[k] = "live",
         x.pc = "issue" => state'[x.token] # "live"
  PROVE  ChainInv'
<1>1. req'[r] = x /\ \A q \in Requests \ {r} : req'[q] = req[q]
  BY DEF TypeOK
<1>2. ended' \ ended = {} /\ raced \subseteq raced'
  OBVIOUS
<1>3. Chains'
  BY <1>2, ChainsKept DEF ChainInv
<1>4. Alone'
  BY <1>1, <1>2, AloneKept DEF ChainInv
<1>5. ASSUME NEW q \in Requests PROVE InHandOf(q)'
  <2>1. CASE q # r
    BY <2>1, <1>1, <1>2, InHandKept DEF ChainInv, InHand
  <2>2. CASE q = r
    BY <2>2, <1>1 DEF ChainInv, InHand, InHandOf, TokensOf
  <2>3. QED
    BY <2>1, <2>2
<1>6. QED
  BY <1>3, <1>4, <1>5 DEF ChainInv, InHand

(* The tokens change and no request does: some are taken away. *)
LEMMA TakenChain ==
  ASSUME TypeOK, ChainInv, UNCHANGED <<service, family, from, req>>, raced \subseteq raced',
         \A k \in Ids : state'[k] = "live" => state[k] = "live",
         \A f \in ended' \ ended : /\ TokensOf(f) # {} /\ \A k \in TokensOf(f) : state'[k] # "live"
                                   /\ Handling(f) = {} \/ f \in raced'
  PROVE  ChainInv'
<1>1. Chains'
  BY ChainsKept DEF ChainInv
<1>2. Alone'
  BY AloneKept DEF ChainInv
<1>3. ASSUME NEW q \in Requests PROVE InHandOf(q)'
  <2>1. req[q].token # None => q \in Handling(family[req[q].token])
    BY DEF Handling
  <2>2. QED
    BY <2>1, InHandKept DEF ChainInv, InHand
<1>4. QED
  BY <1>1, <1>2, <1>3 DEF ChainInv, InHand
(* A token is issued: by nobody who holds the family's last one, or by its *)
(* holder, whose request ends. *)
LEMMA IssueChain ==
  ASSUME TypeOK, ChainInv, NEW f \in Families, NEW k \in Ids, NEW p \in TokensOf(f) \cup {None},
         UNCHANGED <<service, ended, raced>>, Create(k, f, p),
         \A j \in Ids \ {k} : state'[j] = "live" => state[j] = "live",
         p = None => TokensOf(f) = {},
         Sequential(f) => /\ f \notin ended
                          /\ \A j \in Ids : from[j] # p \/ j \notin TokensOf(f)
                          /\ \A j \in TokensOf(f) : state'[j] # "live",
         \A q \in Requests : \/ req'[q] = Idle
                             \/ req'[q] = req[q] /\ (\/ req[q].token = None
                                                     \/ family[req[q].token] # f
                                                     \/ f \in raced
                                                     \/ service[f] # "platform")
  PROVE  ChainInv'
<1> USE NoneAssumption
<1>1. /\ family[k] = None /\ ended' \ ended = {} /\ raced \subseteq raced'
      /\ \A j \in Ids : family[j] # None => family'[j] = family[j]
      /\ \A j \in Ids : family'[j] = IF j = k THEN f ELSE family[j]
      /\ \A j \in Ids : from'[j] = IF j = k THEN p ELSE from[j]
  BY DEF Create, TypeOK
<1>2. Chains'
  BY ChainsGrow DEF ChainInv
<1>3. Alone'
  BY <1>1, AloneKept DEF ChainInv, Idle
<1>4. ASSUME NEW q \in Requests PROVE InHandOf(q)'
  <2>1. CASE req'[q] = Idle
    BY <2>1 DEF InHandOf, Idle, Platform
  <2>2. CASE req'[q] = req[q] /\ req[q].token = None
    BY <2>2 DEF InHandOf, Platform, TypeOK
  <2>3. CASE req'[q] = req[q] /\ req[q].token # None /\ family[req[q].token] # f
    <3>1. req[q].token # p
      BY <2>3 DEF TokensOf
    <3>2. \A j \in Ids : family'[j] = family[req[q].token] =>
                        family[j] = family'[j] /\ (state'[j] = "live" => state[j] = "live")
      BY <2>3, <1>1
    <3>3. QED
      BY <2>3, <3>1, <3>2, <1>1, InHandKept DEF ChainInv, InHand
  <2>4. CASE /\ req'[q] = req[q] /\ req[q].token # None /\ family[req[q].token] = f
             /\ f \in raced \/ service[f] # "platform"
    <3>1. family'[req'[q].token] = f
      BY <2>4, <1>1 DEF TypeOK
    <3>2. f \in raced' \/ req'[q].pc \notin Platform
      BY <2>4, <1>1 DEF TypeOK, Platform
    <3>3. QED
      BY <3>1, <3>2 DEF InHandOf
  <2>5. QED
    BY <2>1, <2>2, <2>3, <2>4
<1>5. QED
  BY <1>2, <1>3, <1>4 DEF ChainInv, InHand

LEMMA LoginChain ==
  ASSUME TypeOK, ChainInv, NEW f \in Families, NEW k \in Ids, Login(f, k)
  PROVE  ChainInv'
<1>1. /\ TokensOf(f) = {} /\ Create(k, f, None)
      /\ state' = [state EXCEPT ![k] = "live"]
      /\ UNCHANGED <<service, ended, raced, req>>
  BY DEF Login, history
<1>2. \A q \in Requests : req[q].token = None \/ family[req[q].token] # f
  BY <1>1 DEF TokensOf, TypeOK
<1>3. f \notin ended
  BY <1>1 DEF ChainInv, Chains, EndedKnown
<1>4. \A j \in Ids \ {k} : state'[j] = "live" => state[j] = "live"
  BY <1>1 DEF TypeOK
<1>5. QED
  BY <1>1, <1>2, <1>3, <1>4, IssueChain

LEMMA RotateChain ==
  ASSUME TypeOK, ChainInv, NEW r \in Requests, NEW k \in Ids, Rotate(r, k)
  PROVE  ChainInv'
<1> DEFINE old == req[r].token
           f   == family[old]
<1> USE NoneAssumption
<1>1. /\ req[r].pc = "rotate" /\ state[old] = "live" /\ Create(k, f, old)
      /\ state' = [state EXCEPT ![old] = "revoked", ![k] = "live"]
      /\ req' = [req EXCEPT ![r] = Idle]
      /\ UNCHANGED <<service, ended, raced>>
  BY DEF Rotate, At, Rotatable, Rotated, Done, history
<1>2. old \in TokensOf(f) /\ f \in Families /\ service[f] # "platform" /\ old # k
  BY <1>1 DEF TypeOK, TokensOf, Create
<1>3. Sequential(f)
  BY <1>2 DEF Sequential
<1>4. /\ f \notin ended
      /\ \A j \in Ids : from[j] # old
      /\ \A j \in TokensOf(f) : state[j] = "live" => j = old
  BY <1>1, <1>2, <1>3 DEF ChainInv, Chains, RotationChain, Forward, EndedForGood, LiveOf
<1>5. /\ \A j \in Ids \ {k} : state'[j] = "live" => state[j] = "live"
      /\ \A j \in TokensOf(f) : state'[j] # "live"
  BY <1>1, <1>2, <1>4 DEF TypeOK, TokensOf, Create
<1>6. \A q \in Requests : \/ req'[q] = Idle
                          \/ req'[q] = req[q] /\ (\/ req[q].token = None
                                                  \/ family[req[q].token] # f
                                                  \/ f \in raced
                                                  \/ service[f] # "platform")
  BY <1>1, <1>2 DEF TypeOK
<1>7. old # None /\ \A j \in Ids : from[j] # old \/ j \notin TokensOf(f)
  BY <1>2, <1>4 DEF TokensOf
<1> HIDE DEF old, f
<1>8. QED
  BY <1>1, <1>2, <1>4, <1>5, <1>6, <1>7, IssueChain

LEMMA PlatformIssueChain ==
  ASSUME TypeOK, ChainInv, NEW r \in Requests, NEW k \in Ids, Issue(r, k)
  PROVE  ChainInv'
<1> DEFINE old == req[r].token
           f   == family[old]
<1> USE NoneAssumption
<1>1. /\ req[r].pc = "issue" /\ Create(k, f, old)
      /\ state' = [state EXCEPT ![k] = "live"]
      /\ req' = [req EXCEPT ![r] = Idle]
      /\ UNCHANGED <<service, ended, raced>>
  BY DEF Issue, At, Done, history
<1>2. old \in TokensOf(f) /\ f \in Families /\ service[f] = "platform" /\ old # None
  BY <1>1 DEF TypeOK, TokensOf
<1>3. ASSUME Sequential(f)
      PROVE  /\ f \notin ended
             /\ \A j \in Ids : from[j] # old
             /\ \A j \in TokensOf(f) : state[j] # "live"
  BY <1>1, <1>2, <1>3 DEF Sequential, ChainInv, InHand, InHandOf, Platform
<1>4. /\ \A j \in Ids \ {k} : state'[j] = "live" => state[j] = "live"
      /\ Sequential(f) => \A j \in TokensOf(f) : state'[j] # "live"
  BY <1>1, <1>2, <1>3 DEF TypeOK, TokensOf, Create
<1>5. ASSUME NEW q \in Requests
      PROVE  \/ req'[q] = Idle
             \/ req'[q] = req[q] /\ (\/ req[q].token = None
                                     \/ family[req[q].token] # f
                                     \/ f \in raced
                                     \/ service[f] # "platform")
  BY <1>1, <1>2 DEF TypeOK, ChainInv, Alone
<1>6. QED
  BY <1>1, <1>2, <1>3, <1>4, <1>5, IssueChain
LEMMA ChainInit == Init => ChainInv
  BY NoneAssumption DEF Init, ChainInv, Chains, RotationChain, Forward, EndedForGood, EndedKnown,
     Alone, InHand, InHandOf, TokensOf, LiveOf, Idle, Platform

LEMMA ChainStep ==
  ASSUME TypeOK, TypeOK', ChainInv, [Next]_vars
  PROVE  ChainInv'
<1> USE NoneAssumption
<1>1. ASSUME NEW r \in Requests, NEW k \in Ids, Present(r, k) PROVE ChainInv'
  BY <1>1, PresentChain
<1>2. ASSUME NEW r \in Requests, NEW k \in Ids, Rotate(r, k) PROVE ChainInv'
  BY <1>2, RotateChain
<1>3. ASSUME NEW r \in Requests, NEW k \in Ids, Issue(r, k) PROVE ChainInv'
  BY <1>3, PlatformIssueChain
<1>4. ASSUME NEW r \in Requests, EndFamily(r) PROVE ChainInv'
  BY <1>4, EndFamilyChain
<1>5. ASSUME NEW r \in Requests, RotateFails(r) PROVE ChainInv'
  BY <1>5, EndChain DEF RotateFails, Goto, Done, token
<1>6. ASSUME NEW r \in Requests, ReadMember(r) PROVE ChainInv'
  <2> DEFINE m == family[req[r].token] \in active
             x == [pc |-> "revoke", token |-> req[r].token, member |-> m]
  <2>1. m \in BOOLEAN
    OBVIOUS
  <2>2. /\ req[r].pc \in Platform /\ req' = [req EXCEPT ![r] = x]
        /\ UNCHANGED <<service, family, from, state, ended, raced>>
    BY <1>6 DEF ReadMember, At, Platform, token, history
  <2>3. req[r].token \in Ids \cup {None}
    BY DEF TypeOK
  <2> HIDE DEF m
  <2>4. x \in RequestType /\ x.pc = "revoke" /\ x.token = req[r].token
    BY <2>1, <2>3 DEF RequestType
  <2> HIDE DEF x
  <2>5. QED
    BY <2>2, <2>4, PlatformChain DEF Platform
<1>7. ASSUME NEW r \in Requests, RevokeCurrent(r) PROVE ChainInv'
  <2> DEFINE x == [pc |-> "issue", token |-> req[r].token, member |-> req[r].member]
  <2>1. /\ req[r].pc = "revoke" /\ UNCHANGED <<service, family, from, ended, raced>>
        /\ \/ req' = [req EXCEPT ![r] = Idle] /\ UNCHANGED state
           \/ /\ req' = [req EXCEPT ![r] = x]
              /\ state' = [state EXCEPT ![req[r].token] = "revoked"]
    BY <1>7 DEF RevokeCurrent, At, Goto, Done, history, TypeOK
  <2>2. CASE req' = [req EXCEPT ![r] = Idle] /\ UNCHANGED state
    BY <2>1, <2>2, EndChain
  <2>3. CASE /\ req' = [req EXCEPT ![r] = x]
             /\ state' = [state EXCEPT ![req[r].token] = "revoked"]
    <3>1. req' = [req EXCEPT ![r] = x]
      BY <2>3
    <3>2. x \in RequestType /\ x.pc = "issue" /\ x.token = req[r].token
      BY DEF TypeOK, RequestType
    <3>3. req[r].token \in Ids
      BY <2>1 DEF TypeOK
    <3>4. \A k \in Ids : state'[k] = "live" => state[k] = "live"
      BY <2>3 DEF TypeOK
    <3>5. state'[req[r].token] # "live"
      BY <2>3, <3>3 DEF TypeOK
    <3> HIDE DEF x
    <3>6. QED
      BY <2>1, <3>1, <3>2, <3>4, <3>5, PlatformChain DEF Platform
  <2>4. QED
    BY <2>1, <2>2, <2>3
<1>8. ASSUME NEW r \in Requests, IssueRefused(r) \/ Die(r) PROVE ChainInv'
  BY <1>8, EndChain DEF IssueRefused, Die, Done, token, history
<1>9. ASSUME NEW f \in Families, NEW k \in Ids, Login(f, k) PROVE ChainInv'
  BY <1>9, LoginChain
<1>10. ASSUME NEW f \in Families, EndSessions(f) PROVE ChainInv'
  <2>1. /\ TokensOf(f) # {}
        /\ state' = [k \in Ids |-> IF k \in LiveOf(f) THEN "revoked" ELSE state[k]]
        /\ ended' = ended \cup {f}
        /\ raced' = IF Handling(f) = {} THEN raced ELSE raced \cup {f}
        /\ UNCHANGED <<service, family, from, req>>
    BY <1>10 DEF EndSessions, RevokeAll
  <2>2. /\ \A k \in Ids : state'[k] = "live" => state[k] = "live"
        /\ \A k \in TokensOf(f) : state'[k] # "live"
    BY <2>1 DEF LiveOf, TokensOf
  <2>3. QED
    BY <2>1, <2>2, TakenChain
<1>11. ASSUME NEW k \in Ids, Logout(k) \/ Expire(k) PROVE ChainInv'
  <2>1. /\ state' = state \/ state' = [state EXCEPT ![k] = "revoked"]
        /\ UNCHANGED <<service, family, from, req, ended, raced>>
    BY <1>11 DEF Logout, Expire, history
  <2>2. ended' \ ended = {} /\ \A j \in Ids : state'[j] = "live" => state[j] = "live"
    BY <2>1 DEF TypeOK
  <2>3. QED
    BY <2>1, <2>2, TakenChain
<1>12. ASSUME DeleteExpired \/ \E k \in Ids : DeletePlatform(k) PROVE ChainInv'
  <2>1. /\ \A j \in Ids : state'[j] = state[j] \/ state'[j] = "deleted"
        /\ UNCHANGED <<service, family, from, req, ended, raced>>
    BY <1>12 DEF DeleteExpired, DeletePlatform, history, TypeOK
  <2>2. ended' \ ended = {} /\ \A j \in Ids : state'[j] = "live" => state[j] = "live"
    BY <2>1
  <2>3. QED
    BY <2>1, <2>2, TakenChain
<1>13. CASE UNCHANGED vars
  <2>1. UNCHANGED <<service, family, from, state, req, ended, raced>> /\ ended' \ ended = {}
    BY <1>13 DEF vars, token, history
  <2>2. QED
    BY <2>1, TakenChain
<1>14. QED
  BY <1>1, <1>2, <1>3, <1>4, <1>5, <1>6, <1>7, <1>8, <1>9, <1>10, <1>11, <1>12, <1>13 DEF Next

(* However many requests present the same or older tokens at once, a       *)
(* family has at most one live token and no token is replaced twice: for   *)
(* staff and customers always, on the platform while requests in the       *)
(* family do not overlap. *)
THEOREM ChainOfTokens == Spec => []RotationChain
<1>1. Init => TypeOK /\ ChainInv
  BY InitType, ChainInit
<1>2. TypeOK /\ ChainInv /\ [Next]_vars => (TypeOK /\ ChainInv)'
  BY TypeStep, ChainStep
<1>3. ChainInv => RotationChain
  BY DEF ChainInv, Chains
<1>4. QED
  BY <1>1, <1>2, <1>3, PTL DEF Spec

(* No refresh that was under way when a family was ended brings it back,   *)
(* with the same exception. *)
THEOREM EndIsFinal == Spec => []EndedForGood
<1>1. Init => TypeOK /\ ChainInv
  BY InitType, ChainInit
<1>2. TypeOK /\ ChainInv /\ [Next]_vars => (TypeOK /\ ChainInv)'
  BY TypeStep, ChainStep
<1>3. ChainInv => EndedForGood
  BY DEF ChainInv, Chains
<1>4. QED
  BY <1>1, <1>2, <1>3, PTL DEF Spec
-----------------------------------------------------------------------------
(* Alarms. *)

(* A family is ended, or not to be, when its user is told of reuse. *)
LEMMA ReuseStep ==
  ASSUME TypeOK, ReuseEndsFamily, [Next]_vars
  PROVE  ReuseEndsFamily'
<1>1. ASSUME UNCHANGED service, ended \subseteq ended', reused' \subseteq reused
      PROVE  ReuseEndsFamily'
  BY <1>1 DEF ReuseEndsFamily
<1>2. ASSUME NEW r \in Requests, EndFamily(r) PROVE ReuseEndsFamily'
  BY <1>2 DEF EndFamily, RevokeAll, ReuseEndsFamily
<1>3. ASSUME NEW r \in Requests, RotateFails(r) PROVE ReuseEndsFamily'
  <2> DEFINE f == family[req[r].token]
  <2>1. service[f] # "platform" /\ service[f] \in Services
    BY <1>3, NoneAssumption DEF RotateFails, At, TypeOK
  <2>2. reused' = reused \/ (reused' = reused \cup {f} /\ service[f] # "customer")
    BY <1>3 DEF RotateFails, EndsOnConflict
  <2>3. UNCHANGED <<service, ended>>
    BY <1>3 DEF RotateFails
  <2>4. QED
    BY <2>1, <2>2, <2>3 DEF ReuseEndsFamily, Services
<1>4. ASSUME NEW f \in Families, EndSessions(f) PROVE ReuseEndsFamily'
  BY <1>1, <1>4 DEF EndSessions, RevokeAll
<1>5. ASSUME NEW k \in Ids, Logout(k) \/ Expire(k) \/ (\E r \in Requests : Present(r, k))
      PROVE  ReuseEndsFamily'
  BY <1>1, <1>5 DEF Logout, Expire, Present, history
<1>6. ASSUME NEW k \in Ids, \/ \E r \in Requests : Rotate(r, k) \/ Issue(r, k)
                           \/ \E f \in Families : Login(f, k)
      PROVE  ReuseEndsFamily'
  BY <1>1, <1>6 DEF Rotate, Issue, Login, history
<1>7. ASSUME NEW r \in Requests, ReadMember(r) \/ RevokeCurrent(r) \/ IssueRefused(r) \/ Die(r)
      PROVE  ReuseEndsFamily'
  BY <1>1, <1>7 DEF ReadMember, RevokeCurrent, IssueRefused, Die, history
<1>8. CASE DeleteExpired \/ (\E k \in Ids : DeletePlatform(k)) \/ UNCHANGED vars
  BY <1>1, <1>8 DEF DeleteExpired, DeletePlatform, vars, history
<1>9. QED
  BY <1>2, <1>3, <1>4, <1>5, <1>6, <1>7, <1>8 DEF Next

(* A customer or a platform user is told of reuse only after the family's  *)
(* tokens were revoked. *)
THEOREM ReuseIsActedOn == Spec => []ReuseEndsFamily
<1>1. Init => TypeOK /\ ReuseEndsFamily
  BY InitType DEF Init, ReuseEndsFamily
<1>2. TypeOK /\ ReuseEndsFamily /\ [Next]_vars => (TypeOK /\ ReuseEndsFamily)'
  BY TypeStep, ReuseStep
<1>3. QED
  BY <1>1, <1>2, PTL DEF Spec

(* A step that only adds to the reasons, and in which requests only end or *)
(* go on to end a family for one. *)
LEMMA AlarmKept ==
  ASSUME TypeOK, AlarmInv, used \subseteq used', excused \subseteq excused',
         \A k \in Ids : family[k] # None => family'[k] = family[k],
         \A k \in Ids : state'[k] = "revoked" => k \in used' \/ Blamed(family[k])',
         \A f \in reused' : f \in reused \/ Blamed(f)',
         \A q \in Requests : \/ req'[q].token = None
                             \/ /\ req'[q].token = req[q].token
                                /\ req'[q].pc = "rotate" => req[q].pc = "rotate"
                                /\ req'[q].pc = "end_family" =>
                                     req[q].pc = "end_family" \/ Blamed(family[req[q].token])',
         \A q \in Requests : req'[q].pc = "rotate" /\ req'[q].token # None /\ state'[req'[q].token] = "revoked" =>
                               Blamed(family[req[q].token])' \/ state[req'[q].token] = "revoked"
  PROVE  AlarmInv'
<1> USE NoneAssumption
<1>1. \A f : f # None /\ (\E k \in Ids : family[k] = f /\ k \in excused)
               => \E k \in Ids : family'[k] = f /\ k \in excused'
  OBVIOUS
<1>2. NoFalseAlarm'
  <2> SUFFICES ASSUME NEW f \in reused' PROVE \E k \in Ids : family'[k] = f /\ k \in excused'
    BY DEF NoFalseAlarm, TokensOf
  <2>1. CASE f \in reused
    BY <2>1, <1>1 DEF AlarmInv, NoFalseAlarm, TokensOf, TypeOK
  <2>2. CASE f \notin reused
    BY <2>2 DEF Blamed
  <2>3. QED
    BY <2>1, <2>2
<1>3. Explained'
  BY DEF Explained
<1>4. Held'
  <2> SUFFICES ASSUME NEW q \in Requests, req'[q].token # None
               PROVE  /\ req'[q].token \in used'
                      /\ \A p \in Requests \ {q} : req'[p].token = req'[q].token => req'[q].token \in excused'
                      /\ req'[q].pc = "rotate" /\ state'[req'[q].token] = "revoked" => Blamed(family[req[q].token])'
                      /\ req'[q].pc = "end_family" => Blamed(family[req[q].token])'
    BY DEF Held, TypeOK, Blamed
  <2>1. /\ req'[q].token = req[q].token /\ req[q].token # None
        /\ req[q].token \in Ids /\ family[req[q].token] # None
        /\ family'[req[q].token] = family[req[q].token]
        /\ req'[q].pc = "rotate" => req[q].pc = "rotate"
        /\ req'[q].pc = "end_family" => req[q].pc = "end_family" \/ Blamed(family[req[q].token])'
    BY DEF TypeOK
  <2>2. req'[q].token \in used'
    BY <2>1 DEF AlarmInv, Held
  <2>3. ASSUME NEW p \in Requests \ {q}, req'[p].token = req'[q].token PROVE req'[q].token \in excused'
    BY <2>1, <2>3 DEF AlarmInv, Held
  <2>4. Blamed(family[req[q].token]) => \E k \in Ids : family'[k] = family[req[q].token] /\ k \in excused'
    BY <1>1, <2>1 DEF Blamed
  <2>5. ASSUME req'[q].pc = "rotate", state'[req'[q].token] = "revoked" PROVE Blamed(family[req[q].token])'
    <3>1. CASE state[req'[q].token] = "revoked"
      <4>1. Blamed(family[req[q].token])
        BY <2>1, <2>5, <3>1 DEF AlarmInv, Held
      <4>2. QED
        BY <4>1, <2>1, <2>4 DEF Blamed
    <3>2. CASE state[req'[q].token] # "revoked"
      BY <2>5, <3>2
    <3>3. QED
      BY <3>1, <3>2
  <2>6. ASSUME req'[q].pc = "end_family" PROVE Blamed(family[req[q].token])'
    <3>1. CASE req[q].pc = "end_family"
      <4>1. Blamed(family[req[q].token])
        BY <2>1, <3>1 DEF AlarmInv, Held
      <4>2. QED
        BY <4>1, <2>1, <2>4 DEF Blamed
    <3>2. CASE req[q].pc # "end_family"
      BY <2>1, <2>6, <3>2
    <3>3. QED
      BY <3>1, <3>2
  <2>7. QED
    BY <2>2, <2>3, <2>5, <2>6
<1>5. QED
  BY <1>2, <1>3, <1>4 DEF AlarmInv

(* What was explained stays explained. *)
LEMMA ExplainedKept ==
  ASSUME TypeOK, AlarmInv, used \subseteq used', excused \subseteq excused',
         \A k \in Ids : family[k] # None => family'[k] = family[k],
         NEW k \in Ids, state[k] = "revoked"
  PROVE  k \in used' \/ Blamed(family[k])'
<1> USE NoneAssumption
<1>1. family[k] # None /\ family'[k] = family[k]
  BY DEF TypeOK
<1>2. k \in used \/ \E j \in Ids : family[j] = family[k] /\ j \in excused
  BY DEF AlarmInv, Explained, Blamed
<1>3. QED
  BY <1>1, <1>2 DEF Blamed

LEMMA PresentAlarm ==
  ASSUME TypeOK, TypeOK', AlarmInv, NEW r \in Requests, NEW k \in Ids, Present(r, k)
  PROVE  AlarmInv'
<1> USE NoneAssumption
<1>1. /\ UNCHANGED <<service, family, from, state, expired, reused>>
      /\ state[k] \in {"live", "revoked"}
      /\ used' = used \cup {k} /\ excused' = excused \cup ({k} \cap used)
      /\ req' = [req EXCEPT ![r] = [pc |-> NextStep(k), token |-> k, member |-> FALSE]]
  BY DEF Present, token, history
<1>2. /\ req'[r].token = k /\ req'[r].pc = NextStep(k)
      /\ \A q \in Requests \ {r} : req'[q] = req[q]
  BY <1>1 DEF TypeOK
<1>3. NoFalseAlarm' /\ Explained'
  BY <1>1 DEF AlarmInv, NoFalseAlarm, Explained, TokensOf, Blamed
<1>4. k \in used => k \in excused'
  BY <1>1
<1>5. state[k] = "revoked" => \E j \in Ids : family[j] = family[k] /\ j \in excused'
  BY <1>1 DEF AlarmInv, Explained, Blamed
<1>6. Held'
  <2> SUFFICES ASSUME NEW q \in Requests, req'[q].token # None
               PROVE  /\ req'[q].token \in used'
                      /\ \A p \in Requests \ {q} : req'[p].token = req'[q].token => req'[q].token \in excused'
                      /\ req'[q].pc = "rotate" /\ state[req'[q].token] = "revoked" =>
                           \E j \in Ids : family[j] = family[req'[q].token] /\ j \in excused'
                      /\ req'[q].pc = "end_family" =>
                           \E j \in Ids : family[j] = family[req'[q].token] /\ j \in excused'
    BY <1>1 DEF Held, Blamed
  <2>1. CASE q = r
    <3>1. \A p \in Requests \ {r} : req[p].token = k => k \in used
      BY DEF AlarmInv, Held
    <3>2. NextStep(k) = "end_family" => state[k] = "revoked"
      BY DEF NextStep
    <3>3. QED
      BY <2>1, <1>1, <1>2, <1>4, <1>5, <3>1, <3>2
  <2>2. CASE q # r
    <3>1. req'[q] = req[q] /\ req[q].token \in used
      BY <2>2, <1>2 DEF AlarmInv, Held
    <3>2. ASSUME NEW p \in Requests \ {q}, req'[p].token = req'[q].token PROVE req'[q].token \in excused'
      BY <3>1, <3>2, <1>1, <1>2, <1>4 DEF AlarmInv, Held
    <3>3. /\ req'[q].pc = "rotate" /\ state[req'[q].token] = "revoked" =>
               \E j \in Ids : family[j] = family[req'[q].token] /\ j \in excused'
          /\ req'[q].pc = "end_family" =>
               \E j \in Ids : family[j] = family[req'[q].token] /\ j \in excused'
      BY <3>1, <1>1 DEF AlarmInv, Held, Blamed
    <3>4. QED
      BY <1>1, <3>1, <3>2, <3>3
  <2>3. QED
    BY <2>1, <2>2
<1>7. QED
  BY <1>3, <1>6 DEF AlarmInv

LEMMA RotateFailsAlarm ==
  ASSUME TypeOK, TypeOK', AlarmInv, NEW r \in Requests, RotateFails(r)
  PROVE  AlarmInv'
<1> DEFINE old == req[r].token
           f   == family[old]
<1> USE NoneAssumption
<1>1. /\ req[r].pc = "rotate" /\ UNCHANGED <<family, state, expired, used>>
      /\ excused' = IF state[old] # "revoked" THEN excused \cup {old} ELSE excused
      /\ \A g \in reused' : g \in reused \/ g = f
  BY DEF RotateFails, At, token
<1>2. req' = [req EXCEPT ![r] = Idle] \/ req' = [req EXCEPT ![r].pc = "end_family"]
  BY DEF RotateFails, Goto, Done
<1>3. old \in Ids /\ f # None
  BY <1>1 DEF TypeOK
<1>4. \E j \in Ids : family[j] = f /\ j \in excused'
  BY <1>1, <1>3 DEF AlarmInv, Held, Blamed
<1>5. /\ \A q \in Requests \ {r} : req'[q] = req[q]
      /\ req'[r] = Idle \/ (req'[r].token = old /\ req'[r].pc = "end_family")
  BY <1>2 DEF TypeOK
<1>6. \A q \in Requests : \/ req'[q].token = None
                          \/ /\ req'[q].token = req[q].token
                             /\ req'[q].pc = "rotate" => req[q].pc = "rotate"
                             /\ req'[q].pc = "end_family" =>
                                  req[q].pc = "end_family" \/ Blamed(family[req[q].token])'
  BY <1>1, <1>4, <1>5 DEF Idle, Blamed
<1>7. \A g \in reused' : g \in reused \/ Blamed(g)'
  BY <1>1, <1>4 DEF Blamed
<1>8. /\ used \subseteq used' /\ excused \subseteq excused'
      /\ \A k \in Ids : family[k] # None => family'[k] = family[k]
      /\ \A q \in Requests : req'[q].pc = "rotate" /\ req'[q].token # None /\ state'[req'[q].token] = "revoked" =>
                               Blamed(family[req[q].token])' \/ state[req'[q].token] = "revoked"
  BY <1>1
<1>9. \A k \in Ids : state'[k] = "revoked" => k \in used' \/ Blamed(family[k])'
  BY <1>1, <1>8, ExplainedKept
<1> HIDE DEF old, f
<1>10. QED
  BY <1>6, <1>7, <1>8, <1>9, AlarmKept

LEMMA RotateAlarm ==
  ASSUME TypeOK, TypeOK', AlarmInv, NEW r \in Requests, NEW k \in Ids, Rotate(r, k)
  PROVE  AlarmInv'
<1> DEFINE old == req[r].token
<1> USE NoneAssumption
<1>1. /\ req[r].pc = "rotate" /\ family[k] = None
      /\ family' = [family EXCEPT ![k] = family[old]]
      /\ state' = [state EXCEPT ![old] = "revoked", ![k] = "live"]
      /\ req' = [req EXCEPT ![r] = Idle]
      /\ UNCHANGED <<expired, reused, used, excused>>
  BY DEF Rotate, At, Create, Rotated, Done, history
<1>2. old \in Ids /\ old \in used /\ old # k
  BY <1>1 DEF TypeOK, AlarmInv, Held
<1>3. req'[r] = Idle /\ \A q \in Requests \ {r} : req'[q] = req[q]
  BY <1>1 DEF TypeOK
<1>4. \A q \in Requests : \/ req'[q].token = None
                          \/ /\ req'[q].token = req[q].token
                             /\ req'[q].pc = "rotate" => req[q].pc = "rotate"
                             /\ req'[q].pc = "end_family" => req[q].pc = "end_family"
  BY <1>3 DEF Idle
<1>5. ASSUME NEW q \in Requests, req'[q].pc = "rotate", req'[q].token # None, state'[req'[q].token] = "revoked"
      PROVE  Blamed(family[req[q].token])' \/ state[req'[q].token] = "revoked"
  <2>1. q # r /\ req'[q] = req[q]
    BY <1>3, <1>5 DEF Idle
  <2>2. CASE req[q].token = old
    <3>1. old \in excused'
      BY <2>1, <2>2, <1>1, <1>2 DEF AlarmInv, Held
    <3>2. QED
      BY <2>1, <2>2, <3>1, <1>2 DEF Blamed
  <2>3. CASE req[q].token # old
    BY <2>1, <2>3, <1>1, <1>5 DEF TypeOK
  <2>4. QED
    BY <2>2, <2>3
<1>6. \A q \in Requests : req'[q].pc = "rotate" /\ req'[q].token # None /\ state'[req'[q].token] = "revoked" =>
                            Blamed(family[req[q].token])' \/ state[req'[q].token] = "revoked"
  BY <1>5
<1>7. /\ \A j \in Ids : family[j] # None => family'[j] = family[j]
      /\ used \subseteq used' /\ excused \subseteq excused'
      /\ \A g \in reused' : g \in reused
      /\ \A j \in Ids : state'[j] = "revoked" => j \in used' \/ state[j] = "revoked"
  BY <1>1, <1>2 DEF TypeOK
<1>8. \A j \in Ids : state'[j] = "revoked" => j \in used' \/ Blamed(family[j])'
  BY <1>7, ExplainedKept
<1> HIDE DEF old
<1>9. QED
  BY <1>4, <1>6, <1>7, <1>8, AlarmKept

LEMMA EndFamilyAlarm ==
  ASSUME TypeOK, TypeOK', AlarmInv, NEW r \in Requests, EndFamily(r)
  PROVE  AlarmInv'
<1> DEFINE f == family[req[r].token]
<1> USE NoneAssumption
<1>1. /\ req[r].pc = "end_family" /\ UNCHANGED <<family, expired, used, excused>>
      /\ state' = [k \in Ids |-> IF k \in LiveOf(f) THEN "revoked" ELSE state[k]]
      /\ reused' = reused \cup {f}
      /\ req' = [req EXCEPT ![r] = Idle]
  BY DEF EndFamily, RevokeAll, At, Done
<1>2. req'[r] = Idle /\ \A q \in Requests \ {r} : req'[q] = req[q]
  BY <1>1 DEF TypeOK
<1>3. \E j \in Ids : family'[j] = f /\ j \in excused'
  BY <1>1 DEF AlarmInv, Held, TypeOK, Blamed
<1>4. ASSUME NEW k \in Ids, state'[k] = "revoked"
      PROVE  family'[k] = f \/ state[k] = "revoked"
  BY <1>1, <1>4 DEF LiveOf, TokensOf
<1>5. \A k \in Ids : state'[k] = "revoked" => k \in used' \/ Blamed(family[k])'
  <2> SUFFICES ASSUME NEW k \in Ids, state'[k] = "revoked" PROVE k \in used' \/ Blamed(family[k])'
    OBVIOUS
  <2>1. CASE family'[k] = f
    BY <2>1, <1>3 DEF Blamed
  <2>2. CASE state[k] = "revoked"
    BY <2>2, <1>1, ExplainedKept
  <2>3. QED
    BY <2>1, <2>2, <1>4
<1>6. \A q \in Requests :
        req'[q].pc = "rotate" /\ req'[q].token # None /\ state'[req'[q].token] = "revoked" =>
          Blamed(family[req[q].token])' \/ state[req'[q].token] = "revoked"
  <2> SUFFICES ASSUME NEW q \in Requests, req'[q].pc = "rotate", req'[q].token # None, state'[req'[q].token] = "revoked"
               PROVE  Blamed(family[req[q].token])' \/ state[req'[q].token] = "revoked"
    OBVIOUS
  <2>1. q # r /\ req'[q] = req[q] /\ req[q].token \in Ids
    BY <1>2 DEF Idle, TypeOK
  <2>2. CASE family'[req[q].token] = f
    BY <2>1, <2>2, <1>3 DEF Blamed
  <2>3. CASE state[req[q].token] = "revoked"
    BY <2>1, <2>3
  <2>4. QED
    BY <2>1, <2>2, <2>3, <1>4
<1>7. \A g \in reused' : g \in reused \/ Blamed(g)'
  BY <1>1, <1>3 DEF Blamed
<1>8. /\ used \subseteq used' /\ excused \subseteq excused'
      /\ \A k \in Ids : family[k] # None => family'[k] = family[k]
      /\ \A q \in Requests : \/ req'[q].token = None
                             \/ /\ req'[q].token = req[q].token
                                /\ req'[q].pc = "rotate" => req[q].pc = "rotate"
                                /\ req'[q].pc = "end_family" => req[q].pc = "end_family"
  BY <1>1, <1>2 DEF Idle
<1> HIDE DEF f
<1>9. QED
  BY <1>5, <1>6, <1>7, <1>8, AlarmKept

(* Steps without requests that begin or rotate. *)
LEMMA OtherAlarm ==
  ASSUME TypeOK, TypeOK', AlarmInv, UNCHANGED <<reused, used>>, excused \subseteq excused',
         \A k \in Ids : family[k] # None => family'[k] = family[k],
         \A k \in Ids : state'[k] = "revoked" => state[k] = "revoked" \/ k \in used \/ k \in excused',
         \A q \in Requests : \/ req'[q].token = None
                             \/ /\ req'[q].token = req[q].token
                                /\ req'[q].pc = "rotate" => req[q].pc = "rotate"
                                /\ req'[q].pc = "end_family" => req[q].pc = "end_family",
         \A q \in Requests : req'[q].pc = "rotate" /\ req'[q].token # None /\ state'[req'[q].token] = "revoked" =>
                               req[q].token \in excused' \/ state[req[q].token] = "revoked"
  PROVE  AlarmInv'
<1> USE NoneAssumption
<1>1. \A k \in Ids : state'[k] = "revoked" => k \in used' \/ Blamed(family[k])'
  <2> SUFFICES ASSUME NEW k \in Ids, state'[k] = "revoked" PROVE k \in used' \/ Blamed(family[k])'
    OBVIOUS
  <2>1. CASE k \in excused'
    BY <2>1 DEF Blamed
  <2>2. CASE state[k] = "revoked"
    BY <2>2, ExplainedKept
  <2>3. QED
    BY <2>1, <2>2
<1>2. \A q \in Requests : req'[q].pc = "rotate" /\ req'[q].token # None /\ state'[req'[q].token] = "revoked" =>
                            Blamed(family[req[q].token])' \/ state[req'[q].token] = "revoked"
  BY DEF Blamed, TypeOK
<1>3. QED
  BY <1>1, <1>2, AlarmKept

LEMMA AlarmStep ==
  ASSUME TypeOK, TypeOK', AlarmInv, [Next]_vars
  PROVE  AlarmInv'
<1> USE NoneAssumption
<1>1. ASSUME NEW r \in Requests, NEW k \in Ids, Present(r, k) PROVE AlarmInv'
  BY <1>1, PresentAlarm
<1>2. ASSUME NEW r \in Requests, NEW k \in Ids, Rotate(r, k) PROVE AlarmInv'
  BY <1>2, RotateAlarm
<1>3. ASSUME NEW r \in Requests, RotateFails(r) PROVE AlarmInv'
  BY <1>3, RotateFailsAlarm
<1>4. ASSUME NEW r \in Requests, EndFamily(r) PROVE AlarmInv'
  BY <1>4, EndFamilyAlarm
<1>5. ASSUME NEW r \in Requests, RevokeCurrent(r) PROVE AlarmInv'
  <2> DEFINE old == req[r].token
  <2>1. /\ req[r].pc = "revoke" /\ UNCHANGED <<family, service, reused, used, excused>>
        /\ state' = state \/ state' = [state EXCEPT ![old] = "revoked"]
        /\ req' = [req EXCEPT ![r] = Idle] \/ req' = [req EXCEPT ![r].pc = "issue"]
    BY <1>5 DEF RevokeCurrent, At, Goto, Done, history
  <2>2. /\ \A q \in Requests \ {r} : req'[q] = req[q]
        /\ req'[r] = Idle \/ (req'[r].token = old /\ req'[r].pc = "issue")
    BY <2>1 DEF TypeOK
  <2>3. old \in used /\ old \in Ids
    BY <2>1 DEF TypeOK, AlarmInv, Held
  <2>4. \A k \in Ids : state'[k] = "revoked" => state[k] = "revoked" \/ k \in used \/ k \in excused'
    BY <2>1, <2>3 DEF TypeOK
  <2>5. ASSUME NEW q \in Requests, req'[q].pc = "rotate", req'[q].token # None
        PROVE  state'[req'[q].token] = state[req[q].token]
    <3>1. q # r /\ req'[q] = req[q]
      BY <2>2, <2>5 DEF Idle
    <3>2. req[q].token # old
      BY <2>1, <2>5, <3>1 DEF TypeOK
    <3>3. QED
      BY <2>1, <2>5, <3>1, <3>2 DEF TypeOK
  <2>6. \A q \in Requests : \/ req'[q].token = None
                            \/ /\ req'[q].token = req[q].token
                               /\ req'[q].pc = "rotate" => req[q].pc = "rotate"
                               /\ req'[q].pc = "end_family" => req[q].pc = "end_family"
    BY <2>2 DEF Idle
  <2> HIDE DEF old
  <2>7. QED
    BY <2>1, <2>4, <2>5, <2>6, OtherAlarm
<1>6. ASSUME NEW r \in Requests, ReadMember(r) PROVE AlarmInv'
  <2>1. /\ UNCHANGED <<family, state, reused, used, excused>>
        /\ \A q \in Requests : req'[q] = req[q] \/ (req'[q].token = req[q].token /\ req'[q].pc = "revoke")
    BY <1>6 DEF ReadMember, token, history, TypeOK
  <2>2. QED
    BY <2>1, OtherAlarm
<1>7. ASSUME NEW r \in Requests, IssueRefused(r) \/ Die(r) \/ (\E k \in Ids : Issue(r, k))
      PROVE  AlarmInv'
  <2>1. /\ UNCHANGED <<reused, used, excused>>
        /\ \/ UNCHANGED <<family, state>>
           \/ \E k \in Ids : /\ family[k] = None /\ family' = [family EXCEPT ![k] = family[req[r].token]]
                             /\ state' = [state EXCEPT ![k] = "live"]
        /\ \A q \in Requests : req'[q] = req[q] \/ req'[q] = Idle
    BY <1>7, SMTT(20) DEF IssueRefused, Die, Issue, Create, Done, token, history, TypeOK
  <2>2. /\ \A k \in Ids : family[k] # None => family'[k] = family[k]
        /\ \A k \in Ids : state'[k] = "revoked" => state[k] = "revoked"
    BY <2>1 DEF TypeOK
  <2>3. \A q \in Requests : req[q].token # None => req[q].token \in Ids
    BY DEF TypeOK
  <2>4. QED
    BY <2>1, <2>2, <2>3, OtherAlarm DEF Idle
<1>8. ASSUME NEW f \in Families, NEW k \in Ids, Login(f, k) PROVE AlarmInv'
  <2>1. /\ UNCHANGED <<req, reused, used, excused>> /\ family[k] = None
        /\ family' = [family EXCEPT ![k] = f] /\ state' = [state EXCEPT ![k] = "live"]
    BY <1>8 DEF Login, Create, history
  <2>2. /\ \A j \in Ids : family[j] # None => family'[j] = family[j]
        /\ \A j \in Ids : state'[j] = "revoked" => state[j] = "revoked"
    BY <2>1 DEF TypeOK
  <2>3. \A q \in Requests : req[q].token # None => req[q].token \in Ids
    BY DEF TypeOK
  <2>4. QED
    BY <2>1, <2>2, <2>3, OtherAlarm
<1>9. ASSUME \/ \E f \in Families : EndSessions(f)
             \/ \E k \in Ids : Logout(k) \/ Expire(k) \/ DeletePlatform(k)
             \/ DeleteExpired
             \/ UNCHANGED vars
      PROVE  AlarmInv'
  <2>1. /\ UNCHANGED <<family, req, reused, used>>
        /\ excused \subseteq excused'
        /\ \A k \in Ids : \/ state'[k] = state[k]
                          \/ state'[k] = "revoked" /\ k \in excused'
                          \/ state'[k] = "deleted"
    BY <1>9 DEF EndSessions, RevokeAll, Logout, Expire, DeleteExpired, DeletePlatform, vars, token, history, TypeOK
  <2>2. \A q \in Requests : req[q].token # None => req[q].token \in Ids
    BY DEF TypeOK
  <2>3. QED
    BY <2>1, <2>2, OtherAlarm
<1>10. QED
  BY <1>1, <1>2, <1>3, <1>4, <1>5, <1>6, <1>7, <1>8, <1>9 DEF Next

(* A client that never presents a token twice is told of reuse only when a *)
(* logout or the end of its sessions took the token away, or the database  *)
(* failed its rotation or had deleted the row.  What the alarm itself      *)
(* revokes is no reason.                                                   *)
THEOREM AlarmsAreFounded == Spec => []NoFalseAlarm
<1>1. Init => TypeOK /\ AlarmInv
  BY InitType, NoneAssumption DEF Init, AlarmInv, NoFalseAlarm, Explained, Held, Idle
<1>2. TypeOK /\ AlarmInv /\ [Next]_vars => (TypeOK /\ AlarmInv)'
  BY TypeStep, AlarmStep
<1>3. AlarmInv => NoFalseAlarm
  BY DEF AlarmInv
<1>4. QED
  BY <1>1, <1>2, <1>3, PTL DEF Spec
=============================================================================
