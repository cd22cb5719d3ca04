------------------------- MODULE GuestIdentityProofs -------------------------
(***************************************************************************)
(* Theorems about GuestIdentity, for every set of requests.                *)
(*                                                                         *)
(* A family's tokens are numbered, so "the successor of" is plus one.  The *)
(* argument rests on Position: the token on the device is the current one  *)
(* or the one before it, and no refresh that may still rotate presents a   *)
(* later one.                                                              *)
(***************************************************************************)
EXTENDS GuestIdentity, TLAPS

(* The replaced token is always the one before the current one.            *)
Chained == family.previous = family.current - 1

(* What a request read or was answered names the successor of its token.   *)
Successor(r) ==
    /\ req[r].at = "add" => /\ req[r].seen = req[r].token + 1
                            /\ req[r].seen <= family.current
    /\ req[r].answer = "ok" => /\ req[r].at = "answered" /\ req[r].kind = "refresh"
                               /\ req[r].next = req[r].token + 1
                               /\ req[r].next <= family.current

(* Only a refresh rotates.                                                 *)
Refreshing(r) == req[r].at \in {"rotate", "add"} => req[r].kind = "refresh"

(* A revoke is confirmed only once the family has ended.                   *)
Confirmed(r) == req[r].kind = "revoke" /\ req[r].answer = "revoked" => ~Live

Stored == client.stored # NoToken

Position ==
    /\ Stored => client.stored <= family.current /\ family.current <= client.stored + 1
    /\ client.status = "active" => client.held = client.stored

(* A refresh presents the device's token, or an earlier one once the device *)
(* has stopped waiting for it.                                             *)
Presents(r) ==
    req[r].kind = "refresh" /\ req[r].at # "unsent" /\ Stored =>
        /\ req[r].token <= client.stored
        /\ r \in client.awaits => req[r].token = client.stored

Awaiting(r) ==
    r \in client.awaits =>
        /\ req[r].kind = "refresh" => Stored /\ req[r].at # "unsent"
        /\ req[r].kind = "revoke" => client.status = "closed"

(* An awaited request about to revoke saw its successor current, too late. *)
Late(r) ==
    r \in client.awaits /\ req[r].at = "revoke" /\ req[r].kind = "refresh" =>
        \/ ~Live
        \/ family.graceOver /\ family.current = client.stored + 1

Sound(r) ==
    /\ Successor(r) /\ Refreshing(r) /\ Confirmed(r)
    /\ Presents(r)  /\ Awaiting(r)   /\ Late(r)

IInv ==
    /\ TypeOK
    /\ Chained
    /\ Position
    /\ NoAccessOutlivesFamily
    /\ ForgottenMeansEnded
    /\ \A r \in Requests : Sound(r)

-----------------------------------------------------------------------------
USE DEF NoToken, Tokens

(* An answer keeps a request's type.                                       *)
LEMMA AnswersTyped ==
    ASSUME req \in [Requests -> Request], NEW r \in Requests,
           NEW answer \in {"ok", "rejected", "unavailable", "revoked"},
           NEW next \in Tokens \cup {NoToken}, Answers(r, answer, next)
    PROVE  req' \in [Requests -> Request]
<1> DEFINE q == [req[r] EXCEPT !.at = "answered", !.answer = answer, !.next = next]
<1>1. req' = [req EXCEPT ![r] = q]
  BY DEF Answers
<1>2. q \in Request
  BY DEF Request, RequestSteps
<1> HIDE DEF q
<1> QED
  BY <1>1, <1>2

LEMMA InitHolds == Init => IInv
<1> SUFFICES ASSUME Init PROVE IInv
  OBVIOUS
<1>1. TypeOK
  BY GraceAssumption DEF Init, TypeOK, Family, Request, Client, Asked, RequestSteps, EndReasons
<1>2. Chained /\ Position /\ NoAccessOutlivesFamily /\ ForgottenMeansEnded
  BY DEF Init, Chained, Position, Stored, NoAccessOutlivesFamily, ForgottenMeansEnded, Live
<1>3. \A r \in Requests : Sound(r)
  BY DEF Init, Asked, Sound, Successor, Refreshing, Confirmed, Presents, Awaiting, Late, Live
<1> QED
  BY <1>1, <1>2, <1>3 DEF IInv

(* Steps of the device: the family's row stays.                            *)
LEMMA SendKeeps ==
    ASSUME IInv, NEW r \in Requests, Start(r) \/ Refresh(r) \/ Logout(r)
    PROVE  IInv'
<1>1. PICK kind \in {"refresh", "revoke"}, token \in Tokens :
         /\ Sends(r, kind, token)
         /\ kind = "refresh" => token = client.stored /\ Stored
         /\ kind = "revoke" => client.status = "closed"
  BY DEF IInv, TypeOK, Client, Position, Start, Refresh, Logout, Sends, Stored
<1>2. TypeOK'
  BY <1>1 DEF IInv, TypeOK, Sends, Asked, Request, Client, RequestSteps
<1>3. Chained' /\ Position' /\ NoAccessOutlivesFamily' /\ ForgottenMeansEnded'
  BY <1>1 DEF IInv, TypeOK, Client, Sends, Chained, Position, Stored, NoAccessOutlivesFamily,
              ForgottenMeansEnded, Live
<1>4. ASSUME NEW s \in Requests PROVE Sound(s)'
  BY <1>1 DEF IInv, TypeOK, Request, Client, Sends, Asked, Position, Stored, Sound, Successor,
              Refreshing, Confirmed, Presents, Awaiting, Late, Live
<1> QED
  BY <1>2, <1>3, <1>4 DEF IInv

(* The answer carries the successor of the device's token.                 *)
LEMMA DeliverKeeps ==
    ASSUME IInv, NEW r \in Requests, Saved(r) \/ SaveFails(r)
    PROVE  IInv'
<1>1. TypeOK'
  BY DEF IInv, TypeOK, Family, Request, Client, RequestSteps, EndReasons, Saved, SaveFails,
         Delivers, Becomes
<1>2. Chained' /\ Position' /\ NoAccessOutlivesFamily' /\ ForgottenMeansEnded'
  BY DEF IInv, TypeOK, Family, Request, Client, Chained, Position, Stored, Sound, Successor,
         Refreshing, Confirmed, Presents, Awaiting, NoAccessOutlivesFamily, ForgottenMeansEnded,
         Live, Saved, SaveFails, Delivers, Becomes
<1>3. /\ Stored /\ req[r].token = client.stored
      /\ req[r].next = client.stored + 1 /\ req[r].next <= family.current
  BY DEF IInv, TypeOK, Request, Sound, Successor, Presents, Awaiting, Saved, SaveFails, Delivers
<1>4. /\ client'.awaits = {} /\ client'.stored \in {client.stored, client.stored + 1}
      /\ UNCHANGED <<family, req>>
  BY <1>3 DEF Saved, SaveFails, Delivers
<1>5. ASSUME NEW s \in Requests PROVE Sound(s)'
  <2>1. Successor(s)' /\ Refreshing(s)' /\ Confirmed(s)'
    BY <1>4 DEF IInv, Sound, Successor, Refreshing, Confirmed, Live
  <2>2. Presents(s)'
    BY <1>3, <1>4 DEF IInv, TypeOK, Request, Client, Sound, Presents, Stored
  <2>3. Awaiting(s)' /\ Late(s)'
    BY <1>4 DEF Awaiting, Late
  <2> QED
    BY <2>1, <2>2, <2>3 DEF Sound
<1> QED
  BY <1>1, <1>2, <1>5 DEF IInv

LEMMA EndKeeps ==
    ASSUME IInv, NEW r \in Requests, Refused(r) \/ Unavailable(r) \/ Forgets(r)
                           \/ RemoveFails(r) \/ GiveUp(r)
    PROVE  IInv'
<1>1. TypeOK'
  BY DEF IInv, TypeOK, Client, Refused, Unavailable, Forgets, RemoveFails, GiveUp, Delivers, Becomes
<1>2. client'.awaits = {} /\ UNCHANGED <<family, access, req>>
  BY DEF IInv, TypeOK, Client, Refused, Unavailable, Forgets, RemoveFails, GiveUp, Delivers
<1>3. \/ client'.stored = client.stored
      \/ client'.stored = NoToken /\ ~Live
  <2>1. CASE Refused(r) \/ Unavailable(r) \/ GiveUp(r)
    BY <2>1 DEF IInv, TypeOK, Client, Refused, Unavailable, GiveUp
  <2>2. CASE Forgets(r) \/ RemoveFails(r)
    <3>1. ~Live
      BY <2>2 DEF IInv, Sound, Confirmed, Forgets, RemoveFails, Delivers
    <3>2. client'.stored \in {client.stored, NoToken}
      BY <2>2 DEF IInv, TypeOK, Client, Forgets, RemoveFails
    <3> QED
      BY <3>1, <3>2
  <2> QED
    BY <2>1, <2>2
<1>4. client'.status = "active" =>
        client.status = "active" /\ client'.stored = client.stored /\ client'.held = client.held
  <2>1. CASE Refused(r)
    BY <2>1 DEF IInv, TypeOK, Client, Refused, Becomes
  <2>2. CASE Unavailable(r) \/ GiveUp(r)
    BY <2>2 DEF IInv, TypeOK, Client, Unavailable, GiveUp
  <2>3. CASE Forgets(r) \/ RemoveFails(r)
    <3>1. client.status = "closed"
      BY <2>3 DEF IInv, Sound, Awaiting, Forgets, RemoveFails, Delivers
    <3> QED
      BY <2>3, <3>1 DEF IInv, TypeOK, Client, Forgets, RemoveFails
  <2> QED
    BY <2>1, <2>2, <2>3
<1>5. Chained' /\ Position' /\ NoAccessOutlivesFamily' /\ ForgottenMeansEnded'
  BY <1>2, <1>3, <1>4 DEF IInv, Chained, Position, Stored, NoAccessOutlivesFamily,
                          ForgottenMeansEnded, Live
<1>6. ASSUME NEW s \in Requests PROVE Sound(s)'
  BY <1>2, <1>3 DEF IInv, Stored, Sound, Successor, Refreshing, Confirmed, Presents,
                    Awaiting, Late, Live
<1> QED
  BY <1>1, <1>5, <1>6 DEF IInv

(* Steps of the service.                                                   *)
LEMMA FindKeeps ==
    ASSUME IInv, NEW r \in Requests, FindToken(r)
    PROVE  IInv'
<1>1. TypeOK'
  BY DEF IInv, TypeOK, Family, Request, Client, RequestSteps, EndReasons, FindToken,
         Answers, Goes
<1>2. Chained' /\ Position' /\ NoAccessOutlivesFamily' /\ ForgottenMeansEnded'
  BY DEF IInv, TypeOK, Family, Request, Client, Chained, Position, Stored, Sound, Successor,
         Refreshing, Confirmed, Presents, Awaiting, NoAccessOutlivesFamily, ForgottenMeansEnded,
         Live, FindToken, Answers, Goes
<1>3. ASSUME NEW s \in Requests PROVE Sound(s)'
  BY DEF IInv, TypeOK, Family, Request, Client, Chained, Position, Stored, Sound, Successor,
         Refreshing, Confirmed, Presents, Awaiting, Late, ForgottenMeansEnded, Live,
         FindToken, Answers, Goes
<1> QED
  BY <1>1, <1>2, <1>3 DEF IInv

LEMMA ReadKeeps ==
    ASSUME IInv, NEW r \in Requests, ReadFamily(r)
    PROVE  IInv'
<1>1. TypeOK'
  BY DEF IInv, TypeOK, Family, Request, Client, RequestSteps, EndReasons, ReadFamily,
         Answers, Goes, InGrace
<1>2. Chained' /\ Position' /\ NoAccessOutlivesFamily' /\ ForgottenMeansEnded'
  BY DEF IInv, TypeOK, Family, Request, Client, Chained, Position, Stored, Sound, Successor,
         Refreshing, Confirmed, Presents, Awaiting, NoAccessOutlivesFamily, ForgottenMeansEnded,
         Live, ReadFamily, Answers, Goes, InGrace
<1>3. ASSUME NEW s \in Requests PROVE Sound(s)'
  BY DEF IInv, TypeOK, Family, Request, Client, Chained, Position, Stored, Sound, Successor,
         Refreshing, Confirmed, Presents, Awaiting, Late, ForgottenMeansEnded, Live,
         ReadFamily, Answers, Goes, InGrace
<1> QED
  BY <1>1, <1>2, <1>3 DEF IInv

LEMMA ReadToRevokeKeeps ==
    ASSUME IInv, NEW r \in Requests, ReadFamilyToRevoke(r)
    PROVE  IInv'
<1>1. TypeOK'
  BY DEF IInv, TypeOK, Family, Request, Client, RequestSteps, EndReasons,
         ReadFamilyToRevoke, Answers, Goes
<1>2. Chained' /\ Position' /\ NoAccessOutlivesFamily' /\ ForgottenMeansEnded'
  BY DEF IInv, TypeOK, Family, Request, Client, Chained, Position, Stored, Sound, Successor,
         Refreshing, Confirmed, Presents, Awaiting, NoAccessOutlivesFamily, ForgottenMeansEnded,
         Live, ReadFamilyToRevoke, Answers, Goes
<1>3. ASSUME NEW s \in Requests PROVE Sound(s)'
  BY DEF IInv, TypeOK, Family, Request, Client, Chained, Position, Stored, Sound, Successor,
         Refreshing, Confirmed, Presents, Awaiting, Late, ForgottenMeansEnded, Live,
         ReadFamilyToRevoke, Answers, Goes
<1> QED
  BY <1>1, <1>2, <1>3 DEF IInv

(* The swap goes through on the device's token only: no later one rotates. *)
LEMMA RotateKeeps ==
    ASSUME IInv, NEW r \in Requests, Rotate(r)
    PROVE  IInv'
<1>1. TypeOK'
  <2>1. family' \in Family
    <3>1. req[r].token \in Nat /\ family \in Family
      BY DEF IInv, TypeOK, Request
    <3>2. CASE Rotated(family.current + 1, req[r].token)
      <4> DEFINE over == ~RetryGrace
                 next == family.current + 1
      <4>1. over \in BOOLEAN /\ next \in Nat
        BY <3>1 DEF Family
      <4>2. family' = [family EXCEPT !.current = next, !.previous = req[r].token,
                                     !.graceOver = over, !.expired = FALSE]
        BY <3>2 DEF Rotated
      <4> HIDE DEF over, next
      <4> QED
        BY <3>1, <4>1, <4>2 DEF Family
    <3>3. CASE UNCHANGED family
      BY <3>1, <3>3
    <3> QED
      BY <3>2, <3>3 DEF Rotate
  <2>2. access' \in SUBSET Requests /\ client' \in Client
    BY DEF IInv, TypeOK, Rotate, Rotated, Raced, Answers
  <2>3. req' \in [Requests -> Request]
    BY DEF IInv, TypeOK, Family, Request, RequestSteps, Rotate, Rotated, Raced, Answers
  <2> QED
    BY <2>1, <2>2, <2>3 DEF TypeOK
<1>2. Chained' /\ Position' /\ NoAccessOutlivesFamily' /\ ForgottenMeansEnded'
  BY DEF IInv, TypeOK, Family, Request, Client, Chained, Position, Stored, Sound, Successor,
         Refreshing, Confirmed, Presents, Awaiting, NoAccessOutlivesFamily, ForgottenMeansEnded,
         Live, Rotate, Rotated, Raced, Answers
<1>3. ASSUME NEW s \in Requests PROVE Sound(s)'
  BY DEF IInv, TypeOK, Family, Request, Client, Chained, Position, Stored, Sound, Successor,
         Refreshing, Confirmed, Presents, Awaiting, Late, ForgottenMeansEnded, Live,
         Rotate, Rotated, Raced, Answers
<1> QED
  BY <1>1, <1>2, <1>3 DEF IInv

LEMMA AddKeeps ==
    ASSUME IInv, NEW r \in Requests, AddAccess(r)
    PROVE  IInv'
<1>1. TypeOK'
  <2>1. family' \in Family
    BY DEF IInv, TypeOK, Family, EndReasons, AddAccess, Raced
  <2>2. access' \in SUBSET Requests /\ client' \in Client
    BY DEF IInv, TypeOK, AddAccess, Raced, Answers
  <2>3. req' \in [Requests -> Request]
    BY DEF IInv, TypeOK, Family, Request, RequestSteps, AddAccess, Raced, Answers
  <2> QED
    BY <2>1, <2>2, <2>3 DEF TypeOK
<1>2. Chained' /\ Position' /\ NoAccessOutlivesFamily' /\ ForgottenMeansEnded'
  BY DEF IInv, TypeOK, Family, Request, Client, Chained, Position, Stored, Sound, Successor,
         Refreshing, Confirmed, Presents, Awaiting, NoAccessOutlivesFamily, ForgottenMeansEnded,
         Live, AddAccess, Raced, Answers
<1>3. ASSUME NEW s \in Requests PROVE Sound(s)'
  BY DEF IInv, TypeOK, Family, Request, Client, Chained, Position, Stored, Sound, Successor,
         Refreshing, Confirmed, Presents, Awaiting, Late, ForgottenMeansEnded, Live,
         AddAccess, Raced, Answers
<1> QED
  BY <1>1, <1>2, <1>3 DEF IInv

LEMMA RevokeKeeps ==
    ASSUME IInv, NEW r \in Requests, Revoke(r)
    PROVE  IInv'
<1>1. TypeOK'
  <2>1. family' \in Family
    BY DEF IInv, TypeOK, Family, EndReasons, Revoke
  <2>2. access' \in SUBSET Requests /\ client' \in Client
    BY DEF IInv, TypeOK, Revoke, Answers
  <2>3. req' \in [Requests -> Request]
    <3>1. CASE Answers(r, "rejected", NoToken)
      BY <3>1, AnswersTyped DEF IInv, TypeOK
    <3>2. CASE Answers(r, "revoked", NoToken)
      BY <3>2, AnswersTyped DEF IInv, TypeOK
    <3> QED
      BY <3>1, <3>2 DEF Revoke
  <2> QED
    BY <2>1, <2>2, <2>3 DEF TypeOK
<1>2. Chained' /\ Position' /\ NoAccessOutlivesFamily' /\ ForgottenMeansEnded'
  BY DEF IInv, TypeOK, Family, Request, Client, Chained, Position, Stored, Sound, Successor,
         Refreshing, Confirmed, Presents, Awaiting, NoAccessOutlivesFamily, ForgottenMeansEnded,
         Live, Revoke, Answers
<1>3. ASSUME NEW s \in Requests PROVE Sound(s)'
  BY DEF IInv, TypeOK, Family, Request, Client, Chained, Position, Stored, Sound, Successor,
         Refreshing, Confirmed, Presents, Awaiting, Late, ForgottenMeansEnded, Live,
         Revoke, Answers
<1> QED
  BY <1>1, <1>2, <1>3 DEF IInv

(* Steps of no request.                                                    *)
LEMMA EnvironmentKeeps ==
    ASSUME IInv, Close \/ Reopen \/ DeletePlayer \/ GraceEnds \/ IdleEnds
    PROVE  IInv'
<1>1. TypeOK'
  BY DEF IInv, TypeOK, Family, Request, Client, Close, Reopen, DeletePlayer, GraceEnds, IdleEnds
<1>2. CASE Close \/ Reopen
  <2>1. Chained' /\ Position' /\ NoAccessOutlivesFamily' /\ ForgottenMeansEnded'
    BY <1>2 DEF IInv, TypeOK, Client, Chained, Position, Stored, NoAccessOutlivesFamily,
                ForgottenMeansEnded, Live, Close, Reopen
  <2>2. ASSUME NEW s \in Requests PROVE Sound(s)'
    BY <1>2 DEF IInv, TypeOK, Client, Stored, Sound, Successor, Refreshing, Confirmed,
                Presents, Awaiting, Late, Live, Close, Reopen
  <2> QED
    BY <1>1, <2>1, <2>2 DEF IInv
<1>3. CASE DeletePlayer \/ GraceEnds \/ IdleEnds
  <2>1. /\ family'.current = family.current /\ family'.previous = family.previous
        /\ Live' => Live /\ access' = access
        /\ ~Live' => access' = {}
        /\ family.graceOver => family'.graceOver
        /\ UNCHANGED <<req, client>>
    BY <1>3 DEF IInv, TypeOK, Family, NoAccessOutlivesFamily, Live, DeletePlayer,
           GraceEnds, IdleEnds
  <2>2. Chained' /\ Position' /\ NoAccessOutlivesFamily' /\ ForgottenMeansEnded'
    BY <2>1 DEF IInv, Chained, Position, Stored, NoAccessOutlivesFamily, ForgottenMeansEnded
  <2>3. ASSUME NEW s \in Requests PROVE Sound(s)'
    BY <2>1 DEF IInv, Stored, Sound, Successor, Refreshing, Confirmed, Presents, Awaiting, Late
  <2> QED
    BY <1>1, <2>2, <2>3 DEF IInv
<1> QED
  BY <1>2, <1>3

LEMMA StepKeeps == IInv /\ [Next]_vars => IInv'
<1> SUFFICES ASSUME IInv, [Next]_vars PROVE IInv'
  OBVIOUS
<1>1. ASSUME NEW r \in Requests, DeviceStep(r) PROVE IInv'
  BY <1>1, SendKeeps, DeliverKeeps, EndKeeps DEF DeviceStep
<1>2. ASSUME NEW r \in Requests, ServiceStep(r) PROVE IInv'
  BY <1>2, FindKeeps, ReadKeeps, ReadToRevokeKeeps, RotateKeeps, AddKeeps,
         RevokeKeeps DEF ServiceStep
<1>3. CASE Close \/ Reopen \/ DeletePlayer \/ GraceEnds \/ IdleEnds
  BY <1>3, EnvironmentKeeps
<1>4. CASE UNCHANGED vars
  <2>1. TypeOK' /\ Chained' /\ Position' /\ NoAccessOutlivesFamily' /\ ForgottenMeansEnded'
    BY <1>4 DEF IInv, TypeOK, Chained, Position, Stored, NoAccessOutlivesFamily,
                ForgottenMeansEnded, Live, vars
  <2>2. ASSUME NEW s \in Requests PROVE Sound(s)'
    BY <1>4 DEF IInv, Sound, Successor, Refreshing, Confirmed, Presents, Awaiting, Late,
                Stored, Live, vars
  <2> QED
    BY <2>1, <2>2 DEF IInv
<1> QED
  BY <1>1, <1>2, <1>3, <1>4 DEF Next

-----------------------------------------------------------------------------
(* The invariant the theorems below rest on.                               *)
THEOREM InvariantHolds == Spec => []IInv
<1>1. Init => IInv
  BY InitHolds
<1>2. IInv /\ [Next]_vars => IInv'
  BY StepKeeps
<1> QED
  BY <1>1, <1>2, PTL DEF Spec

(* Every variable keeps its type.                                          *)
THEOREM TypesHold == Spec => []TypeOK
<1>1. IInv => TypeOK
  BY DEF IInv
<1> QED
  BY <1>1, InvariantHolds, PTL

(* Requests that present one token are answered one successor, however     *)
(* many run and whatever order their statements take (refresh,             *)
(* identityService.ts).                                                    *)
THEOREM SameSuccessorHolds == Spec => []SameSuccessor
<1>1. IInv => SameSuccessor
  BY DEF IInv, SameSuccessor, Sound, Successor
<1> QED
  BY <1>1, InvariantHolds, PTL

(* The token a guest's device keeps is never more than one rotation behind *)
(* a living family (persist, guest-session.ts; rotate, d1Store.ts).        *)
THEOREM StoredTokenHolds == Spec => []StoredTokenWorks
<1>1. IInv => StoredTokenWorks
  BY DEF IInv, TypeOK, Family, Client, StoredTokenWorks, Position, Stored, Chained
<1> QED
  BY <1>1, InvariantHolds, PTL

(* Within the grace, a request the device waits for never ends the family  *)
(* as a replay (graceSuccessor, identityService.ts).                       *)
THEOREM AwaitedHolds == Spec => []AwaitedNeverReplays
<1>1. IInv => AwaitedNeverReplays
  BY DEF IInv, AwaitedNeverReplays, Sound, Late
<1> QED
  BY <1>1, InvariantHolds, PTL

(* A family that ended or was deleted has no access token, whatever had    *)
(* read it as live (addAccessToken and rotate against revokeFamily and     *)
(* deletePlayer, d1Store.ts).                                              *)
THEOREM NoAccessHolds == Spec => []NoAccessOutlivesFamily
<1>1. IInv => NoAccessOutlivesFamily
  BY DEF IInv
<1> QED
  BY <1>1, InvariantHolds, PTL

(* The device forgets its token only after the family ended (logout,       *)
(* guest-session.ts).                                                      *)
THEOREM ForgottenHolds == Spec => []ForgottenMeansEnded
<1>1. IInv => ForgottenMeansEnded
  BY DEF IInv
<1> QED
  BY <1>1, InvariantHolds, PTL

=============================================================================
