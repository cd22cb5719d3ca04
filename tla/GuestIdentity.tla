---------------------------- MODULE GuestIdentity ----------------------------
(***************************************************************************)
(* The session family of one guest: the identity service that rotates its  *)
(* refresh token (apps/game-identity-worker/src/identityService.ts over    *)
(* d1Store.ts) and the coordinator on the guest's device that presents it  *)
(* (packages/game-services/src/guest-session.ts).                          *)
(*                                                                         *)
(* The coordinator runs one operation at a time, but a request it gave up  *)
(* on, or that a killed app left behind, still runs at the service.  Every *)
(* D1 statement of a request is a step.  Each rotation derives the next    *)
(* token from the one it replaces, so a family's tokens are numbered.      *)
(***************************************************************************)
EXTENDS Integers

CONSTANTS
    Requests,    \* the requests the device may send
    RetryGrace   \* whether refreshRetryGraceMs is positive

ASSUME GraceAssumption == RetryGrace \in BOOLEAN

NoToken == -1
Tokens == Nat

VARIABLES
    family,   \* the family's row, and the clock against its deadlines
    access,   \* access token rows, by the request that was answered them
    req,      \* req[r]: where request r is and what it has read
    client    \* the coordinator and the device's secure storage

vars == <<family, access, req, client>>

EndReasons == {"no", "logout", "refresh-token-reuse"}

Family == [current : Tokens,
           previous : Tokens \cup {NoToken},
           graceOver : BOOLEAN,    \* refreshRetryGraceMs passed since rotatedAt
           expired : BOOLEAN,      \* refreshIdleMs passed since then
           ended : EndReasons,     \* revoke_reason
           gone : BOOLEAN]         \* the player was deleted

RequestSteps == {"unsent", "find", "family", "rotate", "add", "revoke", "answered"}

Request == [at : RequestSteps,
            kind : {"refresh", "revoke"},
            token : Tokens,                  \* the token presented
            seen : Tokens,                   \* the current token of the family read
            round : 0..1,
            raced : BOOLEAN,
            answer : {"none", "ok", "rejected", "unavailable", "revoked"},
            next : Tokens \cup {NoToken}]    \* the successor answered

Client == [status : {"idle", "active", "failed", "closed"},
           held : Tokens \cup {NoToken},     \* current.refreshToken
           stored : Tokens \cup {NoToken},   \* secure storage
           awaits : SUBSET Requests]         \* the request in flight

Asked(kind, token, step) == [at |-> step, kind |-> kind, token |-> token, seen |-> 0,
                             round |-> 0, raced |-> FALSE,
                             answer |-> "none", next |-> NoToken]

(* The guest was issued and its first token saved; the app starts again.   *)
Init ==
    /\ family = [current |-> 0, previous |-> NoToken, graceOver |-> ~RetryGrace,
                 expired |-> FALSE, ended |-> "no", gone |-> FALSE]
    /\ access = {}
    /\ req = [r \in Requests |-> Asked("refresh", 0, "unsent")]
    /\ client = [status |-> "idle", held |-> NoToken, stored |-> 0,
                 awaits |-> {}]

Live == family.ended = "no" /\ ~family.gone

-----------------------------------------------------------------------------
(* The device. *)

Sends(r, kind, token) ==
    /\ client.awaits = {}
    /\ req[r].at = "unsent"
    /\ token # NoToken
    /\ req' = [req EXCEPT ![r] = Asked(kind, token, "find")]
    /\ client' = [client EXCEPT !.awaits = {r}]
    /\ UNCHANGED <<family, access>>

(* start() with a stored token; without one it issues another guest.       *)
Start(r) == client.status = "idle" /\ Sends(r, "refresh", client.stored)

Refresh(r) == client.status = "active" /\ Sends(r, "refresh", client.held)

(* logout() closes at once; its revoke waits for the operation in flight,  *)
(* and may be called again when it fails.                                  *)
Close ==
    /\ client.status # "closed"
    /\ client' = [client EXCEPT !.status = "closed"]
    /\ UNCHANGED <<family, access, req>>

Logout(r) ==
    /\ client.status = "closed"
    /\ Sends(r, "revoke", IF client.held # NoToken THEN client.held ELSE client.stored)

(* The operation in flight ended with an answer.                           *)
Delivers(r, kind, answer) ==
    /\ r \in client.awaits
    /\ req[r].at = "answered" /\ req[r].kind = kind /\ req[r].answer = answer
    /\ UNCHANGED <<family, access, req>>

Becomes(status) == IF client.status = "closed" THEN "closed" ELSE status

(* The successor is saved before the session is active.                    *)
Saved(r) ==
    /\ Delivers(r, "refresh", "ok")
    /\ client' = [status |-> Becomes("active"), held |-> req[r].next,
                  stored |-> req[r].next, awaits |-> {}]

(* A store that fails may have kept either token.                          *)
SaveFails(r) ==
    /\ Delivers(r, "refresh", "ok")
    /\ \E kept \in {client.stored, req[r].next} :
         client' = [status |-> Becomes("failed"), held |-> req[r].next,
                    stored |-> kept, awaits |-> {}]

Refused(r) ==
    /\ Delivers(r, "refresh", "rejected")
    /\ client' = [client EXCEPT !.status = Becomes("failed"), !.awaits = {}]

Unavailable(r) ==
    /\ Delivers(r, "refresh", "unavailable")
    /\ client' = [client EXCEPT !.awaits = {}]

(* The token is removed once the service has answered.                     *)
Forgets(r) ==
    /\ Delivers(r, "revoke", "revoked")
    /\ client' = [client EXCEPT !.held = NoToken, !.stored = NoToken,
                                !.awaits = {}]

(* A removal that fails may have removed it; the coordinator keeps its own *)
(* copy and the logout can be tried again.                                 *)
RemoveFails(r) ==
    /\ Delivers(r, "revoke", "revoked")
    /\ \E kept \in {client.stored, NoToken} :
         client' = [client EXCEPT !.stored = kept, !.awaits = {}]

(* No answer arrives in time, or none that can be read: the operation      *)
(* fails, and the request runs on.                                         *)
GiveUp(r) ==
    /\ r \in client.awaits
    /\ client' = [client EXCEPT !.awaits = {}]
    /\ UNCHANGED <<family, access, req>>

(* The app is killed and opened again.                                     *)
Reopen ==
    /\ client' = [client EXCEPT !.status = "idle", !.held = NoToken,
                                !.awaits = {}]
    /\ UNCHANGED <<family, access, req>>

-----------------------------------------------------------------------------
(* The service. *)

Answers(r, answer, next) ==
    req' = [req EXCEPT ![r].at = "answered", ![r].answer = answer, ![r].next = next]

Goes(r, step) == req' = [req EXCEPT ![r].at = step]

FindToken(r) ==
    /\ req[r].at = "find"
    /\ IF family.gone
       THEN Answers(r, IF req[r].kind = "refresh" THEN "rejected" ELSE "revoked", NoToken)
       ELSE Goes(r, "family")
    /\ UNCHANGED <<family, access, client>>

(* graceSuccessor: the token the latest rotation replaced, in time.        *)
InGrace(token) == ~family.graceOver /\ family.previous = token

ReadFamily(r) ==
    /\ req[r].at = "family" /\ req[r].kind = "refresh"
    /\ IF ~Live \/ family.expired THEN Answers(r, "rejected", NoToken)
       ELSE IF family.current = req[r].token THEN Goes(r, "rotate")
       ELSE IF InGrace(req[r].token)
       THEN req' = [req EXCEPT ![r].at = "add", ![r].seen = family.current]
       ELSE IF req[r].raced THEN Answers(r, "unavailable", NoToken)
       ELSE Goes(r, "revoke")
    /\ UNCHANGED <<family, access, client>>

(* Mutant: only the current token logs out. *)
ReadFamilyOfCurrent(r) ==
    /\ req[r].at = "family" /\ req[r].kind = "revoke"
    /\ IF family.gone \/ family.current # req[r].token
       THEN Answers(r, "revoked", NoToken) ELSE Goes(r, "revoke")
    /\ UNCHANGED <<family, access, client>>

(* Any token ever issued in the family logs it out.                        *)
ReadFamilyToRevoke(r) ==
    /\ req[r].at = "family" /\ req[r].kind = "revoke"
    /\ IF family.gone THEN Answers(r, "revoked", NoToken) ELSE Goes(r, "revoke")
    /\ UNCHANGED <<family, access, client>>

(* Mutant: a lost swap reads again every time.                             *)
RacedAgain(r) ==
    req' = [req EXCEPT ![r].at = "family", ![r].round = @ + 1, ![r].raced = TRUE]

(* A lost swap reads again once.                                           *)
Raced(r) ==
    IF req[r].round = 1 THEN Answers(r, "unavailable", NoToken)
    ELSE req' = [req EXCEPT ![r].at = "family", ![r].round = 1, ![r].raced = TRUE]

Rotated(current, previous) ==
    family' = [family EXCEPT !.current = current, !.previous = previous,
                             !.graceOver = ~RetryGrace, !.expired = FALSE]

(* Mutants: the swap does not compare; the replaced token is forgotten.    *)
RotateBlind(r) ==
    /\ req[r].at = "rotate"
    /\ IF Live
       THEN /\ Rotated(family.current + 1, req[r].token)
            /\ access' = access \cup {r}
            /\ Answers(r, "ok", family.current + 1)
       ELSE Raced(r) /\ UNCHANGED <<family, access>>
    /\ UNCHANGED client

RotateForgets(r) ==
    /\ req[r].at = "rotate"
    /\ IF Live /\ family.current = req[r].token
       THEN /\ Rotated(family.current + 1, family.previous)
            /\ access' = access \cup {r}
            /\ Answers(r, "ok", family.current + 1)
       ELSE Raced(r) /\ UNCHANGED <<family, access>>
    /\ UNCHANGED client

(* The swap and the rows it adds, one batch.                               *)
Rotate(r) ==
    /\ req[r].at = "rotate"
    /\ IF Live /\ family.current = req[r].token
       THEN /\ Rotated(family.current + 1, req[r].token)
            /\ access' = access \cup {r}
            /\ Answers(r, "ok", family.current + 1)
       ELSE Raced(r) /\ UNCHANGED <<family, access>>
    /\ UNCHANGED client

(* Mutants: the row is added to an ended family; a retry rotates again.    *)
AddAccessUnchecked(r) ==
    /\ req[r].at = "add"
    /\ IF ~family.gone /\ family.current = req[r].seen
       THEN access' = access \cup {r} /\ Answers(r, "ok", req[r].seen)
       ELSE Raced(r) /\ UNCHANGED access
    /\ UNCHANGED <<family, client>>

AddAccessRotates(r) ==
    /\ req[r].at = "add"
    /\ IF Live /\ family.current = req[r].seen
       THEN /\ Rotated(family.current + 1, family.current)
            /\ access' = access \cup {r}
            /\ Answers(r, "ok", family.current + 1)
       ELSE Raced(r) /\ UNCHANGED <<family, access>>
    /\ UNCHANGED client

(* The successor answered again, with an access token of its own.          *)
AddAccess(r) ==
    /\ req[r].at = "add"
    /\ IF Live /\ family.current = req[r].seen
       THEN access' = access \cup {r} /\ Answers(r, "ok", req[r].seen)
       ELSE Raced(r) /\ UNCHANGED access
    /\ UNCHANGED <<family, client>>

(* revokeFamily keeps the first reason.                                    *)
Revoke(r) ==
    /\ req[r].at = "revoke"
    /\ LET reason == IF req[r].kind = "refresh" THEN "refresh-token-reuse" ELSE "logout"
       IN  family' = IF Live THEN [family EXCEPT !.ended = reason] ELSE family
    /\ access' = {}
    /\ Answers(r, IF req[r].kind = "refresh" THEN "rejected" ELSE "revoked", NoToken)
    /\ UNCHANGED client

(* deletePlayer, called by account deletion: every row goes.               *)
DeletePlayer ==
    /\ ~family.gone
    /\ family' = [family EXCEPT !.gone = TRUE]
    /\ access' = {}
    /\ UNCHANGED <<req, client>>

(* The clock. *)
GraceEnds ==
    /\ ~family.graceOver /\ family.previous # NoToken
    /\ family' = [family EXCEPT !.graceOver = TRUE]
    /\ UNCHANGED <<access, req, client>>

(* The grace is shorter than the inactivity window.                        *)
IdleEnds ==
    /\ ~family.expired
    /\ family.graceOver \/ family.previous = NoToken
    /\ family' = [family EXCEPT !.expired = TRUE]
    /\ UNCHANGED <<access, req, client>>

-----------------------------------------------------------------------------
DeviceStep(r) ==
    \/ Start(r)   \/ Refresh(r) \/ Logout(r)
    \/ Saved(r)   \/ SaveFails(r) \/ Refused(r) \/ Unavailable(r)
    \/ Forgets(r) \/ RemoveFails(r) \/ GiveUp(r)

ServiceStep(r) ==
    \/ FindToken(r) \/ ReadFamily(r) \/ ReadFamilyToRevoke(r)
    \/ Rotate(r)    \/ AddAccess(r)  \/ Revoke(r)

Next ==
    \/ \E r \in Requests : DeviceStep(r) \/ ServiceStep(r)
    \/ Close \/ Reopen
    \/ DeletePlayer \/ GraceEnds \/ IdleEnds

Spec == Init /\ [][Next]_vars

-----------------------------------------------------------------------------
(* The types of the family's row, the requests' locals and the device.     *)
TypeOK ==
    /\ family \in Family
    /\ access \subseteq Requests
    /\ req \in [Requests -> Request]
    /\ client \in Client

(* Two requests that present one token are answered the same successor,    *)
(* however their rounds interleave: "no answer ever invalidates another"   *)
(* (identityService.ts 294).                                               *)
SameSuccessor ==
    \A r, s \in Requests :
        /\ req[r].answer = "ok" /\ req[s].answer = "ok"
        /\ req[r].token = req[s].token
        => req[r].next = req[s].next

(* While the family lives, the token on the device is its current one or   *)
(* the one the latest rotation replaced, whatever answers were lost, saves *)
(* failed or requests were abandoned: within the grace, refresh answers it *)
(* (graceSuccessor), and the guest keeps its account.                      *)
StoredTokenWorks ==
    Live /\ client.stored # NoToken =>
        client.stored \in {family.current, family.previous}

(* A request the device still waits for never reads as a replay within the *)
(* grace: only a late request it had abandoned can end the family as one.  *)
AwaitedNeverReplays ==
    \A r \in Requests :
        r \in client.awaits /\ req[r].at = "revoke" /\ req[r].kind = "refresh"
        => family.graceOver \/ ~Live

(* An ended or deleted family keeps no access token, also when a refresh   *)
(* had read it as live before ("nothing comes back", d1Store.ts 200).      *)
NoAccessOutlivesFamily == ~Live => access = {}

(* The device forgets its token only when the family has ended: a logout   *)
(* whose revoke was not confirmed, or that raced a rotation, leaves no     *)
(* live session behind that nobody can end.                                *)
ForgottenMeansEnded == client.stored = NoToken => ~Live

=============================================================================
