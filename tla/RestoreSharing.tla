--------------------------- MODULE RestoreSharing ---------------------------
(***************************************************************************)
(* One non-consumable purchase on a backend that shares verified restores  *)
(* (packages/game-services/src/server.ts, verifyPurchaseForRetry and       *)
(* shareRestoredPurchase): verify requests that write the purchase's first *)
(* grant or a share of it, against the store's refund of the purchase      *)
(* (app-store-server-notifications.ts) and admin revocations.              *)
(*                                                                         *)
(* Each request and each delivery runs in an isolate of its own, so only   *)
(* the ledger orders them: every statement is a step.  The module leaves   *)
(* accounts alone; RetainedPurchases adds their deletion.                  *)
(***************************************************************************)
EXTENDS GrantRevocation

CONSTANTS
    Requests,       \* verify requests (a resend under one key is another)
    RequestPlayer,  \* [Requests -> Players]
    RequestKey,     \* [Requests -> Keys]
    Restores,       \* the requests with intent "restore"
    Buyer,          \* the player the store binds the purchase to
    MaxHolders,     \* restoreSharing.maxHolders
    Attempts,       \* share attempts of one request (3 in the code)
    Finalizes,      \* whether a purchase grant finalizer answers this product
    Seeds,          \* the ledgers a behaviour may start from
    MaxAdmins,      \* bound: admin revocations
    MaxFaults,      \* bound: isolates lost between two statements
    MaxResends      \* bound: client retries and store redeliveries

Events == EventKeys

ASSUME RequestAssumption ==
    /\ Callers = Requests \cup Events
    /\ Requests \cap Events = {}
    /\ RequestPlayer \in [Requests -> Players]
    /\ RequestKey \in [Requests -> Keys]
    /\ Restores \subseteq Requests
    /\ Buyer \in Players
    /\ Players \cap Kept = {}
    /\ MaxHolders \in Nat \ {0}
    /\ Attempts \in Nat \ {0}
    /\ Finalizes \in BOOLEAN
    /\ MaxAdmins \in Nat /\ MaxFaults \in Nat /\ MaxResends \in Nat

(* A behaviour starts from an empty ledger or after the first grant.       *)
ASSUME SeedAssumption ==
    \A S \in Seeds : \/ S = {}
                     \/ \E p \in Players, k \in Keys :
                          S = {[player |-> p, key |-> k, slot |-> 0,
                                across |-> p # Buyer]}

VARIABLES
    refunded,  \* the store refunded the purchase
    req,       \* req[r]: where request r is and what it has read
    event,     \* event[e]: the delivery of store event e
    orphans,   \* history: slots whose writer was lost before its recheck
    admins, faults, resends

requestVars == <<refunded, req, event, orphans, admins, faults, resends>>

vars == <<ledgerVars, call, requestVars>>

RequestSteps ==
    {"idle", "lookup", "replay", "verify", "raced",
     "boundShares", "boundFirst", "evidence", "other", "ownReversed",
     "shares", "first", "reversed", "wide",
     "check", "insert", "back", "keyed", "keyedReversed",
     "reread", "ended", "prior", "closing", "done"}

Answers == {"none", "verified", "rejected", "refused", "pending", "error"}

Request == [at : RequestSteps,
            seen : SUBSET Grant,         \* holders read
            gone : SUBSET Ids,           \* reversed ids read with them
            mine : SUBSET Grant,         \* the row being written
            inserted : BOOLEAN,          \* the insert changed the table
            ended : SUBSET Revocation,   \* the purchase-wide entry found
            tries : 0..Attempts,
            answer : Answers]

(* A request that has read nothing yet, or has answered.                   *)
Blank(step, answer) == [at |-> step, seen |-> {}, gone |-> {}, mine |-> {},
                        inserted |-> FALSE, ended |-> {}, tries |-> 0,
                        answer |-> answer]

EventSteps == {"unsent", "sent", "findShare", "findLast", "called", "settled"}

Outcomes == {"none", "revoked", "ignored", "conflict"}

EventState == [at : EventSteps, outcome : Outcomes]

Init ==
    /\ grants \in Seeds
    /\ revocations = {}
    /\ tombstones = {}
    /\ CallInit
    /\ refunded = FALSE
    /\ req = [r \in Requests |-> Blank("idle", "none")]
    /\ event = [e \in Events |-> [at |-> "unsent", outcome |-> "none"]]
    /\ orphans = {}
    /\ admins = 0 /\ faults = 0 /\ resends = 0

-----------------------------------------------------------------------------
Goes(r, step) == req' = [req EXCEPT ![r].at = step]

Answer(r, a) == req' = [req EXCEPT ![r] = Blank("done", a)]

OnlyRequest == UNCHANGED <<ledgerVars, call, refunded, event, orphans,
                           admins, faults, resends>>

Own(r) == ByKey(RequestPlayer[r], RequestKey[r])

(* The row a request writes.  `across`: a first grant written for a player *)
(* the store did not bind the purchase to (restoredAcrossAccounts).        *)
Row(r, slot, across) == [player |-> RequestPlayer[r], key |-> RequestKey[r],
                         slot |-> slot, across |-> across]

(* Purchase-wide entries on some of the grants; `ended` is the foremost's. *)
WideOn(S) == {v \in RevocationsOf(IdsOf(S)) : v.reason = "refund"}

FirstEnding(S) ==
    LET ending == {g \in S : WideOn({g}) # {}}
    IN  WideOn(Foremost(ending))

(* A client sends the request, again after an error or a pending answer.   *)
Send(r) ==
    /\ req[r].at = "idle"
    /\ Goes(r, "lookup")
    /\ OnlyRequest

Resend(r) ==
    /\ req[r].at = "done" /\ req[r].answer \in {"pending", "error"}
    /\ resends < MaxResends
    /\ req' = [req EXCEPT ![r] = Blank("lookup", "none")]
    /\ resends' = resends + 1
    /\ UNCHANGED <<ledgerVars, call, refunded, event, orphans, admins, faults>>

(* Mutant: a refusal that met no grant of the key asks the store again. *)
LookupAsksAgain(r) ==
    /\ req[r].at \in {"lookup", "raced"}
    /\ Goes(r, IF Own(r) # {} THEN "replay" ELSE "verify")
    /\ OnlyRequest

(* The key's grant, before the verifier runs and after it refused.         *)
Lookup(r) ==
    /\ req[r].at \in {"lookup", "raced"}
    /\ IF Own(r) # {} THEN Goes(r, "replay")
       ELSE IF req[r].at = "lookup" THEN Goes(r, "verify")
       ELSE Answer(r, "refused")
    /\ OnlyRequest

Replay(r) ==
    /\ req[r].at = "replay"
    /\ Answer(r, IF ReversedIds({<<RequestPlayer[r], RequestKey[r]>>}) # {}
                 THEN "rejected" ELSE "verified")
    /\ OnlyRequest

(* The store refuses a refunded purchase, and another account's unless the *)
(* request is a restore; the decision is not taken again later.            *)
Verify(r) ==
    /\ req[r].at = "verify"
    /\ Goes(r, IF refunded THEN "raced"
               ELSE IF RequestPlayer[r] = Buyer THEN "boundShares"
               ELSE IF r \in Restores THEN "shares" ELSE "raced")
    /\ OnlyRequest

-----------------------------------------------------------------------------
(* The purchase bound to this player. *)

BoundReadShares(r) ==
    /\ req[r].at = "boundShares"
    /\ req' = [req EXCEPT ![r].at = "boundFirst", ![r].seen = SharesRead]
    /\ OnlyRequest

(* Shares without a first grant: the buyer takes a share of its own.       *)
BoundReadFirst(r) ==
    /\ req[r].at = "boundFirst"
    /\ Goes(r, IF FirstRead = {} /\ req[r].seen # {} THEN "shares" ELSE "evidence")
    /\ OnlyRequest

(* recordEntitlementGrantWithEvidence reads the evidence before it writes. *)
BoundEvidence(r) ==
    /\ req[r].at = "evidence"
    /\ req' = [req EXCEPT
         ![r].mine = {Row(r, 0, FALSE)},
         ![r].at = IF FirstRead = {} THEN "check"
                   ELSE IF FirstRead = Own(r) THEN "keyed" ELSE "other"]
    /\ OnlyRequest

(* Another grant names the purchase: another player's is shared, one of    *)
(* this player's own is reported unless it is reversed.                    *)
BoundOther(r) ==
    /\ req[r].at = "other"
    /\ IF FirstRead = {} THEN Answer(r, "refused")
       ELSE \E g \in FirstRead :
              IF g.player # RequestPlayer[r]
              THEN IF r \in Restores \/ g.across THEN Goes(r, "shares")
                                                 ELSE Answer(r, "refused")
              ELSE req' = [req EXCEPT ![r].at = "ownReversed", ![r].mine = {g}]
    /\ OnlyRequest

BoundOwnReversed(r) ==
    /\ req[r].at = "ownReversed"
    /\ Answer(r, IF ReversedIds(IdsOf(req[r].mine)) # {} THEN "rejected"
                 ELSE IF Finalizes THEN "verified" ELSE "refused")
    /\ OnlyRequest

-----------------------------------------------------------------------------
(* shareRestoredPurchase. *)

(* Mutant: slot conflicts are retried without a bound. *)
ShareReadSharesAgain(r) ==
    /\ req[r].at = "shares"
    /\ req' = [req EXCEPT ![r].at = "first", ![r].seen = SharesRead]
    /\ OnlyRequest

ShareReadShares(r) ==
    /\ req[r].at = "shares"
    /\ IF req[r].tries = Attempts THEN Answer(r, "pending")
       ELSE req' = [req EXCEPT ![r].at = "first", ![r].seen = SharesRead]
    /\ OnlyRequest

(* A purchase no grant holds is granted as its first grant.                *)
ShareReadFirst(r) ==
    /\ req[r].at = "first"
    /\ LET holders == req[r].seen \cup FirstRead
       IN  req' = [req EXCEPT
             ![r].seen = holders,
             ![r].at = IF holders = {} THEN "check" ELSE "reversed",
             ![r].mine = IF holders = {} THEN {Row(r, 0, TRUE)} ELSE {}]
    /\ OnlyRequest

ShareReadReversed(r) ==
    /\ req[r].at = "reversed"
    /\ req' = [req EXCEPT ![r].at = "wide",
                          ![r].gone = ReversedIds(IdsOf(req[r].seen))]
    /\ OnlyRequest

(* Mutant: a player's own grant is not looked for. *)
ShareDecideAnew(r) ==
    /\ req[r].at = "wide"
    /\ LET holders == req[r].seen
           gone == req[r].gone
           active == {g \in holders : IdOf(g) \notin gone /\ ~IsKept(g)}
           slot == NextSlot({g \in holders : g.slot > 0})
       IN  IF WideOn(holders) # {} \/ IdsOf(holders) \subseteq gone
           THEN Answer(r, "rejected")
           ELSE IF Cardinality(active) >= MaxHolders THEN Answer(r, "pending")
           ELSE req' = [req EXCEPT ![r].at = "check",
                                   ![r].mine = {Row(r, slot, FALSE)}]
    /\ OnlyRequest

(* The purchase ended; or this player already holds it; or the limit; or   *)
(* the next slot.                                                          *)
ShareDecide(r) ==
    /\ req[r].at = "wide"
    /\ LET holders == req[r].seen
           gone == req[r].gone
           own == {g \in holders : g.player = RequestPlayer[r]}
           active == {g \in holders : IdOf(g) \notin gone /\ ~IsKept(g)}
           slot == NextSlot({g \in holders : g.slot > 0})
       IN  CASE WideOn(holders) # {} \/ IdsOf(holders) \subseteq gone ->
                  Answer(r, "rejected")
             [] OTHER ->
                  IF own # {}
                  THEN Answer(r, IF \E g \in Foremost(own) : IdOf(g) \in gone
                                 THEN "rejected" ELSE "verified")
                  ELSE IF Cardinality(active) >= MaxHolders
                  THEN Answer(r, "pending")
                  ELSE req' = [req EXCEPT ![r].at = "check",
                                          ![r].mine = {Row(r, slot, FALSE)}]
    /\ OnlyRequest

-----------------------------------------------------------------------------
(* recordEntitlementGrant, behind the deletion tombstone's check.          *)

CheckTombstone(r) ==
    /\ req[r].at = "check"
    /\ IF RequestPlayer[r] \in tombstones THEN Answer(r, "error")
                                          ELSE Goes(r, "insert")
    /\ OnlyRequest

(* Mutant: the slot is chosen when the row is written. *)
InsertAtFreeSlot(r) ==
    /\ req[r].at = "insert"
    /\ \E g \in req[r].mine :
         LET row == IF g.slot = 0 THEN g
                    ELSE [g EXCEPT !.slot = NextSlot(SharesRead)]
         IN  /\ InsertGrant(row)
             /\ req' = [req EXCEPT ![r].at = "back",
                                   ![r].inserted = GrantInserts(row)]
    /\ UNCHANGED <<revocations, tombstones, call, refunded, event, orphans,
                   admins, faults, resends>>

Insert(r) ==
    /\ req[r].at = "insert"
    /\ \E g \in req[r].mine :
         /\ InsertGrant(g)
         /\ req' = [req EXCEPT ![r].at = "back",
                               ![r].inserted = GrantInserts(g)]
    /\ UNCHANGED <<revocations, tombstones, call, refunded, event, orphans,
                   admins, faults, resends>>

(* Mutant: a row another writer's evidence kept out counts as written. *)
InsertBackIgnored(r) ==
    /\ req[r].at = "back"
    /\ \E g \in req[r].mine :
         IF Own(r) # {} /\ ~req[r].inserted THEN Goes(r, "keyed")
         ELSE IF Own(r) # {} /\ g.slot > 0 THEN Goes(r, "reread")
         ELSE Answer(r, "verified")
    /\ OnlyRequest

(* The key's row is read back; without one, the evidence went to another   *)
(* writer and the request reads again.                                     *)
InsertBack(r) ==
    /\ req[r].at = "back"
    /\ \E g \in req[r].mine :
         LET bound == g.slot = 0 /\ ~g.across
         IN  IF Own(r) = {}
             THEN IF AtSlot(g.slot) = {} THEN Answer(r, "error")
                  ELSE IF bound THEN Goes(r, "other")
                  ELSE req' = [req EXCEPT ![r].at = "shares", ![r].mine = {},
                                          ![r].gone = {}, ![r].seen = {},
                                          ![r].tries = @ + 1]
             ELSE IF ~req[r].inserted THEN Goes(r, "keyed")
             ELSE IF g.slot > 0 THEN Goes(r, "reread")
             ELSE Answer(r, "verified")
    /\ OnlyRequest

(* The key already held a grant: it must be this purchase's.               *)
Keyed(r) ==
    /\ req[r].at = "keyed"
    /\ \E g \in req[r].mine :
         IF Own(r) = {} THEN Answer(r, "refused")
         ELSE IF g.slot = 0 /\ g.across THEN Goes(r, "keyedReversed")
         ELSE IF g.slot = 0 /\ Own(r) \cap AtSlot(0) = {} THEN Answer(r, "refused")
         ELSE Answer(r, "verified")
    /\ OnlyRequest

KeyedReversed(r) ==
    /\ req[r].at = "keyedReversed"
    /\ Answer(r, IF ReversedIds({<<RequestPlayer[r], RequestKey[r]>>}) # {}
                 THEN "rejected" ELSE "verified")
    /\ OnlyRequest

-----------------------------------------------------------------------------
(* The recheck after a share was written. *)

Reread(r) ==
    /\ req[r].at = "reread"
    /\ req' = [req EXCEPT ![r].at = "ended", ![r].mine = Own(r)]
    /\ OnlyRequest

ReadEnded(r) ==
    /\ req[r].at = "ended"
    /\ req' = [req EXCEPT ![r].at = "prior",
                          ![r].ended = FirstEnding(req[r].seen \cup req[r].mine)]
    /\ OnlyRequest

(* The entry the share is closed with: derived from the store event's, or  *)
(* an admin entry of its own when no holder keeps the purchase.            *)
Closing(r, g) ==
    IF req[r].ended = {}
    THEN [of |-> IdOf(g), player |-> g.player, key |-> ClosedKey,
          by |-> ClosedKey, reason |-> "admin", ev |-> {}]
    ELSE HolderEntry(CHOOSE v \in req[r].ended : TRUE, g)

(* Mutant: the share is answered without the recheck. *)
DecideWithoutRecheck(r) ==
    /\ req[r].at = "prior"
    /\ Answer(r, "verified")
    /\ UNCHANGED <<ledgerVars, call, refunded, event, orphans, admins, faults, resends>>

DecidePrior(r) ==
    /\ req[r].at = "prior"
    /\ LET abandoned == IdsOf(req[r].seen) \subseteq ReversedIds(IdsOf(req[r].seen))
           ended == req[r].ended
       IN  IF ended = {} /\ ~abandoned
           THEN Answer(r, "verified") /\ UNCHANGED call
           ELSE IF \A g \in req[r].mine : \E v \in ended : v.of = IdOf(g)
           THEN Answer(r, "rejected") /\ UNCHANGED call
           ELSE \E g \in req[r].mine :
                  /\ call' = [call EXCEPT ![r] = CalledWith(Closing(r, g))]
                  /\ Goes(r, "closing")
    /\ UNCHANGED <<ledgerVars, refunded, event, orphans, admins, faults, resends>>

(* An error of the close is the request's: the share stays until a resend. *)
Closed(r) ==
    /\ req[r].at = "closing" /\ call[r].at = "end"
    /\ call' = [call EXCEPT ![r] = IdleCall]
    /\ IF call[r].result = "throw"
       THEN /\ Answer(r, "error")
            /\ orphans' = orphans \cup {g.slot : g \in req[r].mine}
       ELSE Answer(r, "rejected") /\ UNCHANGED orphans
    /\ UNCHANGED <<ledgerVars, refunded, event, admins, faults, resends>>

-----------------------------------------------------------------------------
(* The store's refund and its delivery (handleAppStoreServerNotification). *)

EventGoes(e, step) == event' = [event EXCEPT ![e].at = step]

StoreRefunds(e) ==
    /\ event[e].at = "unsent"
    /\ refunded' = TRUE
    /\ EventGoes(e, "sent")
    /\ UNCHANGED <<ledgerVars, call, req, orphans, admins, faults, resends>>

(* The entry a delivery asks for: keyed by the event, on the grant found.  *)
EventEntry(e, g) == [of |-> IdOf(g), player |-> g.player, key |-> e,
                     by |-> e, reason |-> "refund", ev |-> {<<>>}]

EventCalls(e, g) ==
    /\ call' = [call EXCEPT ![e] = CalledWith(EventEntry(e, g))]
    /\ EventGoes(e, "called")

Quiet == \A r \in Requests : req[r].at \in {"idle", "done"}

(* findPurchaseGrantByEvidenceVerificationId: the first grant, or the      *)
(* foremost share when the first grant is gone.  An event no grant matches *)
(* is redelivered; the delivery that gives up (an hour after the refund)    *)
(* starts when the requests it overlapped are long done.                   *)
EventFindFirst(e) ==
    /\ event[e].at = "sent"
    /\ \/ FirstRead = {} /\ EventGoes(e, "findShare") /\ UNCHANGED call
       \/ FirstRead = {} /\ Quiet /\ EventGoes(e, "findLast") /\ UNCHANGED call
       \/ \E g \in FirstRead : EventCalls(e, g)
    /\ UNCHANGED <<ledgerVars, refunded, req, orphans, admins, faults, resends>>

(* Mutant: an unmatched event is acknowledged at once. *)
EventGivesUp(e) ==
    /\ event[e].at \in {"findShare", "findLast"}
    /\ \/ \E g \in Foremost(SharesRead) : EventCalls(e, g)
       \/ /\ SharesRead = {}
          /\ event' = [event EXCEPT ![e] = [at |-> "settled", outcome |-> "ignored"]]
          /\ UNCHANGED call
    /\ UNCHANGED <<ledgerVars, refunded, req, orphans, admins, faults, resends>>

EventFindShare(e) ==
    /\ event[e].at \in {"findShare", "findLast"}
    /\ \/ \E g \in Foremost(SharesRead) : EventCalls(e, g)
       \/ /\ SharesRead = {}
          /\ event' = [event EXCEPT ![e] =
               IF event[e].at = "findLast" THEN [at |-> "settled", outcome |-> "ignored"]
                                           ELSE [at |-> "sent", outcome |-> "none"]]
          /\ UNCHANGED call
    /\ UNCHANGED <<ledgerVars, refunded, req, orphans, admins, faults, resends>>

OutcomeOf(result) ==
    CASE result = "revoked" -> "revoked"
      [] result \in {"key_conflict", "evidence_already_processed"} -> "conflict"
      [] OTHER -> "ignored"

(* A thrown error is no outcome: the handler answers 5xx and the store     *)
(* redelivers.                                                             *)
EventSettles(e) ==
    /\ event[e].at = "called" /\ call[e].at = "end"
    /\ event' = [event EXCEPT ![e] =
         IF call[e].result = "throw"
         THEN [at |-> "sent", outcome |-> "none"]
         ELSE [at |-> "settled", outcome |-> OutcomeOf(call[e].result)]]
    /\ call' = [call EXCEPT ![e] = IdleCall]
    /\ UNCHANGED <<ledgerVars, refunded, req, orphans, admins, faults, resends>>

(* At-least-once delivery repeats an event the handler settled.            *)
Redeliver(e) ==
    /\ event[e].at = "settled"
    /\ resends < MaxResends
    /\ resends' = resends + 1
    /\ event' = [event EXCEPT ![e] = [at |-> "sent", outcome |-> "none"]]
    /\ UNCHANGED <<ledgerVars, call, refunded, req, orphans, admins, faults>>

(* A support tool's revocation of one holder.                              *)
AdminRevokes(g) ==
    /\ admins < MaxAdmins
    /\ ~IsKept(g) /\ ~Reversed(g)
    /\ InsertRevocation([of |-> IdOf(g), player |-> g.player, key |-> AdminKey,
                         by |-> AdminKey, reason |-> "admin", ev |-> {}])
    /\ admins' = admins + 1
    /\ UNCHANGED <<grants, tombstones, call, refunded, req, event, orphans,
                   faults, resends>>

-----------------------------------------------------------------------------
(* An isolate is lost, or a statement fails: a request answers an error, a *)
(* delivery is sent again.                                                 *)
Rechecking == {"back", "reread", "ended", "prior", "closing"}

LoseRequest(r) ==
    /\ faults < MaxFaults
    /\ req[r].at \notin {"idle", "done"}
    /\ Answer(r, "error")
    /\ call' = [call EXCEPT ![r] = IdleCall]
    /\ orphans' = IF req[r].at \in Rechecking /\ req[r].inserted
                  THEN orphans \cup {g.slot : g \in req[r].mine} ELSE orphans
    /\ faults' = faults + 1
    /\ UNCHANGED <<ledgerVars, refunded, event, admins, resends>>

LoseDelivery(e) ==
    /\ faults < MaxFaults
    /\ event[e].at \in {"findShare", "findLast", "called"}
    /\ EventGoes(e, "sent")
    /\ call' = [call EXCEPT ![e] = IdleCall]
    /\ faults' = faults + 1
    /\ UNCHANGED <<ledgerVars, refunded, req, orphans, admins, resends>>

-----------------------------------------------------------------------------
RequestStep(r) ==
    \/ Lookup(r)          \/ Replay(r)           \/ Verify(r)
    \/ BoundReadShares(r) \/ BoundReadFirst(r)   \/ BoundEvidence(r)
    \/ BoundOther(r)      \/ BoundOwnReversed(r)
    \/ ShareReadShares(r) \/ ShareReadFirst(r)   \/ ShareReadReversed(r)
    \/ ShareDecide(r)     \/ CheckTombstone(r)   \/ Insert(r)
    \/ InsertBack(r)      \/ Keyed(r)            \/ KeyedReversed(r)
    \/ Reread(r)          \/ ReadEnded(r)        \/ DecidePrior(r)
    \/ Closed(r)

EventStep(e) == EventFindFirst(e) \/ EventFindShare(e) \/ EventSettles(e)

RevocationStep(c) == CallStep(c) /\ UNCHANGED requestVars

Next ==
    \/ \E r \in Requests : Send(r) \/ Resend(r) \/ RequestStep(r) \/ LoseRequest(r)
    \/ \E e \in Events : StoreRefunds(e) \/ EventStep(e) \/ Redeliver(e) \/ LoseDelivery(e)
    \/ \E c \in Callers : RevocationStep(c)
    \/ \E g \in grants : AdminRevokes(g)

Spec == Init /\ [][Next]_vars

(* The store redelivers until it is answered, D1 answers every statement,   *)
(* and an isolate runs its handler to the end.  Clients, refunds, admins and *)
(* faults owe nothing.                                                      *)
FairSpec ==
    /\ Spec
    /\ \A r \in Requests : WF_vars(RequestStep(r))
    /\ \A e \in Events : WF_vars(EventStep(e))
    /\ \A c \in Callers : WF_vars(RevocationStep(c))

-----------------------------------------------------------------------------
(* The types of the tables, the handlers' locals and the bounds. *)
TypeOK ==
    /\ LedgerTypeOK
    /\ CallTypeOK
    /\ refunded \in BOOLEAN
    /\ req \in [Requests -> Request]
    /\ event \in [Events -> EventState]
    /\ orphans \subseteq Nat
    /\ admins \in 0..MaxAdmins /\ faults \in 0..MaxFaults
    /\ resends \in 0..MaxResends

Active == {g \in grants : ~Reversed(g) /\ ~IsKept(g)}

(* At most maxHolders players hold the purchase at any time, however the    *)
(* restores of different isolates interleave: the holder count read before  *)
(* the write is still the one the write lands on (server.ts, the cap check  *)
(* of shareRestoredPurchase and the slot it then writes).                   *)
HolderLimit == Cardinality(Active) <= MaxHolders

(* A player gets its grant back instead of a second one, under any key and  *)
(* on the bound path as on the restore path.                                *)
OneGrantPerPlayer ==
    \A g, h \in grants : (~IsKept(g) /\ g.player = h.player) => g = h

(* A request answered verified names a grant of its player on the ledger:   *)
(* no lost race for a key, a slot or the first grant is answered as a       *)
(* purchase nobody recorded.                                                *)
VerifiedIsRecorded ==
    \A r \in Requests :
        req[r].answer = "verified" => \E g \in grants : g.player = RequestPlayer[r]

(* The writer of a share has not decided yet whether the share may stay, or *)
(* was lost before it could.                                                *)
Undecided(g) ==
    /\ g.slot > 0
    /\ \/ g.slot \in orphans
       \/ \E r \in Requests : /\ req[r].at \in Rechecking /\ req[r].inserted
                              /\ IdOf(g) = <<RequestPlayer[r], RequestKey[r]>>

(* A purchase-wide entry of event e: filed by it or derived from one it     *)
(* filed.  A kept entry has a fresh key, but its payload still names e.     *)
LeftEntry(e) == \E v \in WideOn(grants) : v.by = e

(* Once a store event reported the purchase revoked, no grant outlives it: *)
(* not one written before the fan-out, during it, or after it by a restore *)
(* that read the ledger earlier.  "A refund writes its first entry before  *)
(* it reads the holders, so either it sees this share or this read sees    *)
(* its entry" (server.ts 2034).  An event that met only grants the support *)
(* tool or another event had ended leaves no entry, and promises nothing.  *)
RefundEndsEveryHolder ==
    \A e \in Events : event[e].outcome = "revoked" /\ LeftEntry(e) =>
        \A g \in grants : Reversed(g) \/ Undecided(g)

(* "A refund that met only admin-revoked grants leaves no entry of its own; *)
(* the share then ends with them, as a purchase no holder keeps is never    *)
(* shared again" (server.ts 2036): the same whoever revoked the grants the  *)
(* event met.                                                               *)
PurchaseNobodyKeepsStaysEnded ==
    \A e \in Events :
        event[e].outcome = "revoked" => \A g \in grants : Reversed(g) \/ Undecided(g)

(* An event the handler acknowledges without reporting a revocation leaves *)
(* no holder behind: "None of them is worth Apple's retry"                 *)
(* (app-store-server-notifications.ts 368), and "a replay finishes a        *)
(* fan-out an earlier attempt left part-way" (GAME_SERVICES_BACKEND.md 608). *)
AcknowledgedEventsMissNothing ==
    \A e \in Events :
        event[e].at = "settled" /\ event[e].outcome # "revoked" =>
            \A g \in Active : Undecided(g)

(* Every request a client sends is answered: one whose key another isolate *)
(* writes under at the same time, one refused by the store, and one that    *)
(* has a share to close again (verifyPurchaseForRetry has no loop without a *)
(* bound, and a close's fan-out ends).                                      *)
RequestsAnswered == []<>(\A r \in Requests : req[r].at \in {"idle", "done"})

(* Once the purchase is refunded, the redeliveries end with every grant      *)
(* reversed or orphaned, and no restore in flight opens one again.  Only     *)
(* where the refund met nothing but grants the support tool had revoked, it  *)
(* "leaves no entry of its own" (server.ts 2036) to hold a later share back. *)
RefundTakesHold ==
    <>[](refunded => \A g \in grants : \/ Reversed(g) \/ g.slot \in orphans
                                       \/ (admins > 0 /\ WideOn(grants) = {}))

=============================================================================
