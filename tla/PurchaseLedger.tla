--------------------------- MODULE PurchaseLedger ---------------------------
(***************************************************************************)
(* The entitlement ledger rows of ONE store purchase of a non-consumable,  *)
(* as the D1 store keeps them (apps/game-services-worker/src/d1Store.ts):  *)
(* the grants that hold the purchase, the revocations that reverse them,   *)
(* and the deletion tombstones.  Every operator here is one SQL statement, *)
(* which D1 runs atomically; what happens between two statements is left   *)
(* to the modules that use them.                                           *)
(*                                                                         *)
(* A grant's evidence id is abstracted to its slot: slot 0 is the purchase *)
(* verification id itself (the first grant), slot n is the n-th holder id  *)
(* `<id>#mpgd-holder:n`.  Other products and their keys are left out.      *)
(***************************************************************************)
EXTENDS Naturals, Sequences, FiniteSets

CONSTANTS
    Players,    \* player ids that can sign in
    Kept,       \* `deleted:<deletionId>` ids, one per account deletion
    Keys,       \* idempotency keys of verify requests
    EventKeys,  \* idempotency keys of store events (one per event)
    AdminKey,   \* the key a support tool's admin revocation carries
    ClosedKey   \* `mpgd-holder-closed:<purchase>`

VARIABLES
    grants,      \* rows of entitlement_transactions
    revocations, \* rows of entitlement_revocations
    tombstones   \* players in account_deletion_tombstones

ledgerVars == <<grants, revocations, tombstones>>

Owners == Players \cup Kept

(* A kept row's ledger id and key are fresh; its slot, unique in the table, *)
(* stands for them.                                                         *)
Ids == Owners \X (Keys \cup Nat)

Grant == [player : Owners, key : Keys \cup Nat, slot : Nat, across : BOOLEAN]

(* The purchase-wide reasons (refund, chargeback, voided) act alike.       *)
Reasons == {"refund", "admin"}

RevocationKeys == EventKeys \cup {AdminKey, ClosedKey} \cup Nat

(* `by` is what the payload says of the origin: the store's notification,   *)
(* the support tool, or a closing restore.                                  *)
(* `ev` is the optional authority identity: {} when the entry has none, and *)
(* otherwise the one sequence of slots appended to the event's own id.      *)
Revocation == [of : Ids, player : Owners, key : RevocationKeys,
               by : EventKeys \cup {AdminKey, ClosedKey},
               reason : Reasons, ev : SUBSET Seq(Nat)]

(* The ledger id is derived from the player and the request's key.         *)
IdOf(g) == <<g.player, g.key>>

IdsOf(S) == {IdOf(g) : g \in S}

IsKept(g) == g.player \in Kept

-----------------------------------------------------------------------------
(* Reads. *)

ByKey(player, key) == {g \in grants : g.player = player /\ g.key = key}

ById(id) == {g \in grants : IdOf(g) = id}

(* findEntitlementTransactionsByEvidencePrefix of the purchase. *)
SharesRead == {g \in grants : g.slot > 0}

(* findEntitlementTransactionByEvidenceVerificationId of the purchase. *)
FirstRead == {g \in grants : g.slot = 0}

AtSlot(slot) == {g \in grants : g.slot = slot}

(* findEntitlementRevocations for a set of ledger ids. *)
RevocationsOf(ids) == {v \in revocations : v.of \in ids}

ReversedIds(ids) == {v.of : v \in RevocationsOf(ids)}

Reversed(g) == ReversedIds({IdOf(g)}) # {}

(* One past the highest share slot read, 1 when there is none. *)
NextSlot(S) ==
    CHOOSE n \in {1} \cup {g.slot + 1 : g \in S} : \A g \in S : g.slot < n

(* Holders are listed first grant first, then shares by slot. *)
Foremost(S) == {g \in S : \A h \in S : g.slot <= h.slot}

-----------------------------------------------------------------------------
(* Writes. *)

(* INSERT OR IGNORE against UNIQUE (source, player, key) and the unique     *)
(* evidence index.                                                          *)
GrantInserts(g) == ByKey(g.player, g.key) = {} /\ AtSlot(g.slot) = {}

InsertGrant(g) ==
    grants' = IF GrantInserts(g) THEN grants \cup {g} ELSE grants

(* INSERT OR IGNORE against the three unique indexes of migration 0006.    *)
RevocationInserts(v) ==
    \A w \in revocations : /\ w.of # v.of
                           /\ w.player # v.player \/ w.key # v.key
                           /\ w.ev \cap v.ev = {}

InsertRevocation(v) ==
    revocations' = IF RevocationInserts(v) THEN revocations \cup {v}
                                           ELSE revocations

(* What recordEntitlementRevocation reads back after its insert. *)
ReadBack(player, key, id) ==
    LET byKey == {v \in revocations : v.player = player /\ v.key = key}
    IN  IF byKey = {} THEN IF ReversedIds({id}) # {} THEN "recorded" ELSE "evidence"
        ELSE IF \A v \in byKey : v.of = id THEN "recorded" ELSE "key_conflict"

-----------------------------------------------------------------------------
(* The type of the tables. *)
LedgerTypeOK ==
    /\ grants \subseteq Grant
    /\ revocations \subseteq Revocation
    /\ tombstones \subseteq Players

(* What the tables' constraints keep: keys and evidence ids are unique, a   *)
(* grant has at most one revocation, and a revocation points at a grant.    *)
LedgerIntegrity ==
    /\ \A g, h \in grants : (IdOf(g) = IdOf(h) \/ g.slot = h.slot) => g = h
    /\ \A v, w \in revocations : v.of = w.of => v = w
    /\ \A v \in revocations : v.of \in IdsOf(grants)

=============================================================================
