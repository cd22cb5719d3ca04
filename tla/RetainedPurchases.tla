------------------------- MODULE RetainedPurchases -------------------------
(***************************************************************************)
(* Account deletion and the retention purge on the ledger of a shared      *)
(* purchase (apps/game-services-worker/src/accountDeletion.ts): the eraser *)
(* reads a deleted player's rows, then rewrites them in one batch under a  *)
(* `deleted:` id with fresh ledger ids and keys, while restores, refunds   *)
(* and admin revocations of the same purchase run.  The purge deletes a    *)
(* kept grant five years after it was granted and after any revocation.    *)
(*                                                                         *)
(* Revocations of a behaviour are recent, so the purge takes only a kept   *)
(* grant of the starting ledger that no entry reverses.                    *)
(***************************************************************************)
EXTENDS RestoreSharing

CONSTANTS
    Deletable,   \* players who may delete their account
    RetainedId,  \* [Players -> Kept], `deleted:<deletionId>`
    MaxPurged    \* bound: kept grants that turn five years old

ASSUME DeletionAssumption ==
    /\ Deletable \subseteq Players
    /\ RetainedId \in [Players -> Kept]
    /\ \A p, q \in Players : RetainedId[p] = RetainedId[q] => p = q
    /\ MaxPurged \in Nat

VARIABLES
    erasure,   \* erasure[p]: the deletion of player p
    expired,   \* slots of the starting ledger's grants five years old
    overtaken  \* history: rows a handler was using were renamed or purged

retainVars == <<erasure, expired, overtaken>>

allVars == <<vars, retainVars>>

ErasureSteps == {"none", "tombstone", "grants", "revocations", "batch",
                 "waiting", "erased"}

Erasure == [at : ErasureSteps,
            final : BOOLEAN,            \* the cron's final pass
            took : SUBSET Grant,        \* rows read to be rewritten
            entries : SUBSET Revocation]

NoErasure == [at |-> "none", final |-> FALSE, took |-> {}, entries |-> {}]

InitRetained ==
    /\ Init
    /\ erasure = [p \in Players |-> NoErasure]
    /\ \E S \in SUBSET {g.slot : g \in grants} :
         Cardinality(S) <= MaxPurged /\ expired = S
    /\ overtaken = FALSE

Proceeds(p, step) == erasure' = [erasure EXCEPT ![p].at = step]

-----------------------------------------------------------------------------
(* The identity service ended the player's sessions and the pending erasure *)
(* is marked: no new request authenticates, requests in flight still run.  *)
DeleteAccount(p) ==
    /\ erasure[p].at = "none" /\ p \in Deletable
    /\ Proceeds(p, "tombstone")
    /\ UNCHANGED <<vars, expired, overtaken>>

(* Mutant: the tombstone names the kept id instead of the player. *)
AddTombstoneOfKept(p) ==
    /\ erasure[p].at = "tombstone"
    /\ tombstones' = tombstones \cup {RetainedId[p]}
    /\ Proceeds(p, "grants")
    /\ UNCHANGED <<grants, revocations, call, requestVars, expired, overtaken>>

AddTombstone(p) ==
    /\ erasure[p].at = "tombstone"
    /\ tombstones' = tombstones \cup {p}
    /\ Proceeds(p, "grants")
    /\ UNCHANGED <<grants, revocations, call, requestVars, expired, overtaken>>

ReadGrants(p) ==
    /\ erasure[p].at = "grants"
    /\ erasure' = [erasure EXCEPT ![p].at = "revocations",
                                  ![p].took = {g \in grants : g.player = p}]
    /\ UNCHANGED <<vars, expired, overtaken>>

(* By a subquery on the player's grants as they are now.                   *)
ReadRevocations(p) ==
    /\ erasure[p].at = "revocations"
    /\ erasure' = [erasure EXCEPT ![p].at = "batch",
         ![p].entries = RevocationsOf({id \in IdsOf(grants) : id[1] = p})]
    /\ UNCHANGED <<vars, expired, overtaken>>

Detached(p, g) == [g EXCEPT !.player = RetainedId[p], !.key = g.slot]

(* A kept revocation follows its grant and keeps its payload; one about a  *)
(* grant written after the first read keeps pointing at it.                *)
DetachedEntry(p, v) ==
    LET about == CHOOSE g \in grants : IdOf(g) = v.of
    IN  [v EXCEPT !.player = RetainedId[p],
                  !.key = about.slot,
                  !.of = IF about \in erasure[p].took
                         THEN IdOf(Detached(p, about)) ELSE v.of]

(* Mutant: the foreign key is not enforced. *)
BatchAlwaysCommits(p) == TRUE

(* An entry written after the reads holds its grant's foreign key: the     *)
(* batch fails, and the eraser runs again.                                 *)
BatchCommits(p) ==
    \A v \in revocations \ erasure[p].entries : v.of \notin IdsOf(erasure[p].took)

InUse ==
    \/ \E e \in Events : event[e].at \in {"findShare", "findLast", "called"}
    \/ \E r \in Requests : req[r].at \notin {"idle", "done"}

Batch(p) ==
    /\ erasure[p].at = "batch"
    /\ IF BatchCommits(p)
       THEN /\ grants' = (grants \ erasure[p].took)
                           \cup {Detached(p, g) : g \in erasure[p].took}
            /\ revocations' = (revocations \ erasure[p].entries)
                           \cup {DetachedEntry(p, v) : v \in erasure[p].entries}
            /\ erasure' = [erasure EXCEPT ![p].took = {}, ![p].entries = {},
                 ![p].at = IF erasure[p].final THEN "erased" ELSE "waiting"]
            /\ overtaken' = (overtaken \/ (InUse /\ erasure[p].took # {}))
       ELSE Proceeds(p, "grants") /\ UNCHANGED <<grants, revocations, overtaken>>
    /\ UNCHANGED <<tombstones, call, requestVars, expired>>

(* A store that fails, or an isolate lost, leaves the rest to the cron.    *)
LoseErasure(p) ==
    /\ faults < MaxFaults
    /\ erasure[p].at \in {"tombstone", "grants", "revocations", "batch"}
    /\ erasure' = [erasure EXCEPT ![p] = [NoErasure EXCEPT !.at = "waiting"]]
    /\ faults' = faults + 1
    /\ UNCHANGED <<ledgerVars, call, refunded, req, event, orphans, admins,
                   resends, expired, overtaken>>

(* Mutant: the final pass does not wait for requests in flight. *)
FinalPassAtOnce(p) ==
    /\ erasure[p].at = "waiting"
    /\ erasure' = [erasure EXCEPT ![p].at = "tombstone", ![p].final = TRUE]
    /\ UNCHANGED <<vars, expired, overtaken>>

(* The cron's pass, longer after the deletion than any request that        *)
(* authenticated before it can still run (finalErasureDelayMs).            *)
FinalPass(p) ==
    /\ erasure[p].at = "waiting"
    /\ \A r \in Requests : RequestPlayer[r] = p => req[r].at \in {"idle", "done"}
    /\ erasure' = [erasure EXCEPT ![p].at = "tombstone", ![p].final = TRUE]
    /\ UNCHANGED <<vars, expired, overtaken>>

(* purgeExpiredRetainedPurchaseRecords.                                    *)
Purge(g) ==
    /\ IsKept(g) /\ g.slot \in expired /\ ~Reversed(g)
    /\ grants' = grants \ {g}
    /\ expired' = expired \ {g.slot}
    /\ overtaken' = (overtaken \/ InUse)
    /\ UNCHANGED <<revocations, tombstones, call, requestVars, erasure>>

-----------------------------------------------------------------------------
(* A deleted player's session no longer authenticates.                     *)
Authenticated(r) == erasure[RequestPlayer[r]].at = "none"

Authenticate(r) == Authenticated(r) /\ (Send(r) \/ Resend(r))

LedgerWork ==
    \/ \E r \in Requests : Authenticate(r) \/ RequestStep(r) \/ LoseRequest(r)
    \/ \E e \in Events : StoreRefunds(e) \/ EventStep(e) \/ Redeliver(e) \/ LoseDelivery(e)
    \/ \E c \in Callers : RevocationStep(c)
    \/ \E g \in grants : AdminRevokes(g)

ErasureStep(p) ==
    \/ AddTombstone(p) \/ ReadGrants(p) \/ ReadRevocations(p)
    \/ Batch(p)        \/ FinalPass(p)

NextRetained ==
    \/ LedgerWork /\ UNCHANGED retainVars
    \/ \E p \in Players : DeleteAccount(p) \/ ErasureStep(p) \/ LoseErasure(p)
    \/ \E g \in grants : Purge(g)

SpecRetained == InitRetained /\ [][NextRetained]_allVars

-----------------------------------------------------------------------------
(* The types of the base module and of the erasures. *)
RetainedTypeOK ==
    /\ TypeOK
    /\ erasure \in [Players -> Erasure]
    /\ expired \subseteq Nat
    /\ overtaken \in BOOLEAN

(* After the final pass nothing on the ledger names the deleted player: no *)
(* grant a request in flight wrote past the tombstone, and no entry a      *)
(* refund or a closing restore filed meanwhile (account-deletion.ts,       *)
(* "rewritten so nothing links them to the player").                       *)
ErasedLeavesNothing ==
    \A p \in Players : erasure[p].at = "erased" =>
        /\ \A g \in grants : g.player # p
        /\ \A v \in revocations : v.player # p /\ v.of[1] # p

(* A grant once reversed is reversed in every later ledger that holds its  *)
(* slot: the rewrite never drops or misfiles an entry appended between the *)
(* eraser's reads and its batch.                                           *)
RevocationStands ==
    [][\A g \in grants, h \in grants' :
          Reversed(g) /\ h.slot = g.slot => Reversed(h)']_allVars

(* A store event that no rename and no purge overtook ends the purchase    *)
(* for the kept record and for every holder, as without deletions.         *)
RefundEndsHoldersUnlessOvertaken == overtaken \/ RefundEndsEveryHolder

=============================================================================
