--------------------------- MODULE AccountDeletion ---------------------------
(***************************************************************************)
(* A player's deletion across the identity service, the pending erasure    *)
(* that survives the request, the stores' erasers and the cron's sweep     *)
(* (packages/game-services/src/account-deletion.ts over                    *)
(* apps/game-services-worker/src/accountDeletion.ts), while requests that  *)
(* began earlier still write.                                              *)
(*                                                                         *)
(* Every call to the identity service or to a store is a step.  It may     *)
(* take effect and lose its answer, and the isolate may be lost between    *)
(* any two.  What erasing a player's purchases does to their ledger rows   *)
(* is the subject of RetainedPurchases; here `rows` is whatever is kept    *)
(* under the player's id.                                                  *)
(***************************************************************************)
EXTENDS Naturals, FiniteSets

CONSTANTS
    Players,
    Deletions,     \* the deletion ids a run may create
    Owner,         \* Owner[d]: the player who asks for deletion d
    Writers,       \* requests that write something under a player's id
    Writes,        \* Writes[w]: that player
    Callbacks,     \* the writers no session authenticates: AdMob's deliveries
    RetryAttempts, \* retryAttempts
    SweepLimit,    \* how many erasures one sweep lists
    Broken         \* players whose D1 rows cannot be erased

ASSUME DeletionAssumption ==
    /\ Owner \in [Deletions -> Players]
    /\ Writes \in [Writers -> Players]
    /\ Callbacks \subseteq Writers
    /\ Broken \subseteq Players
    /\ RetryAttempts \in Nat \ {0}
    /\ SweepLimit \in Nat \ {0}

Original == "original"   \* the rows the player had before
ASSUME OriginalAssumption == Original \notin Writers

VARIABLES
    live,       \* players with a row in identity_players
    tombs,      \* players with a live tombstone
    rows,       \* rows[p]: who wrote what is kept under p's id
    phase,      \* account_deletion_pending: the phase of each deletion's row
    earlier,    \* earlier[d]: the rows listed before d's, tried less recently
    age,        \* the time since each deletion was requested
    req,        \* req[d]: deletePlayerAccount with deletion id d
    writer,     \* writer[w]: where the writing request is
    sweep,      \* finishPendingAccountErasures
    passed,     \* history: deletions whose final pass erased every store
    inline      \* history: deletions whose own request wrote the tombstone

vars == <<live, tombs, rows, phase, earlier, age, req, writer, sweep,
          passed, inline>>
identity == <<live>>
stores == <<tombs, rows, inline>>
entries == <<phase, earlier>>

Phases == {"none", "erasing", "identity-deleted"}
Running == {"record", "identity", "mark", "tombstone", "rows", "clear"}

(* finalErasureDelayMs makes an erasure due, staleErasingPendingMs stale.  *)
Ages == {"young", "due", "stale"}

Deletion == [at : Running \cup {"unsent", "failed", "deleted", "lost"},
             tries : 0 .. RetryAttempts - 1,
             marked : BOOLEAN,
             complete : BOOLEAN]

(* A row as a sweep listed it, after which others.                         *)
Listed == [id : Deletions, phase : Phases, after : SUBSET Deletions]

Sweep == [at : {"idle", "tombstone", "rows", "close"},
          batch : SUBSET Listed,
          erased : BOOLEAN]

NoSweep == [at |-> "idle", batch |-> {}, erased |-> TRUE]

Init ==
    /\ live = Players
    /\ tombs = {}
    /\ rows = [p \in Players |-> {Original}]
    /\ phase = [d \in Deletions |-> "none"]
    /\ earlier = [d \in Deletions |-> {}]
    /\ age = [d \in Deletions |-> "young"]
    /\ req = [d \in Deletions |-> [at |-> "unsent", tries |-> 0,
                                   marked |-> FALSE, complete |-> TRUE]]
    /\ writer = [w \in Writers |-> "idle"]
    /\ sweep = NoSweep
    /\ passed = {}
    /\ inline = {}

-----------------------------------------------------------------------------
(* The pending store: D1 statements keyed by deletion_id.  An upsert does  *)
(* not change recorded_at, and so not the place of a row that was there.   *)

Rows == {d \in Deletions : phase[d] # "none"}

Put(d, ph) ==
    /\ phase' = [phase EXCEPT ![d] = ph]
    /\ earlier' = IF d \in Rows THEN earlier ELSE [earlier EXCEPT ![d] = Rows]

ClearEntry(d) ==
    /\ phase' = [phase EXCEPT ![d] = "none"]
    /\ earlier' = [e \in Deletions |-> IF e = d THEN {} ELSE earlier[e] \ {d}]

(* Mutant: the sweep's upsert forgets attempted_at. *)
PutTriedInPlace(d) == Put(d, "identity-deleted")

(* The upsert of a sweep also sets attempted_at.                           *)
PutTried(d) ==
    /\ phase' = [phase EXCEPT ![d] = "identity-deleted"]
    /\ earlier' = [e \in Deletions |-> IF e = d THEN Rows \ {d} ELSE earlier[e] \ {d}]

-----------------------------------------------------------------------------
(* deletePlayerAccount. *)

Goes(d, step) == req' = [req EXCEPT ![d].at = step, ![d].tries = 0]

(* Mutant of the retry: off by one. *)
FailsOnceMore(d, giveUp) ==
    IF req[d].tries + 1 <= RetryAttempts
    THEN req' = [req EXCEPT ![d].tries = @ + 1]
    ELSE req' = [req EXCEPT ![d] = giveUp]

(* retry(): one more attempt failed; after the last the request goes on.   *)
Fails(d, giveUp) ==
    IF req[d].tries + 1 < RetryAttempts
    THEN req' = [req EXCEPT ![d].tries = @ + 1]
    ELSE req' = [req EXCEPT ![d] = giveUp]

Moved(d, step) == [req[d] EXCEPT !.at = step, !.tries = 0]

(* The route: the session is live, and so is the family whose confirmation *)
(* the identity service consumes.                                          *)
Request(d) ==
    /\ req[d].at = "unsent"
    /\ Owner[d] \in live
    /\ Goes(d, "record")
    /\ UNCHANGED <<identity, stores, entries, age, writer, sweep, passed>>

RecordPending(d) ==
    /\ req[d].at = "record"
    /\ \/ Put(d, "erasing") /\ Goes(d, "identity")
       \/ Put(d, "erasing") /\ Goes(d, "failed")
       \/ UNCHANGED entries /\ Goes(d, "failed")
    /\ UNCHANGED <<identity, stores, age, writer, sweep, passed>>

(* Mutant: the erasure begins although the identity service never answered. *)
DeleteIdentityGoesOn(d) ==
    /\ req[d].at = "identity"
    /\ \/ live' = live \ {Owner[d]} /\ Goes(d, "mark")
       \/ UNCHANGED live /\ Fails(d, Moved(d, "mark"))
    /\ UNCHANGED <<stores, entries, age, writer, sweep, passed>>

DeleteIdentity(d) ==
    /\ req[d].at = "identity"
    /\ \/ live' = live \ {Owner[d]} /\ Goes(d, "mark")
       \/ live' = live \ {Owner[d]} /\ Fails(d, Moved(d, "failed"))
       \/ UNCHANGED live /\ Fails(d, Moved(d, "failed"))
    /\ UNCHANGED <<stores, entries, age, writer, sweep, passed>>

Mark(d) ==
    /\ req[d].at = "mark"
    /\ \/ /\ Put(d, "identity-deleted")
          /\ req' = [req EXCEPT ![d] = [Moved(d, "tombstone") EXCEPT !.marked = TRUE]]
       \/ Put(d, "identity-deleted") /\ Fails(d, Moved(d, "tombstone"))
       \/ UNCHANGED entries /\ Fails(d, Moved(d, "tombstone"))
    /\ UNCHANGED <<identity, stores, age, writer, sweep, passed>>

Incomplete(d, step) == [Moved(d, step) EXCEPT !.complete = FALSE]

(* The tombstone is an eraser too, registered first.                       *)
EraseTombstone(d) ==
    /\ req[d].at = "tombstone"
    /\ \/ /\ tombs' = tombs \cup {Owner[d]}
          /\ inline' = inline \cup {d}
          /\ Goes(d, "rows") \/ Fails(d, Incomplete(d, "rows"))
       \/ UNCHANGED <<tombs, inline>> /\ Fails(d, Incomplete(d, "rows"))
    /\ UNCHANGED <<identity, rows, entries, age, writer, sweep, passed>>

Erased(d) == rows' = [rows EXCEPT ![Owner[d]] = {}]

(* Mutant: a complete erasure always clears its entry. *)
AfterErasureClears(d, complete) == IF complete THEN "clear" ELSE "deleted"

(* A marked erasure is left to the sweep, and so is one a store failed.    *)
AfterErasure(d, complete) == IF complete /\ ~req[d].marked THEN "clear" ELSE "deleted"

EraseRows(d) ==
    /\ req[d].at = "rows"
    /\ \/ /\ Owner[d] \notin Broken
          /\ Erased(d)
          /\ \/ Goes(d, AfterErasure(d, req[d].complete))
             \/ Fails(d, Incomplete(d, AfterErasure(d, FALSE)))
       \/ UNCHANGED rows /\ Fails(d, Incomplete(d, AfterErasure(d, FALSE)))
    /\ UNCHANGED <<identity, tombs, inline, entries, age, writer, sweep, passed>>

(* A failure is logged, and the entry then stays.                          *)
ClearUnmarked(d) ==
    /\ req[d].at = "clear"
    /\ ClearEntry(d) \/ UNCHANGED entries
    /\ Goes(d, "deleted")
    /\ UNCHANGED <<identity, stores, age, writer, sweep, passed>>

(* The isolate is gone.                                                    *)
Lost(d) ==
    /\ req[d].at \in Running
    /\ Goes(d, "lost")
    /\ UNCHANGED <<identity, stores, entries, age, writer, sweep, passed>>

DeletionStep(d) ==
    \/ RecordPending(d) \/ DeleteIdentity(d) \/ Mark(d) \/ EraseTombstone(d)
    \/ EraseRows(d) \/ ClearUnmarked(d)

-----------------------------------------------------------------------------
(* A request that writes under the player's id. *)

Authenticate(w) ==
    /\ writer[w] = "idle"
    /\ w \in Callbacks \/ Writes[w] \in live
    /\ writer' = [writer EXCEPT ![w] = "check"]
    /\ UNCHANGED <<identity, stores, entries, age, req, sweep, passed>>

(* refuseDeletedPlayerWrites: the check and the write are two statements.  *)
CheckTombstone(w) ==
    /\ writer[w] = "check"
    /\ writer' = [writer EXCEPT ![w] = IF Writes[w] \in tombs THEN "over" ELSE "write"]
    /\ UNCHANGED <<identity, stores, entries, age, req, sweep, passed>>

Write(w) ==
    /\ writer[w] = "write"
    /\ rows' = [rows EXCEPT ![Writes[w]] = @ \cup {w}]
    /\ writer' = [writer EXCEPT ![w] = "over"]
    /\ UNCHANGED <<identity, tombs, inline, entries, age, req, sweep, passed>>

-----------------------------------------------------------------------------
(* finishPendingAccountErasures, run by the Worker's cron. *)

(* Mutant: the final pass does not wait. *)
CandidatesAtOnce == Rows

(* Identity-deleted erasures that are due, then the erasing ones.          *)
Candidates == {d \in Rows : phase[d] = "erasing" \/ age[d] # "young"}

Ahead(d) ==
    {e \in Candidates \ {d} :
        \/ phase[e] = "identity-deleted" /\ phase[d] = "erasing"
        \/ phase[e] = phase[d] /\ e \in earlier[d]}

List == {[id |-> d, phase |-> phase[d], after |-> Ahead(d)] :
             d \in {c \in Candidates : Cardinality(Ahead(c)) < SweepLimit}}

SweepStarts ==
    /\ sweep.at = "idle"
    /\ List # {}
    /\ sweep' = [at |-> "tombstone", batch |-> List, erased |-> TRUE]
    /\ UNCHANGED <<identity, stores, entries, age, req, writer, passed>>

(* The row whose turn it is.                                               *)
Turn(x) == \A y \in sweep.batch : y.id \notin x.after

Rest(x) == IF sweep.batch = {x} THEN NoSweep
           ELSE [at |-> "tombstone", batch |-> sweep.batch \ {x}, erased |-> TRUE]

(* An erasing entry: its player most likely lives on, so it is only ever   *)
(* discarded.                                                              *)
SweepDiscards(x) ==
    /\ sweep.at = "tombstone" /\ Turn(x)
    /\ x.phase = "erasing"
    /\ \/ age[x.id] = "stale" /\ ClearEntry(x.id)
       \/ UNCHANGED entries
    /\ sweep' = Rest(x)
    /\ UNCHANGED <<identity, stores, age, req, writer, passed>>

SweepTombstone(x, ok) ==
    /\ sweep.at = "tombstone" /\ Turn(x)
    /\ x.phase = "identity-deleted"
    /\ tombs' = IF ok THEN tombs \cup {Owner[x.id]} ELSE tombs
    /\ sweep' = [sweep EXCEPT !.at = "rows", !.erased = ok]
    /\ UNCHANGED <<identity, rows, inline, entries, age, req, writer, passed>>

SweepRows(x, ok) ==
    /\ sweep.at = "rows" /\ Turn(x)
    /\ ok => Owner[x.id] \notin Broken
    /\ IF ok THEN Erased(x.id) ELSE UNCHANGED rows
    /\ sweep' = [sweep EXCEPT !.at = "close", !.erased = @ /\ ok]
    /\ passed' = IF sweep.erased /\ ok THEN passed \cup {x.id} ELSE passed
    /\ UNCHANGED <<identity, tombs, inline, entries, age, req, writer>>

(* A store failed: the attempt is recorded, so that others come first.     *)
SweepDefers(x, ok) ==
    /\ sweep.at = "close" /\ Turn(x)
    /\ ~sweep.erased
    /\ IF ok THEN PutTried(x.id) ELSE UNCHANGED entries
    /\ sweep' = Rest(x)
    /\ UNCHANGED <<identity, stores, age, req, writer, passed>>

SweepClears(x, ok) ==
    /\ sweep.at = "close" /\ Turn(x)
    /\ sweep.erased
    /\ IF ok THEN ClearEntry(x.id) ELSE UNCHANGED entries
    /\ sweep' = Rest(x)
    /\ UNCHANGED <<identity, stores, age, req, writer, passed>>

SweepLost ==
    /\ sweep.at # "idle"
    /\ sweep' = NoSweep
    /\ UNCHANGED <<identity, stores, entries, age, req, writer, passed>>

SweepEntry(x) ==
    \/ SweepDiscards(x)
    \/ \E ok \in BOOLEAN :
         \/ SweepTombstone(x, ok) \/ SweepRows(x, ok)
         \/ SweepDefers(x, ok) \/ SweepClears(x, ok)

SweepStep == SweepStarts \/ \E x \in sweep.batch : SweepEntry(x)

-----------------------------------------------------------------------------
(* Time.  finalErasureDelayMs is longer than any request runs: by then the *)
(* deletion's own request is over, and so are the writers that had         *)
(* authenticated, or passed the tombstone check, before it.  A sweep that  *)
(* listed a deletion while it was young is over before it is stale.        *)

OfPlayer(p) == {w \in Writers : Writes[w] = p}

RequestsOver(d) ==
    /\ req[d].at \notin Running \cup {"unsent"}
    /\ Owner[d] \notin live =>
         \A w \in OfPlayer(Owner[d]) \ Callbacks : writer[w] \in {"idle", "over"}
    /\ Owner[d] \in tombs =>
         \A w \in OfPlayer(Owner[d]) : writer[w] # "write"

SweepHolds(d) == \E x \in sweep.batch : x.id = d

(* Age is read of a listed row only, and staleness of an erasing one.      *)
Elapse(d) ==
    /\ \/ /\ age[d] = "young" /\ phase[d] # "none" /\ RequestsOver(d)
          /\ age' = [age EXCEPT ![d] = "due"]
       \/ /\ age[d] = "due" /\ phase[d] = "erasing" /\ ~SweepHolds(d)
          /\ age' = [age EXCEPT ![d] = "stale"]
    /\ UNCHANGED <<identity, stores, entries, req, writer, sweep, passed>>

Next ==
    \/ \E d \in Deletions : Request(d) \/ DeletionStep(d) \/ Lost(d) \/ Elapse(d)
    \/ \E w \in Writers : Authenticate(w) \/ CheckTombstone(w) \/ Write(w)
    \/ SweepStep \/ SweepLost

Spec == Init /\ [][Next]_vars

(* Handlers and the cron run on, and time passes.  The stores may fail and *)
(* the cron's isolate be lost any number of times, but not for ever at one *)
(* step: a pass that is tried often enough gets through, and succeeds      *)
(* unless the player's rows are broken, when it is recorded as tried.      *)
SweepTombstoneOf(d) == \E x \in sweep.batch : x.id = d /\ SweepTombstone(x, TRUE)
SweepRowsOf(d) == \E x \in sweep.batch : x.id = d /\ sweep.erased /\ SweepRows(x, TRUE)
SweepFailsRowsOf(d) == \E x \in sweep.batch : x.id = d /\ SweepRows(x, FALSE)
SweepDefersOf(d) == \E x \in sweep.batch : x.id = d /\ SweepDefers(x, TRUE)

Fairness ==
    /\ \A d \in Deletions : WF_vars(DeletionStep(d)) /\ WF_vars(Elapse(d))
    /\ \A w \in Writers : WF_vars(CheckTombstone(w) \/ Write(w))
    /\ WF_vars(SweepStep)
    /\ \A d \in Deletions :
         /\ SF_vars(SweepTombstoneOf(d))
         /\ Owner[d] \notin Broken => SF_vars(SweepRowsOf(d))
         /\ Owner[d] \in Broken => SF_vars(SweepFailsRowsOf(d)) /\ SF_vars(SweepDefersOf(d))

FairSpec == Spec /\ Fairness

-----------------------------------------------------------------------------

(* The type invariant of the deletion protocol of account-deletion.ts; no  *)
(* step is attempted more often than retryAttempts.                        *)
TypeOK ==
    /\ live \subseteq Players
    /\ tombs \subseteq Players
    /\ rows \in [Players -> SUBSET (Writers \cup {Original})]
    /\ phase \in [Deletions -> Phases]
    /\ earlier \in [Deletions -> SUBSET Deletions]
    /\ age \in [Deletions -> Ages]
    /\ req \in [Deletions -> Deletion]
    /\ writer \in [Writers -> {"idle", "check", "write", "over"}]
    /\ sweep \in Sweep
    /\ passed \subseteq Deletions
    /\ inline \subseteq Deletions

(* A player who can still sign in is never erased nor refused a write,     *)
(* whatever deletions failed, died or were listed by the sweep: only the   *)
(* identity service's answer lets an erasure begin (account-deletion.ts    *)
(* 200-212, finishPendingAccountErasures).                                 *)
LivePlayersKeepTheirData ==
    \A p \in live : p \notin tombs /\ Original \in rows[p]

(* The final pass is final: nothing a session wrote is kept afterwards,    *)
(* however late it wrote, and nothing at all when the deletion's own       *)
(* request wrote the tombstone (finalErasureDelayMs, the comment of        *)
(* deletionTombstones.ts).                                                 *)
FinalPassIsFinal ==
    \A d \in passed : /\ rows[Owner[d]] \subseteq Callbacks
                      /\ d \in inline => rows[Owner[d]] = {}

(* A deletion that was told its entry is marked keeps it until the sweep's *)
(* final pass erased every store, through lost answers, failing stores,    *)
(* overlapping deletions and sweeps cut short.                             *)
MarkedEntryStaysUntilFinalPass ==
    \A d \in Deletions :
        req[d].marked => phase[d] = "identity-deleted" \/ d \in passed

(* Every marked deletion gets its final pass, although another player's    *)
(* erasure fails for ever and takes its place in the sweep's list          *)
(* (attempted_at, least recently tried first).                             *)
MarkedIsErased ==
    \A d \in Deletions :
        Owner[d] \notin Broken => (req[d].marked ~> d \in passed)

=============================================================================
