----------------------- MODULE AccountDeletionProofs -----------------------
(***************************************************************************)
(* Theorems about AccountDeletion, for every set of players, deletions,     *)
(* writers and stores, any number of retries, and every limit of a sweep.   *)
(*                                                                         *)
(* A sweep may finish a deletion only for a player whose sessions can write *)
(* no more (Quiet).  That is decided long before the sweep acts: the entry  *)
(* was written as identity-deleted behind the identity service's answer,    *)
(* and became due after every request and callback of its time was over     *)
(* (Aged).  What the sweep lists, and what it has passed, inherit it.       *)
(***************************************************************************)
EXTENDS AccountDeletion, TLAPS

(* Where deletePlayerAccount is once the identity service has answered.    *)
Reached == {"mark", "tombstone", "rows", "clear"}

(* No session of the player is left that could still write, and no request *)
(* that passed the tombstone check, when the deletion wrote the tombstone. *)
Quiet(d) ==
    /\ Owner[d] \notin live
    /\ \A w \in OfPlayer(Owner[d]) \ Callbacks : writer[w] \in {"idle", "over"}
    /\ d \in inline => \A w \in OfPlayer(Owner[d]) : writer[w] # "write"

(* A deletion whose entry is due has no request at work.                   *)
Aged == \A d \in Deletions : age[d] # "young" => req[d].at \notin Running \cup {"unsent"}

(* Erasing begins behind the identity service's answer only.               *)
Gone ==
    /\ tombs \cap live = {}
    /\ \A d \in Deletions :
        /\ d \in inline => Owner[d] \in tombs
        /\ phase[d] = "identity-deleted" \/ req[d].at \in Reached => Owner[d] \notin live

Owned == \A p \in live : Original \in rows[p]

QuietRows ==
    \A d \in Deletions : age[d] # "young" /\ phase[d] = "identity-deleted" => Quiet(d)

QuietBatch ==
    \A x \in sweep.batch :
        x.phase = "identity-deleted" => age[x.id] # "young" /\ Quiet(x.id)

QuietPassed == \A d \in passed : age[d] # "young" /\ Quiet(d)

(* Of two rows one was tried less recently, so that one listed row at a    *)
(* time has its turn; a pass that erases is that of an identity-deleted    *)
(* one, and one that clears has erased every store.                        *)
Ordered == \A d, e \in Rows : d = e \/ d \in earlier[e] \/ e \in earlier[d]

Queue ==
    /\ \A x, y \in sweep.batch : x = y \/ x.id \in y.after \/ y.id \in x.after
    /\ \A x \in sweep.batch :
        Turn(x) => /\ sweep.at \in {"rows", "close"} => x.phase = "identity-deleted"
                   /\ sweep.at = "close" /\ sweep.erased => x.id \in passed

Unmarked ==
    /\ \A d \in Deletions :
        req[d].at \in {"unsent", "record", "identity", "mark", "clear"} => ~req[d].marked
    /\ \A d \in Deletions : age[d] = "stale" /\ req[d].marked => d \in passed

IInv ==
    /\ TypeOK
    /\ Aged /\ Gone /\ Owned
    /\ QuietRows /\ QuietBatch /\ QuietPassed
    /\ Ordered /\ Queue
    /\ Unmarked /\ MarkedEntryStaysUntilFinalPass
    /\ FinalPassIsFinal

-----------------------------------------------------------------------------
(* What moving one request on does to it. *)

LEMMA GoesMoves ==
    ASSUME TypeOK, NEW d \in Deletions,
           NEW step \in Running \cup {"unsent", "failed", "deleted", "lost"},
           Goes(d, step)
    PROVE  /\ req' \in [Deletions -> Deletion]
           /\ req'[d].at = step
           /\ req'[d].marked = req[d].marked
           /\ \A e \in Deletions \ {d} : req'[e] = req[e]
<1>1. 0 \in 0 .. RetryAttempts - 1
  BY DeletionAssumption
<1>2. req' = [req EXCEPT ![d].at = step, ![d].tries = 0]
  BY DEF Goes
<1>3. QED BY <1>1, <1>2 DEF TypeOK, Deletion

LEMMA FailsMoves ==
    ASSUME TypeOK, NEW d \in Deletions, NEW giveUp \in Deletion,
           Fails(d, giveUp)
    PROVE  /\ req' \in [Deletions -> Deletion]
           /\ \/ req'[d] = giveUp
              \/ req'[d].at = req[d].at /\ req'[d].marked = req[d].marked
           /\ \A e \in Deletions \ {d} : req'[e] = req[e]
<1>1. CASE req[d].tries + 1 < RetryAttempts
  <2>1. req' = [req EXCEPT ![d].tries = @ + 1]
    BY <1>1 DEF Fails
  <2>2. req[d].tries + 1 \in 0 .. RetryAttempts - 1
    BY <1>1, DeletionAssumption DEF TypeOK, Deletion
  <2>3. QED BY <2>1, <2>2 DEF TypeOK, Deletion
<1>2. CASE ~(req[d].tries + 1 < RetryAttempts)
  BY <1>2 DEF Fails, TypeOK
<1>3. QED BY <1>1, <1>2

LEMMA MovedIs ==
    ASSUME TypeOK, NEW d \in Deletions,
           NEW step \in Running \cup {"unsent", "failed", "deleted", "lost"}
    PROVE  /\ Moved(d, step) \in Deletion
           /\ Incomplete(d, step) \in Deletion
           /\ Moved(d, step).at = step /\ Incomplete(d, step).at = step
           /\ Moved(d, step).marked = req[d].marked
           /\ Incomplete(d, step).marked = req[d].marked
<1>1. 0 \in 0 .. RetryAttempts - 1
  BY DeletionAssumption
<1>2. req[d] \in Deletion
  BY DEF TypeOK
<1>3. Moved(d, step) = [req[d] EXCEPT !.at = step, !.tries = 0]
  BY DEF Moved
<1>4. Moved(d, step) \in Deletion /\ Moved(d, step).at = step /\ Moved(d, step).marked = req[d].marked
  BY <1>1, <1>2, <1>3 DEF Deletion
<1>5. Incomplete(d, step) = [Moved(d, step) EXCEPT !.complete = FALSE]
  BY DEF Incomplete
<1>6. QED BY <1>4, <1>5 DEF Deletion

LEMMA PutPuts ==
    ASSUME TypeOK, Ordered, NEW d \in Deletions, NEW ph \in Phases \ {"none"},
           Put(d, ph)
    PROVE  /\ phase' \in [Deletions -> Phases]
           /\ earlier' \in [Deletions -> SUBSET Deletions]
           /\ phase'[d] = ph
           /\ \A e \in Deletions \ {d} : phase'[e] = phase[e]
           /\ Ordered'
<1>1. /\ phase' \in [Deletions -> Phases]
      /\ phase'[d] = ph
      /\ \A e \in Deletions \ {d} : phase'[e] = phase[e]
  BY DEF TypeOK, Put, Phases
<1>2. Rows' = Rows \cup {d}
  BY <1>1 DEF Rows
<1>3. CASE d \in Rows
  BY <1>1, <1>2, <1>3 DEF Put, Ordered, TypeOK
<1>4. CASE d \notin Rows
  <2>1. earlier' = [earlier EXCEPT ![d] = Rows]
    BY <1>4 DEF Put
  <2>2. Rows \subseteq Deletions
    BY DEF Rows
  <2>3. QED BY <1>1, <1>2, <2>1, <2>2 DEF Ordered, TypeOK
<1>5. QED BY <1>3, <1>4

LEMMA ClearEntryClears ==
    ASSUME TypeOK, Ordered, NEW d \in Deletions, ClearEntry(d)
    PROVE  /\ phase' \in [Deletions -> Phases]
           /\ earlier' \in [Deletions -> SUBSET Deletions]
           /\ phase'[d] = "none"
           /\ \A e \in Deletions \ {d} : phase'[e] = phase[e]
           /\ Ordered'
<1>1. /\ phase' \in [Deletions -> Phases]
      /\ phase'[d] = "none"
      /\ \A e \in Deletions \ {d} : phase'[e] = phase[e]
  BY DEF TypeOK, ClearEntry, Phases
<1>2. Rows' = Rows \ {d} /\ Rows \subseteq Deletions
  BY <1>1 DEF Rows
<1>3. earlier' = [e \in Deletions |-> IF e = d THEN {} ELSE earlier[e] \ {d}]
  BY DEF ClearEntry
<1>4. QED BY <1>1, <1>2, <1>3 DEF Ordered, TypeOK

LEMMA PutTriedPutsLast ==
    ASSUME TypeOK, Ordered, NEW d \in Deletions, PutTried(d)
    PROVE  /\ phase' \in [Deletions -> Phases]
           /\ earlier' \in [Deletions -> SUBSET Deletions]
           /\ phase'[d] = "identity-deleted"
           /\ \A e \in Deletions \ {d} : phase'[e] = phase[e]
           /\ Ordered'
<1>1. /\ phase' \in [Deletions -> Phases]
      /\ phase'[d] = "identity-deleted"
      /\ \A e \in Deletions \ {d} : phase'[e] = phase[e]
  BY DEF TypeOK, PutTried, Phases
<1>2. Rows' = Rows \cup {d} /\ Rows \subseteq Deletions
  BY <1>1 DEF Rows
<1>3. earlier' = [e \in Deletions |-> IF e = d THEN Rows \ {d} ELSE earlier[e] \ {d}]
  BY DEF PutTried
<1>4. QED BY <1>1, <1>2, <1>3 DEF Ordered, TypeOK

-----------------------------------------------------------------------------
(* The steps of a deletion's request. *)

LEMMA RequestKeeps ==
    ASSUME IInv, NEW d \in Deletions, Request(d)
    PROVE  IInv'
<1>1. TypeOK /\ Goes(d, "record") /\ req[d].at = "unsent"
  BY DEF IInv, Request
<1>2. UNCHANGED <<live, tombs, rows, phase, earlier, age, writer, sweep, passed, inline>>
  BY DEF Request, identity, stores, entries
<1>3. /\ req' \in [Deletions -> Deletion]
      /\ req'[d].at = "record"
      /\ req'[d].marked = req[d].marked
      /\ \A e \in Deletions \ {d} : req'[e] = req[e]
  BY <1>1, GoesMoves DEF Running
<1>4. TypeOK'
  BY <1>1, <1>2, <1>3 DEF TypeOK
<1>5. Aged'
  BY <1>1, <1>2, <1>3 DEF IInv, Aged
<1>6. Gone' /\ Unmarked' /\ MarkedEntryStaysUntilFinalPass'
  BY <1>1, <1>2, <1>3 DEF IInv, Gone, Reached, Unmarked, MarkedEntryStaysUntilFinalPass
<1>7. QED
  BY <1>2, <1>4, <1>5, <1>6
  DEF IInv, Owned, QuietRows, QuietBatch, QuietPassed, Quiet, Ordered, Rows, Queue, Turn, FinalPassIsFinal

LEMMA RecordPendingKeeps ==
    ASSUME IInv, NEW d \in Deletions, RecordPending(d)
    PROVE  IInv'
<1>1. TypeOK /\ Ordered /\ req[d].at = "record" /\ age[d] = "young"
  BY DEF IInv, Aged, RecordPending, Running
<1>2. UNCHANGED <<live, tombs, rows, age, writer, sweep, passed, inline>>
  BY DEF RecordPending, identity, stores
<1>3. Goes(d, "identity") \/ Goes(d, "failed")
  BY DEF RecordPending
<1>4. /\ req' \in [Deletions -> Deletion]
      /\ req'[d].at \in {"identity", "failed"}
      /\ req'[d].marked = req[d].marked
      /\ \A e \in Deletions \ {d} : req'[e] = req[e]
  BY <1>1, <1>3, GoesMoves DEF Running
<1>5. Put(d, "erasing") \/ UNCHANGED entries
  BY DEF RecordPending
<1>6. /\ phase' \in [Deletions -> Phases]
      /\ earlier' \in [Deletions -> SUBSET Deletions]
      /\ phase'[d] \in {phase[d], "erasing"}
      /\ \A e \in Deletions \ {d} : phase'[e] = phase[e]
      /\ Ordered'
  <2>1. CASE Put(d, "erasing")
    BY <1>1, <2>1, PutPuts DEF Phases
  <2>2. CASE UNCHANGED entries
    BY <1>1, <2>2 DEF entries, TypeOK, Ordered, Rows
  <2>3. QED BY <1>5, <2>1, <2>2
<1>7. TypeOK'
  BY <1>1, <1>2, <1>4, <1>6 DEF TypeOK
<1>8. Aged' /\ Gone'
  BY <1>1, <1>2, <1>4, <1>6 DEF IInv, Aged, Gone, Reached, Running
<1>9. Unmarked' /\ MarkedEntryStaysUntilFinalPass'
  BY <1>1, <1>2, <1>4, <1>6 DEF IInv, Unmarked, MarkedEntryStaysUntilFinalPass
<1>10. QuietRows' /\ QuietBatch' /\ QuietPassed'
  BY <1>1, <1>2, <1>6 DEF IInv, QuietRows, QuietBatch, QuietPassed, Quiet
<1>11. QED
  BY <1>2, <1>6, <1>7, <1>8, <1>9, <1>10
  DEF IInv, Owned, Queue, Turn, FinalPassIsFinal

LEMMA DeleteIdentityKeeps ==
    ASSUME IInv, NEW d \in Deletions, DeleteIdentity(d)
    PROVE  IInv'
<1>1. TypeOK /\ req[d].at = "identity"
  BY DEF IInv, DeleteIdentity
<1>2. UNCHANGED <<tombs, rows, phase, earlier, age, writer, sweep, passed, inline>>
  BY DEF DeleteIdentity, stores, entries
<1>3. /\ req' \in [Deletions -> Deletion]
      /\ req'[d].at \in {"identity", "mark", "failed"}
      /\ req'[d].marked = req[d].marked
      /\ \A e \in Deletions \ {d} : req'[e] = req[e]
  <2>1. CASE Goes(d, "mark")
    BY <1>1, <2>1, GoesMoves DEF Running
  <2>2. CASE Fails(d, Moved(d, "failed"))
    BY <1>1, <2>2, FailsMoves, MovedIs
  <2>3. QED BY <2>1, <2>2 DEF DeleteIdentity
<1>4. live' \subseteq live /\ (req'[d].at = "mark" => Owner[d] \notin live')
  <2>1. CASE live' = live \ {Owner[d]}
    BY <2>1
  <2>2. CASE UNCHANGED live /\ Fails(d, Moved(d, "failed"))
    BY <1>1, <2>2, FailsMoves, MovedIs
  <2>3. QED BY <2>1, <2>2 DEF DeleteIdentity
<1>5. TypeOK'
  BY <1>1, <1>2, <1>3, <1>4 DEF TypeOK
<1>6. Aged' /\ Gone'
  BY <1>1, <1>2, <1>3, <1>4 DEF IInv, Aged, Gone, Reached, Running
<1>7. Unmarked' /\ MarkedEntryStaysUntilFinalPass'
  BY <1>1, <1>2, <1>3 DEF IInv, Unmarked, MarkedEntryStaysUntilFinalPass
<1>8. QuietRows' /\ QuietBatch' /\ QuietPassed'
  BY <1>2, <1>4 DEF IInv, QuietRows, QuietBatch, QuietPassed, Quiet
<1>9. QED
  BY <1>2, <1>4, <1>5, <1>6, <1>7, <1>8
  DEF IInv, Owned, Ordered, Rows, Queue, Turn, FinalPassIsFinal

LEMMA MarkKeeps ==
    ASSUME IInv, NEW d \in Deletions, Mark(d)
    PROVE  IInv'
<1>1. TypeOK /\ Ordered /\ req[d].at = "mark" /\ age[d] = "young" /\ Owner[d] \notin live
  BY DEF IInv, Aged, Gone, Reached, Mark, Running
<1>2. UNCHANGED <<live, tombs, rows, age, writer, sweep, passed, inline>>
  BY DEF Mark, identity, stores
<1>3. Put(d, "identity-deleted") \/ UNCHANGED entries
  BY DEF Mark
<1>4. /\ phase' \in [Deletions -> Phases]
      /\ earlier' \in [Deletions -> SUBSET Deletions]
      /\ phase'[d] \in {phase[d], "identity-deleted"}
      /\ \A e \in Deletions \ {d} : phase'[e] = phase[e]
      /\ Ordered'
  <2>1. CASE Put(d, "identity-deleted")
    BY <1>1, <2>1, PutPuts DEF Phases
  <2>2. CASE UNCHANGED entries
    BY <1>1, <2>2 DEF entries, TypeOK, Ordered, Rows
  <2>3. QED BY <1>3, <2>1, <2>2
<1>5. /\ req' \in [Deletions -> Deletion]
      /\ req'[d].at \in {"mark", "tombstone"}
      /\ req'[d].at = "mark" => ~req'[d].marked
      /\ req'[d].marked => phase'[d] = "identity-deleted"
      /\ \A e \in Deletions \ {d} : req'[e] = req[e]
  <2>1. ~req[d].marked
    BY <1>1 DEF IInv, Unmarked
  <2>2. CASE /\ Put(d, "identity-deleted")
             /\ req' = [req EXCEPT ![d] = [Moved(d, "tombstone") EXCEPT !.marked = TRUE]]
    <3>1. Moved(d, "tombstone") \in Deletion /\ Moved(d, "tombstone").at = "tombstone"
      BY <1>1, MovedIs DEF Running
    <3>2. [Moved(d, "tombstone") EXCEPT !.marked = TRUE] \in Deletion
          /\ [Moved(d, "tombstone") EXCEPT !.marked = TRUE].at = "tombstone"
      BY <3>1 DEF Deletion
    <3>3. phase'[d] = "identity-deleted"
      BY <1>1, <2>2, PutPuts DEF Phases
    <3>4. QED BY <1>1, <2>2, <3>2, <3>3 DEF TypeOK
  <2>3. CASE Fails(d, Moved(d, "tombstone"))
    <3>1. /\ Moved(d, "tombstone") \in Deletion
          /\ Moved(d, "tombstone").at = "tombstone"
          /\ Moved(d, "tombstone").marked = req[d].marked
      BY <1>1, MovedIs DEF Running
    <3>2. QED BY <1>1, <2>1, <2>3, <3>1, FailsMoves
  <2>4. QED BY <2>2, <2>3 DEF Mark
<1>6. TypeOK'
  BY <1>1, <1>2, <1>4, <1>5 DEF TypeOK
<1>7. Aged' /\ Gone'
  BY <1>1, <1>2, <1>4, <1>5 DEF IInv, Aged, Gone, Reached, Running
<1>8. Unmarked' /\ MarkedEntryStaysUntilFinalPass'
  BY <1>1, <1>2, <1>4, <1>5 DEF IInv, Unmarked, MarkedEntryStaysUntilFinalPass
<1>9. QuietRows' /\ QuietBatch' /\ QuietPassed'
  BY <1>1, <1>2, <1>4 DEF IInv, QuietRows, QuietBatch, QuietPassed, Quiet
<1>10. QED
  BY <1>2, <1>4, <1>6, <1>7, <1>8, <1>9
  DEF IInv, Owned, Queue, Turn, FinalPassIsFinal

LEMMA EraseTombstoneKeeps ==
    ASSUME IInv, NEW d \in Deletions, EraseTombstone(d)
    PROVE  IInv'
<1>1. TypeOK /\ req[d].at = "tombstone" /\ age[d] = "young" /\ Owner[d] \notin live
  BY DEF IInv, Aged, Gone, Reached, EraseTombstone, Running
<1>2. UNCHANGED <<live, rows, phase, earlier, age, writer, sweep, passed>>
  BY DEF EraseTombstone, identity, entries
<1>3. /\ req' \in [Deletions -> Deletion]
      /\ req'[d].at \in {"tombstone", "rows"}
      /\ req'[d].marked = req[d].marked
      /\ \A e \in Deletions \ {d} : req'[e] = req[e]
  <2>1. CASE Goes(d, "rows")
    BY <1>1, <2>1, GoesMoves DEF Running
  <2>2. CASE Fails(d, Incomplete(d, "rows"))
    <3>1. /\ Incomplete(d, "rows") \in Deletion
          /\ Incomplete(d, "rows").at = "rows"
          /\ Incomplete(d, "rows").marked = req[d].marked
      BY <1>1, MovedIs DEF Running
    <3>2. QED BY <1>1, <2>2, <3>1, FailsMoves
  <2>3. QED BY <2>1, <2>2 DEF EraseTombstone
<1>4. \/ tombs' = tombs \cup {Owner[d]} /\ inline' = inline \cup {d}
      \/ UNCHANGED <<tombs, inline>>
  BY DEF EraseTombstone
<1>5. Owner[d] \in Players
  BY DeletionAssumption
<1>6. TypeOK'
  BY <1>1, <1>2, <1>3, <1>4, <1>5 DEF TypeOK
<1>7. Aged' /\ Gone'
  BY <1>1, <1>2, <1>3, <1>4 DEF IInv, Aged, Gone, Reached, Running
<1>8. Unmarked' /\ MarkedEntryStaysUntilFinalPass'
  BY <1>1, <1>2, <1>3 DEF IInv, Unmarked, MarkedEntryStaysUntilFinalPass
<1>9. \A e \in Deletions : age[e] # "young" => (e \in inline' => e \in inline)
  BY <1>1, <1>4
<1>10. QuietRows' /\ QuietBatch' /\ QuietPassed'
  <2>1. \A e \in Deletions : age[e] # "young" /\ Quiet(e) => Quiet(e)'
    BY <1>2, <1>9 DEF Quiet
  <2>2. \A x \in sweep.batch : x.id \in Deletions
    BY <1>1 DEF TypeOK, Sweep, Listed
  <2>3. passed \subseteq Deletions
    BY <1>1 DEF TypeOK
  <2>4. QED BY <1>2, <2>1, <2>2, <2>3 DEF IInv, QuietRows, QuietBatch, QuietPassed
<1>11. FinalPassIsFinal'
  <2>1. \A e \in passed : e \in Deletions /\ age[e] # "young"
    BY <1>1 DEF IInv, TypeOK, QuietPassed
  <2>2. QED BY <1>2, <1>9, <2>1 DEF IInv, FinalPassIsFinal
<1>12. QED
  BY <1>2, <1>6, <1>7, <1>8, <1>10, <1>11
  DEF IInv, Owned, Ordered, Rows, Queue, Turn

LEMMA EraseRowsKeeps ==
    ASSUME IInv, NEW d \in Deletions, EraseRows(d)
    PROVE  IInv'
<1>1. TypeOK /\ req[d].at = "rows" /\ age[d] = "young" /\ Owner[d] \notin live
  BY DEF IInv, Aged, Gone, Reached, EraseRows, Running
<1>2. UNCHANGED <<live, tombs, inline, phase, earlier, age, writer, sweep, passed>>
  BY DEF EraseRows, identity, entries
<1>3. /\ req' \in [Deletions -> Deletion]
      /\ req'[d].at \in {"rows", "deleted", "clear"}
      /\ req'[d].at = "clear" => ~req'[d].marked
      /\ req'[d].marked = req[d].marked
      /\ \A e \in Deletions \ {d} : req'[e] = req[e]
  <2>1. CASE Goes(d, AfterErasure(d, req[d].complete))
    <3>1. /\ AfterErasure(d, req[d].complete) \in {"clear", "deleted"}
          /\ AfterErasure(d, req[d].complete) = "clear" => ~req[d].marked
      BY DEF AfterErasure
    <3>2. QED BY <1>1, <2>1, <3>1, GoesMoves DEF Running
  <2>2. CASE Fails(d, Incomplete(d, AfterErasure(d, FALSE)))
    <3>1. AfterErasure(d, FALSE) = "deleted"
      BY DEF AfterErasure
    <3>2. /\ Incomplete(d, "deleted") \in Deletion
          /\ Incomplete(d, "deleted").at = "deleted"
          /\ Incomplete(d, "deleted").marked = req[d].marked
      BY <1>1, MovedIs
    <3>3. QED BY <1>1, <2>2, <3>1, <3>2, FailsMoves
  <2>3. QED BY <2>1, <2>2 DEF EraseRows
<1>4. rows' = rows \/ rows' = [rows EXCEPT ![Owner[d]] = {}]
  BY DEF EraseRows, Erased
<1>5. /\ rows' \in [Players -> SUBSET (Writers \cup {Original})]
      /\ \A p \in Players : rows'[p] = rows[p] \/ (p = Owner[d] /\ rows'[p] = {})
  <2>1. rows \in [Players -> SUBSET (Writers \cup {Original})]
    BY <1>1 DEF TypeOK
  <2>2. CASE rows' = rows
    BY <2>1, <2>2
  <2>3. CASE rows' = [rows EXCEPT ![Owner[d]] = {}]
    BY <2>1, <2>3
  <2>4. QED BY <1>4, <2>2, <2>3
<1>6. TypeOK'
  BY <1>1, <1>2, <1>3, <1>5 DEF TypeOK
<1>7. Aged' /\ Gone'
  BY <1>1, <1>2, <1>3 DEF IInv, Aged, Gone, Reached, Running
<1>8. Unmarked' /\ MarkedEntryStaysUntilFinalPass'
  BY <1>1, <1>2, <1>3 DEF IInv, Unmarked, MarkedEntryStaysUntilFinalPass
<1>9. Owned' /\ FinalPassIsFinal'
  <2>1. live \subseteq Players /\ passed \subseteq Deletions
    BY <1>1 DEF TypeOK
  <2>2. \A e \in passed : Owner[e] \in Players
    BY <2>1, DeletionAssumption
  <2>3. QED BY <1>1, <1>2, <1>5, <2>1, <2>2 DEF IInv, Owned, FinalPassIsFinal
<1>10. QED
  BY <1>2, <1>6, <1>7, <1>8, <1>9
  DEF IInv, QuietRows, QuietBatch, QuietPassed, Quiet, Ordered, Rows, Queue, Turn

LEMMA ClearUnmarkedKeeps ==
    ASSUME IInv, NEW d \in Deletions, ClearUnmarked(d)
    PROVE  IInv'
<1>1. TypeOK /\ Ordered /\ req[d].at = "clear" /\ ~req[d].marked
  BY DEF IInv, Unmarked, ClearUnmarked
<1>2. UNCHANGED <<live, tombs, rows, age, writer, sweep, passed, inline>>
  BY DEF ClearUnmarked, identity, stores
<1>3. /\ req' \in [Deletions -> Deletion]
      /\ req'[d].at = "deleted"
      /\ req'[d].marked = req[d].marked
      /\ \A e \in Deletions \ {d} : req'[e] = req[e]
  BY <1>1, GoesMoves DEF ClearUnmarked
<1>4. /\ phase' \in [Deletions -> Phases]
      /\ earlier' \in [Deletions -> SUBSET Deletions]
      /\ phase'[d] \in {phase[d], "none"}
      /\ \A e \in Deletions \ {d} : phase'[e] = phase[e]
      /\ Ordered'
  <2>1. CASE ClearEntry(d)
    BY <1>1, <2>1, ClearEntryClears
  <2>2. CASE UNCHANGED entries
    BY <1>1, <2>2 DEF entries, TypeOK, Ordered, Rows
  <2>3. QED BY <2>1, <2>2 DEF ClearUnmarked
<1>5. TypeOK'
  BY <1>1, <1>2, <1>3, <1>4 DEF TypeOK
<1>6. Aged' /\ Gone'
  BY <1>1, <1>2, <1>3, <1>4 DEF IInv, Aged, Gone, Reached, Running
<1>7. Unmarked' /\ MarkedEntryStaysUntilFinalPass'
  BY <1>1, <1>2, <1>3, <1>4 DEF IInv, Unmarked, MarkedEntryStaysUntilFinalPass
<1>8. QuietRows' /\ QuietBatch' /\ QuietPassed'
  BY <1>1, <1>2, <1>4 DEF IInv, QuietRows, QuietBatch, QuietPassed, Quiet
<1>9. QED
  BY <1>2, <1>4, <1>5, <1>6, <1>7, <1>8
  DEF IInv, Owned, Queue, Turn, FinalPassIsFinal

LEMMA LostKeeps ==
    ASSUME IInv, NEW d \in Deletions, Lost(d)
    PROVE  IInv'
<1>1. TypeOK /\ Goes(d, "lost") /\ req[d].at \in Running
  BY DEF IInv, Lost
<1>2. UNCHANGED <<live, tombs, rows, phase, earlier, age, writer, sweep, passed, inline>>
  BY DEF Lost, identity, stores, entries
<1>3. /\ req' \in [Deletions -> Deletion]
      /\ req'[d].at = "lost"
      /\ req'[d].marked = req[d].marked
      /\ \A e \in Deletions \ {d} : req'[e] = req[e]
  BY <1>1, GoesMoves
<1>4. TypeOK'
  BY <1>1, <1>2, <1>3 DEF TypeOK
<1>5. Aged' /\ Gone' /\ Unmarked' /\ MarkedEntryStaysUntilFinalPass'
  BY <1>1, <1>2, <1>3
  DEF IInv, Aged, Gone, Reached, Running, Unmarked, MarkedEntryStaysUntilFinalPass
<1>6. QED
  BY <1>2, <1>4, <1>5
  DEF IInv, Owned, QuietRows, QuietBatch, QuietPassed, Quiet, Ordered, Rows, Queue, Turn, FinalPassIsFinal

LEMMA ElapseKeeps ==
    ASSUME IInv, NEW d \in Deletions, Elapse(d)
    PROVE  IInv'
<1>1. UNCHANGED <<live, tombs, rows, phase, earlier, req, writer, sweep, passed, inline>>
  BY DEF Elapse, identity, stores, entries
<1>2. TypeOK
  BY DEF IInv
<1>3. /\ age' \in [Deletions -> Ages]
      /\ age'[d] # "young"
      /\ \A e \in Deletions \ {d} : age'[e] = age[e]
      /\ \A e \in Deletions : age[e] # "young" => age'[e] # "young"
  BY <1>2 DEF Elapse, TypeOK, Ages
<1>4. TypeOK'
  BY <1>1, <1>2, <1>3 DEF TypeOK
<1>5. Aged'
  <2>1. req[d].at \notin Running \cup {"unsent"}
    <3>1. CASE age[d] = "young"
      BY <3>1 DEF Elapse, RequestsOver
    <3>2. CASE age[d] # "young"
      BY <3>2 DEF IInv, Aged
    <3>3. QED BY <3>1, <3>2
  <2>2. QED BY <1>1, <1>3, <2>1 DEF IInv, Aged
<1>6. Unmarked'
  <2>1. age'[d] = "stale" /\ req[d].marked => d \in passed
    <3>1. CASE age[d] = "young"
      BY <1>2, <3>1 DEF Elapse, TypeOK
    <3>2. CASE age[d] # "young"
      BY <3>2 DEF Elapse, IInv, MarkedEntryStaysUntilFinalPass
    <3>3. QED BY <3>1, <3>2
  <2>2. QED BY <1>1, <1>3, <2>1 DEF IInv, Unmarked
<1>7. QuietRows'
  <2>1. ASSUME phase[d] = "identity-deleted"
        PROVE  Quiet(d)
    <3>1. CASE age[d] = "young"
      <4>1. RequestsOver(d)
        BY <3>1 DEF Elapse
      <4>2. Owner[d] \notin live /\ (d \in inline => Owner[d] \in tombs)
        BY <2>1 DEF IInv, Gone
      <4>3. QED BY <4>1, <4>2 DEF RequestsOver, Quiet
    <3>2. CASE age[d] # "young"
      BY <2>1, <3>2 DEF IInv, QuietRows
    <3>3. QED BY <3>1, <3>2
  <2>2. QED BY <1>1, <1>3, <2>1 DEF IInv, QuietRows, Quiet
<1>8. QuietBatch' /\ QuietPassed'
  <2>1. (\A x \in sweep.batch : x.id \in Deletions) /\ passed \subseteq Deletions
    BY <1>2 DEF TypeOK, Sweep, Listed
  <2>2. QED BY <1>1, <1>3, <2>1 DEF IInv, QuietBatch, QuietPassed, Quiet
<1>9. QED
  BY <1>1, <1>4, <1>5, <1>6, <1>7, <1>8
  DEF IInv, Gone, Owned, Ordered, Rows, Queue, Turn, MarkedEntryStaysUntilFinalPass, FinalPassIsFinal

-----------------------------------------------------------------------------
(* The steps of a request that writes. *)

LEMMA AuthenticateKeeps ==
    ASSUME IInv, NEW w \in Writers, Authenticate(w)
    PROVE  IInv'
<1>1. UNCHANGED <<live, tombs, rows, phase, earlier, age, req, sweep, passed, inline>>
  BY DEF Authenticate, identity, stores, entries
<1>2. TypeOK /\ writer' = [writer EXCEPT ![w] = "check"]
  BY DEF IInv, Authenticate
<1>3. TypeOK'
  BY <1>1, <1>2 DEF TypeOK
<1>4. \A d \in Deletions : Quiet(d) => Quiet(d)'
  <2>1. SUFFICES ASSUME NEW d \in Deletions, Quiet(d) PROVE Quiet(d)'
    OBVIOUS
  <2>2. \A v \in OfPlayer(Owner[d]) : v \in Writers /\ Writes[v] = Owner[d]
    BY DEF OfPlayer
  <2>3. w \in OfPlayer(Owner[d]) => w \in Callbacks
    BY <2>1, <2>2 DEF Authenticate, Quiet
  <2>4. \A v \in Writers : writer'[v] = IF v = w THEN "check" ELSE writer[v]
    BY <1>2 DEF TypeOK
  <2>5. QED BY <1>1, <2>1, <2>2, <2>3, <2>4 DEF Quiet
<1>5. QuietRows' /\ QuietBatch' /\ QuietPassed'
  <2>1. (\A x \in sweep.batch : x.id \in Deletions) /\ passed \subseteq Deletions
    BY <1>2 DEF TypeOK, Sweep, Listed
  <2>2. QED BY <1>1, <1>4, <2>1 DEF IInv, QuietRows, QuietBatch, QuietPassed
<1>6. QED
  BY <1>1, <1>3, <1>5
  DEF IInv, Aged, Gone, Owned, Ordered, Rows, Queue, Turn, Unmarked,
      MarkedEntryStaysUntilFinalPass, FinalPassIsFinal

LEMMA CheckTombstoneKeeps ==
    ASSUME IInv, NEW w \in Writers, CheckTombstone(w)
    PROVE  IInv'
<1>1. UNCHANGED <<live, tombs, rows, phase, earlier, age, req, sweep, passed, inline>>
  BY DEF CheckTombstone, identity, stores, entries
<1>2. /\ TypeOK /\ writer[w] = "check"
      /\ writer' = [writer EXCEPT ![w] = IF Writes[w] \in tombs THEN "over" ELSE "write"]
  BY DEF IInv, CheckTombstone
<1>3. TypeOK'
  BY <1>1, <1>2 DEF TypeOK
<1>4. \A d \in Deletions : Quiet(d) => Quiet(d)'
  <2>1. SUFFICES ASSUME NEW d \in Deletions, Quiet(d) PROVE Quiet(d)'
    OBVIOUS
  <2>2. \A v \in OfPlayer(Owner[d]) : v \in Writers /\ Writes[v] = Owner[d]
    BY DEF OfPlayer
  <2>3. w \in OfPlayer(Owner[d]) => w \in Callbacks
    BY <1>2, <2>1, <2>2 DEF Quiet
  <2>4. d \in inline => Owner[d] \in tombs
    BY DEF IInv, Gone
  <2>5. \A v \in Writers \ {w} : writer'[v] = writer[v]
    BY <1>2 DEF TypeOK
  <2>6. writer'[w] = IF Writes[w] \in tombs THEN "over" ELSE "write"
    BY <1>2 DEF TypeOK
  <2>7. \A v \in OfPlayer(Owner[d]) \ Callbacks : writer'[v] \in {"idle", "over"}
    BY <2>1, <2>2, <2>3, <2>5 DEF Quiet
  <2>8. d \in inline => \A v \in OfPlayer(Owner[d]) : writer'[v] # "write"
    BY <2>1, <2>2, <2>4, <2>5, <2>6 DEF Quiet
  <2>9. QED BY <1>1, <2>1, <2>7, <2>8 DEF Quiet
<1>5. QuietRows' /\ QuietBatch' /\ QuietPassed'
  <2>1. (\A x \in sweep.batch : x.id \in Deletions) /\ passed \subseteq Deletions
    BY <1>2 DEF TypeOK, Sweep, Listed
  <2>2. QED BY <1>1, <1>4, <2>1 DEF IInv, QuietRows, QuietBatch, QuietPassed
<1>6. QED
  BY <1>1, <1>3, <1>5
  DEF IInv, Aged, Gone, Owned, Ordered, Rows, Queue, Turn, Unmarked,
      MarkedEntryStaysUntilFinalPass, FinalPassIsFinal

LEMMA WriteKeeps ==
    ASSUME IInv, NEW w \in Writers, Write(w)
    PROVE  IInv'
<1>1. UNCHANGED <<live, tombs, phase, earlier, age, req, sweep, passed, inline>>
  BY DEF Write, identity, entries
<1>2. /\ TypeOK /\ writer[w] = "write"
      /\ rows' = [rows EXCEPT ![Writes[w]] = @ \cup {w}]
      /\ writer' = [writer EXCEPT ![w] = "over"]
  BY DEF IInv, Write
<1>3. Writes[w] \in Players
  BY DeletionAssumption
<1>4. /\ rows' \in [Players -> SUBSET (Writers \cup {Original})]
      /\ \A p \in Players : rows'[p] = IF p = Writes[w] THEN rows[p] \cup {w} ELSE rows[p]
  BY <1>2, <1>3 DEF TypeOK
<1>5. TypeOK'
  BY <1>1, <1>2, <1>4 DEF TypeOK
<1>6. \A d \in Deletions : Quiet(d) => Quiet(d)'
  <2>1. SUFFICES ASSUME NEW d \in Deletions, Quiet(d) PROVE Quiet(d)'
    OBVIOUS
  <2>2. \A v \in Writers : writer'[v] = IF v = w THEN "over" ELSE writer[v]
    BY <1>2 DEF TypeOK
  <2>3. \A v \in OfPlayer(Owner[d]) : v \in Writers
    BY DEF OfPlayer
  <2>4. QED BY <1>1, <2>1, <2>2, <2>3 DEF Quiet
<1>7. QuietRows' /\ QuietBatch' /\ QuietPassed'
  <2>1. (\A x \in sweep.batch : x.id \in Deletions) /\ passed \subseteq Deletions
    BY <1>2 DEF TypeOK, Sweep, Listed
  <2>2. QED BY <1>1, <1>6, <2>1 DEF IInv, QuietRows, QuietBatch, QuietPassed
<1>8. FinalPassIsFinal'
  <2>1. SUFFICES ASSUME NEW d \in passed
                 PROVE  /\ rows'[Owner[d]] \subseteq Callbacks
                        /\ d \in inline => rows'[Owner[d]] = {}
    BY <1>1 DEF FinalPassIsFinal
  <2>2. Quiet(d) /\ d \in Deletions /\ Owner[d] \in Players
    BY <1>2, DeletionAssumption DEF IInv, QuietPassed, TypeOK
  <2>3. rows[Owner[d]] \subseteq Callbacks /\ (d \in inline => rows[Owner[d]] = {})
    BY DEF IInv, FinalPassIsFinal
  <2>4. CASE Owner[d] = Writes[w]
    <3>1. w \in OfPlayer(Owner[d])
      BY <2>4 DEF OfPlayer
    <3>2. w \in Callbacks /\ d \notin inline
      BY <1>2, <2>2, <3>1 DEF Quiet
    <3>3. QED BY <1>4, <2>2, <2>3, <3>2
  <2>5. CASE Owner[d] # Writes[w]
    BY <1>4, <2>2, <2>3, <2>5
  <2>6. QED BY <2>4, <2>5
<1>9. Owned'
  <2>1. live \subseteq Players
    BY <1>2 DEF TypeOK
  <2>2. QED BY <1>1, <1>4, <2>1 DEF IInv, Owned
<1>10. QED
  BY <1>1, <1>5, <1>7, <1>8, <1>9
  DEF IInv, Aged, Gone, Ordered, Rows, Queue, Turn, Unmarked, MarkedEntryStaysUntilFinalPass

-----------------------------------------------------------------------------
(* The steps of a sweep. *)

(* One listed row at a time has its turn.                                  *)
LEMMA OneTurn ==
    ASSUME Queue, NEW x \in sweep.batch, NEW y \in sweep.batch, Turn(x), Turn(y)
    PROVE  x = y
  BY DEF Queue, Turn

LEMMA ListedIs ==
    ASSUME TypeOK, NEW x \in sweep.batch
    PROVE  /\ x.id \in Deletions
           /\ sweep.batch \ {x} \in SUBSET Listed
           /\ Owner[x.id] \in Players
  BY DeletionAssumption DEF TypeOK, Sweep, Listed

LEMMA SweepStartsKeeps ==
    ASSUME IInv, SweepStarts
    PROVE  IInv'
<1>1. UNCHANGED <<live, tombs, rows, phase, earlier, age, req, writer, passed, inline>>
  BY DEF SweepStarts, identity, stores, entries
<1>2. sweep' = [at |-> "tombstone", batch |-> List, erased |-> TRUE]
  BY DEF SweepStarts
<1>3. TypeOK /\ Ordered
  BY DEF IInv
<1>4. Candidates \subseteq Rows /\ Rows \subseteq Deletions
  BY DEF Candidates, Rows
<1>5. \A x \in List : /\ x.id \in Candidates
                      /\ x = [id |-> x.id, phase |-> phase[x.id], after |-> Ahead(x.id)]
  BY DEF List
<1>6. \A d \in Candidates : Ahead(d) \in SUBSET Deletions /\ phase[d] \in Phases \ {"none"}
  BY <1>3, <1>4 DEF Ahead, TypeOK, Rows
<1>7. TypeOK'
  <2>1. List \in SUBSET Listed
    <3>1. \A x \in List : x \in Listed
      BY <1>4, <1>5, <1>6 DEF Listed
    <3>2. QED BY <3>1
  <2>2. sweep' \in Sweep
    BY <1>2, <2>1 DEF Sweep
  <2>3. QED BY <1>1, <1>3, <2>2 DEF TypeOK
<1>8. QuietBatch'
  <2>1. SUFFICES ASSUME NEW x \in List, x.phase = "identity-deleted"
                 PROVE  age[x.id] # "young" /\ Quiet(x.id)
    BY <1>1, <1>2 DEF QuietBatch, Quiet
  <2>2. x.id \in Candidates /\ phase[x.id] = "identity-deleted"
    BY <1>5, <2>1
  <2>3. x.id \in Deletions /\ age[x.id] # "young"
    BY <1>4, <2>2 DEF Candidates
  <2>4. QED BY <2>2, <2>3 DEF IInv, QuietRows
<1>9. Queue'
  <2>1. \A d, e \in Candidates : d = e \/ d \in Ahead(e) \/ e \in Ahead(d)
    <3>1. SUFFICES ASSUME NEW d \in Candidates, NEW e \in Candidates, d # e
                   PROVE  d \in Ahead(e) \/ e \in Ahead(d)
      OBVIOUS
    <3>2. d \in earlier[e] \/ e \in earlier[d]
      BY <1>3, <1>4, <3>1 DEF Ordered
    <3>3. phase[d] \in {"erasing", "identity-deleted"} /\ phase[e] \in {"erasing", "identity-deleted"}
      BY <1>6 DEF Phases
    <3>4. QED BY <3>1, <3>2, <3>3 DEF Ahead
  <2>2. \A x, y \in List : x = y \/ x.id \in y.after \/ y.id \in x.after
    <3>1. SUFFICES ASSUME NEW x \in List, NEW y \in List, x.id # y.id
                   PROVE  x.id \in y.after \/ y.id \in x.after
      BY <1>5
    <3>2. x.after = Ahead(x.id) /\ y.after = Ahead(y.id)
      BY <1>5
    <3>3. QED BY <1>5, <2>1, <3>1, <3>2
  <2>3. QED BY <1>2, <2>2 DEF Queue
<1>10. QED
  BY <1>1, <1>7, <1>8, <1>9
  DEF IInv, Aged, Gone, Owned, QuietRows, QuietPassed, Quiet, Ordered, Rows, Unmarked,
      MarkedEntryStaysUntilFinalPass, FinalPassIsFinal

(* What is left of a sweep after a row, and after the isolate is lost.     *)
LEMMA RestQueue ==
    ASSUME TypeOK, Queue, NEW x \in sweep.batch, sweep' = Rest(x)
    PROVE  /\ sweep' \in Sweep /\ sweep'.batch \subseteq sweep.batch
           /\ Queue'
<1>1. CASE sweep.batch = {x}
  BY <1>1 DEF Rest, NoSweep, Sweep, Queue
<1>2. CASE sweep.batch # {x}
  <2>1. sweep' = [at |-> "tombstone", batch |-> sweep.batch \ {x}, erased |-> TRUE]
    BY <1>2 DEF Rest
  <2>2. sweep' \in Sweep
    BY <2>1, ListedIs DEF Sweep
  <2>3. QED BY <2>1, <2>2 DEF Queue
<1>3. QED BY <1>1, <1>2

LEMMA SweepDiscardsKeeps ==
    ASSUME IInv, NEW x \in sweep.batch, SweepDiscards(x)
    PROVE  IInv'
<1>1. UNCHANGED <<live, tombs, rows, age, req, writer, passed, inline>>
  BY DEF SweepDiscards, identity, stores
<1>2. TypeOK /\ Ordered /\ Queue /\ sweep' = Rest(x)
  BY DEF IInv, SweepDiscards
<1>3. x.id \in Deletions
  BY <1>2, ListedIs
<1>4. sweep' \in Sweep /\ sweep'.batch \subseteq sweep.batch /\ Queue'
  BY <1>2, RestQueue
<1>5. /\ phase' \in [Deletions -> Phases]
      /\ earlier' \in [Deletions -> SUBSET Deletions]
      /\ phase'[x.id] = phase[x.id] \/ (phase'[x.id] = "none" /\ age[x.id] = "stale")
      /\ \A e \in Deletions \ {x.id} : phase'[e] = phase[e]
      /\ Ordered'
  <2>1. CASE age[x.id] = "stale" /\ ClearEntry(x.id)
    BY <1>2, <1>3, <2>1, ClearEntryClears
  <2>2. CASE UNCHANGED entries
    BY <1>2, <2>2 DEF entries, TypeOK, Ordered, Rows
  <2>3. QED BY <2>1, <2>2 DEF SweepDiscards
<1>6. TypeOK'
  BY <1>1, <1>2, <1>4, <1>5 DEF TypeOK
<1>7. Gone' /\ Unmarked' /\ MarkedEntryStaysUntilFinalPass'
  BY <1>1, <1>5 DEF IInv, Gone, Unmarked, MarkedEntryStaysUntilFinalPass
<1>8. QuietRows' /\ QuietBatch' /\ QuietPassed'
  BY <1>1, <1>4, <1>5 DEF IInv, QuietRows, QuietBatch, QuietPassed, Quiet
<1>9. QED
  BY <1>1, <1>4, <1>5, <1>6, <1>7, <1>8 DEF IInv, Aged, Owned, FinalPassIsFinal

LEMMA SweepTombstoneKeeps ==
    ASSUME IInv, NEW x \in sweep.batch, NEW ok \in BOOLEAN, SweepTombstone(x, ok)
    PROVE  IInv'
<1>1. UNCHANGED <<live, rows, phase, earlier, age, req, writer, passed, inline>>
  BY DEF SweepTombstone, identity, entries
<1>2. /\ TypeOK /\ Queue /\ Turn(x) /\ x.phase = "identity-deleted"
      /\ sweep' = [sweep EXCEPT !.at = "rows", !.erased = ok]
  BY DEF IInv, SweepTombstone
<1>3. x.id \in Deletions /\ Owner[x.id] \in Players
  BY <1>2, ListedIs
<1>4. Owner[x.id] \notin live
  BY <1>2 DEF IInv, QuietBatch, Quiet
<1>5. tombs \subseteq tombs' /\ tombs' \subseteq tombs \cup {Owner[x.id]}
  BY DEF SweepTombstone
<1>6. sweep' \in Sweep /\ sweep'.at = "rows" /\ sweep'.batch = sweep.batch
  BY <1>2 DEF TypeOK, Sweep
<1>7. TypeOK'
  BY <1>1, <1>2, <1>3, <1>5, <1>6 DEF TypeOK
<1>8. Gone'
  BY <1>1, <1>4, <1>5 DEF IInv, Gone
<1>9. QuietRows' /\ QuietBatch' /\ QuietPassed'
  BY <1>1, <1>6 DEF IInv, QuietRows, QuietBatch, QuietPassed, Quiet
<1>10. Queue'
  <2>1. \A y \in sweep.batch : Turn(y) => y.phase = "identity-deleted"
    BY <1>2, OneTurn
  <2>2. QED BY <1>2, <1>6, <2>1 DEF Queue, Turn
<1>11. QED
  BY <1>1, <1>7, <1>8, <1>9, <1>10
  DEF IInv, Aged, Owned, Ordered, Rows, Unmarked, MarkedEntryStaysUntilFinalPass, FinalPassIsFinal

LEMMA SweepRowsKeeps ==
    ASSUME IInv, NEW x \in sweep.batch, NEW ok \in BOOLEAN, SweepRows(x, ok)
    PROVE  IInv'
<1>1. UNCHANGED <<live, tombs, inline, phase, earlier, age, req, writer>>
  BY DEF SweepRows, identity, entries
<1>2. /\ TypeOK /\ Queue /\ Turn(x) /\ x.phase = "identity-deleted"
      /\ sweep' = [sweep EXCEPT !.at = "close", !.erased = @ /\ ok]
      /\ passed' = IF sweep.erased /\ ok THEN passed \cup {x.id} ELSE passed
  BY DEF IInv, SweepRows, Queue
<1>3. x.id \in Deletions /\ Owner[x.id] \in Players
  BY <1>2, ListedIs
<1>4. Owner[x.id] \notin live /\ Quiet(x.id) /\ age[x.id] # "young"
  BY <1>2 DEF IInv, QuietBatch, Quiet
<1>5. /\ sweep' \in Sweep /\ sweep'.at = "close" /\ sweep'.batch = sweep.batch
      /\ sweep'.erased = (sweep.erased /\ ok)
  BY <1>2 DEF TypeOK, Sweep
<1>6. /\ rows' \in [Players -> SUBSET (Writers \cup {Original})]
      /\ \A p \in Players : rows'[p] = rows[p] \/ (p = Owner[x.id] /\ rows'[p] = {})
      /\ ok => rows'[Owner[x.id]] = {}
  <2>1. rows \in [Players -> SUBSET (Writers \cup {Original})]
    BY <1>2 DEF TypeOK
  <2>2. CASE ok
    <3>1. rows' = [rows EXCEPT ![Owner[x.id]] = {}]
      BY <2>2 DEF SweepRows, Erased
    <3>2. QED BY <1>3, <2>1, <3>1
  <2>3. CASE ~ok
    BY <2>1, <2>3 DEF SweepRows
  <2>4. QED BY <2>2, <2>3
<1>7. passed \subseteq passed' /\ passed' \subseteq passed \cup {x.id}
  BY <1>2
<1>8. TypeOK'
  BY <1>1, <1>2, <1>3, <1>5, <1>6, <1>7 DEF TypeOK
<1>9. QuietRows' /\ QuietBatch' /\ QuietPassed'
  BY <1>1, <1>4, <1>5, <1>7 DEF IInv, QuietRows, QuietBatch, QuietPassed, Quiet
<1>10. Queue'
  <2>1. \A y \in sweep.batch : Turn(y) => y = x
    BY <1>2, OneTurn
  <2>2. sweep'.erased => x.id \in passed'
    BY <1>2, <1>5
  <2>3. QED BY <1>2, <1>5, <2>1, <2>2 DEF Queue, Turn
<1>11. Owned'
  <2>1. live \subseteq Players
    BY <1>2 DEF TypeOK
  <2>2. QED BY <1>1, <1>4, <1>6, <2>1 DEF IInv, Owned
<1>12. FinalPassIsFinal'
  <2>1. \A d \in passed' : Owner[d] \in Players
    BY <1>8, DeletionAssumption DEF TypeOK
  <2>2. \A d \in passed' : d \in passed \/ (d = x.id /\ rows'[Owner[d]] = {})
    BY <1>2, <1>6
  <2>3. QED BY <1>1, <1>6, <2>1, <2>2 DEF IInv, FinalPassIsFinal
<1>13. QED
  BY <1>1, <1>7, <1>8, <1>9, <1>10, <1>11, <1>12
  DEF IInv, Aged, Gone, Ordered, Rows, Unmarked, MarkedEntryStaysUntilFinalPass

LEMMA SweepDefersKeeps ==
    ASSUME IInv, NEW x \in sweep.batch, NEW ok \in BOOLEAN, SweepDefers(x, ok)
    PROVE  IInv'
<1>1. UNCHANGED <<live, tombs, rows, age, req, writer, passed, inline>>
  BY DEF SweepDefers, identity, stores
<1>2. /\ TypeOK /\ Ordered /\ Queue /\ sweep' = Rest(x)
      /\ Turn(x) /\ sweep.at = "close"
  BY DEF IInv, SweepDefers
<1>3. x.id \in Deletions
  BY <1>2, ListedIs
<1>4. sweep' \in Sweep /\ sweep'.batch \subseteq sweep.batch /\ Queue'
  BY <1>2, RestQueue
<1>5. x.phase = "identity-deleted"
  BY <1>2 DEF Queue
<1>6. Quiet(x.id) /\ Owner[x.id] \notin live
  BY <1>5 DEF IInv, QuietBatch, Quiet
<1>7. /\ phase' \in [Deletions -> Phases]
      /\ earlier' \in [Deletions -> SUBSET Deletions]
      /\ phase'[x.id] \in {phase[x.id], "identity-deleted"}
      /\ \A e \in Deletions \ {x.id} : phase'[e] = phase[e]
      /\ Ordered'
  <2>1. CASE PutTried(x.id)
    BY <1>2, <1>3, <2>1, PutTriedPutsLast
  <2>2. CASE UNCHANGED entries
    BY <1>2, <2>2 DEF entries, TypeOK, Ordered, Rows
  <2>3. QED BY <2>1, <2>2 DEF SweepDefers
<1>8. TypeOK'
  BY <1>1, <1>2, <1>4, <1>7 DEF TypeOK
<1>9. Gone' /\ Unmarked' /\ MarkedEntryStaysUntilFinalPass'
  BY <1>1, <1>6, <1>7 DEF IInv, Gone, Unmarked, MarkedEntryStaysUntilFinalPass
<1>10. QuietRows' /\ QuietBatch' /\ QuietPassed'
  BY <1>1, <1>4, <1>6, <1>7 DEF IInv, QuietRows, QuietBatch, QuietPassed, Quiet
<1>11. QED
  BY <1>1, <1>4, <1>7, <1>8, <1>9, <1>10 DEF IInv, Aged, Owned, FinalPassIsFinal

LEMMA SweepClearsKeeps ==
    ASSUME IInv, NEW x \in sweep.batch, NEW ok \in BOOLEAN, SweepClears(x, ok)
    PROVE  IInv'
<1>1. UNCHANGED <<live, tombs, rows, age, req, writer, passed, inline>>
  BY DEF SweepClears, identity, stores
<1>2. /\ TypeOK /\ Ordered /\ Queue /\ sweep' = Rest(x)
      /\ Turn(x) /\ sweep.at = "close" /\ sweep.erased
  BY DEF IInv, SweepClears
<1>3. x.id \in Deletions
  BY <1>2, ListedIs
<1>4. sweep' \in Sweep /\ sweep'.batch \subseteq sweep.batch /\ Queue'
  BY <1>2, RestQueue
<1>5. x.id \in passed
  BY <1>2 DEF Queue
<1>6. /\ phase' \in [Deletions -> Phases]
      /\ earlier' \in [Deletions -> SUBSET Deletions]
      /\ phase'[x.id] \in {phase[x.id], "none"}
      /\ \A e \in Deletions \ {x.id} : phase'[e] = phase[e]
      /\ Ordered'
  <2>1. CASE ClearEntry(x.id)
    BY <1>2, <1>3, <2>1, ClearEntryClears
  <2>2. CASE UNCHANGED entries
    BY <1>2, <2>2 DEF entries, TypeOK, Ordered, Rows
  <2>3. QED BY <2>1, <2>2 DEF SweepClears
<1>7. TypeOK'
  BY <1>1, <1>2, <1>4, <1>6 DEF TypeOK
<1>8. Gone' /\ Unmarked' /\ MarkedEntryStaysUntilFinalPass'
  BY <1>1, <1>5, <1>6 DEF IInv, Gone, Unmarked, MarkedEntryStaysUntilFinalPass
<1>9. QuietRows' /\ QuietBatch' /\ QuietPassed'
  BY <1>1, <1>4, <1>6 DEF IInv, QuietRows, QuietBatch, QuietPassed, Quiet
<1>10. QED
  BY <1>1, <1>4, <1>6, <1>7, <1>8, <1>9 DEF IInv, Aged, Owned, FinalPassIsFinal

LEMMA SweepLostKeeps ==
    ASSUME IInv, SweepLost
    PROVE  IInv'
<1>1. UNCHANGED <<live, tombs, rows, phase, earlier, age, req, writer, passed, inline>>
  BY DEF SweepLost, identity, stores, entries
<1>2. sweep' = [at |-> "idle", batch |-> {}, erased |-> TRUE]
  BY DEF SweepLost, NoSweep
<1>3. TypeOK' /\ QuietBatch' /\ Queue'
  BY <1>1, <1>2 DEF IInv, TypeOK, Sweep, QuietBatch, Queue
<1>4. QED
  BY <1>1, <1>3
  DEF IInv, Aged, Gone, Owned, QuietRows, QuietPassed, Quiet, Ordered, Rows, Unmarked,
      MarkedEntryStaysUntilFinalPass, FinalPassIsFinal

-----------------------------------------------------------------------------

LEMMA InitHolds == Init => IInv
<1>1. SUFFICES ASSUME Init PROVE IInv
  OBVIOUS
<1>2. 0 \in 0 .. RetryAttempts - 1
  BY DeletionAssumption
<1>3. TypeOK
  BY <1>1, <1>2 DEF Init, TypeOK, NoSweep, Sweep, Deletion, Phases, Ages
<1>4. QED
  BY <1>1, <1>3
  DEF Init, NoSweep, IInv, Aged, Gone, Owned, QuietRows, QuietBatch, QuietPassed, Ordered,
      Rows, Queue, Unmarked, MarkedEntryStaysUntilFinalPass, FinalPassIsFinal, Reached

LEMMA StepKeeps == IInv /\ [Next]_vars => IInv'
<1>1. SUFFICES ASSUME IInv, [Next]_vars PROVE IInv'
  OBVIOUS
<1>2. CASE UNCHANGED vars
  BY <1>1, <1>2
  DEF vars, IInv, TypeOK, Aged, Gone, Owned, QuietRows, QuietBatch, QuietPassed, Quiet, Ordered,
      Rows, Queue, Turn, Unmarked, MarkedEntryStaysUntilFinalPass, FinalPassIsFinal
<1>3. ASSUME NEW d \in Deletions, Request(d) \/ DeletionStep(d) \/ Lost(d) \/ Elapse(d)
      PROVE  IInv'
  BY <1>1, <1>3, RequestKeeps, RecordPendingKeeps, DeleteIdentityKeeps, MarkKeeps,
     EraseTombstoneKeeps, EraseRowsKeeps, ClearUnmarkedKeeps, LostKeeps, ElapseKeeps
  DEF DeletionStep
<1>4. ASSUME NEW w \in Writers, Authenticate(w) \/ CheckTombstone(w) \/ Write(w)
      PROVE  IInv'
  BY <1>1, <1>4, AuthenticateKeeps, CheckTombstoneKeeps, WriteKeeps
<1>5. CASE SweepStarts
  BY <1>1, <1>5, SweepStartsKeeps
<1>6. ASSUME NEW x \in sweep.batch, SweepEntry(x)
      PROVE  IInv'
  BY <1>1, <1>6, SweepDiscardsKeeps, SweepTombstoneKeeps, SweepRowsKeeps, SweepDefersKeeps,
     SweepClearsKeeps
  DEF SweepEntry
<1>7. CASE SweepLost
  BY <1>1, <1>7, SweepLostKeeps
<1>8. QED BY <1>1, <1>2, <1>3, <1>4, <1>5, <1>6, <1>7 DEF Next, SweepStep

(* However requests, writers and sweeps interleave, and whatever is lost,  *)
(* an identity-deleted entry that is due is that of a player no session or *)
(* signed-in request of whom can write any more (deletePlayerAccount,      *)
(* finishPendingAccountErasures).                                          *)
THEOREM DeletionInvariantHolds == Spec => []IInv
  BY InitHolds, StepKeeps, PTL DEF Spec

(* Every variable keeps its type.                                          *)
THEOREM TypeHolds == Spec => []TypeOK
<1>1. IInv => TypeOK
  BY DEF IInv
<1>2. QED BY <1>1, DeletionInvariantHolds, PTL

(* No deletion erases a store of a player the identity service still       *)
(* knows, and none wrote a tombstone for one (deletePlayerAccount erases   *)
(* behind the identity service's answer).                                  *)
THEOREM LivePlayersKeepTheirDataHolds == Spec => []LivePlayersKeepTheirData
<1>1. IInv => LivePlayersKeepTheirData
  BY DEF IInv, Gone, Owned, LivePlayersKeepTheirData
<1>2. QED BY <1>1, DeletionInvariantHolds, PTL

(* After the final pass of finishPendingAccountErasures nothing a session  *)
(* of the player wrote is kept, and nothing at all when the deletion's own *)
(* request wrote the tombstone, however late a request or a callback that  *)
(* had passed its check writes.                                            *)
THEOREM FinalPassIsFinalHolds == Spec => []FinalPassIsFinal
<1>1. IInv => FinalPassIsFinal
  BY DEF IInv
<1>2. QED BY <1>1, DeletionInvariantHolds, PTL

(* A deletion that was told its entry is marked identity-deleted keeps it  *)
(* until a final pass erased every store: no request, no other deletion    *)
(* and no sweep that listed the row before clears it.                      *)
THEOREM MarkedEntryStaysHolds == Spec => []MarkedEntryStaysUntilFinalPass
<1>1. IInv => MarkedEntryStaysUntilFinalPass
  BY DEF IInv
<1>2. QED BY <1>1, DeletionInvariantHolds, PTL
=============================================================================
