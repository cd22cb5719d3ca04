--------------------------- MODULE RefundProofs ---------------------------
(***************************************************************************)
(* A refund of the purchase ends every grant of it: the proof, for every   *)
(* set of players, requests and events, any number of fan-out passes,      *)
(* faults, redeliveries and admin revocations.                             *)
(*                                                                         *)
(* An event's fan-out reverses every holder it read, and a share it did    *)
(* not read was written later, when the event's entry was already on one   *)
(* of the lower slots.  The writer of that share had read all the lower    *)
(* slots, so its recheck meets the entry and closes the share: such a      *)
(* grant is Settled from the moment it is written.                         *)
(*                                                                         *)
(* The second half proves that an acknowledged event has missed nothing    *)
(* (AcknowledgedHolds): where the first grant is on the ledger before any  *)
(* refund, or where one event is delivered without loss, an entry kept out *)
(* by a used evidence id is an entry whose fan-out covers the event's.     *)
(***************************************************************************)
EXTENDS RestoreSharingProofs, SequenceTheorems, WellFoundedInduction

(* Entry v names grant g, and its identity ends with the slot of g.        *)
Names(v, g) ==
    /\ v.of = IdOf(g)
    /\ \A s \in v.ev : s # <<>> => s[Len(s)] = g.slot

(* An entry carries the player of the grant it names, or the id under which *)
(* an account deletion keeps it.                                           *)
EntrySound(v) ==
    /\ v.player = v.of[1] \/ v.player \in Kept
    /\ v.reason = "refund" => v.by \in Events
    /\ \E g \in grants : Names(v, g)

EntriesSound == \A v \in revocations : EntrySound(v)

(* Event e left an entry, or another was derived from its entry.           *)
Left(e) == \E v \in revocations : v.reason = "refund" /\ v.by = e

(* The entry caller c asked for. *)
EntryOf(c, v) ==
    /\ EntrySound(v) /\ v.player = v.of[1]
    /\ c \in Events => v.reason = "refund" /\ v.by = c
    /\ c \in Requests =>
         /\ v.reason = "refund" => Left(v.by)
         /\ <<>> \notin v.ev

FansOut == {"shares", "first", "reversed", "record", "holderBack"}

EntryEnds(v) == v.reason = "refund" /\ \E w \in revocations : w.of = v.of

CallSound(c) ==
    /\ call[c].at \notin {"idle", "end"} =>
         \E v \in call[c].entry :
            /\ call[c].entry = {v} /\ EntryOf(c, v)
            /\ call[c].at \in FansOut => EntryEnds(v)
    /\ call[c].at \in {"first", "reversed"} => call[c].seen \subseteq grants
    /\ call[c].at \in {"record", "holderBack"} => call[c].todo \subseteq grants

(* Request r wrote g, having read the holders of all the lower slots.      *)
Wrote(r, g) ==
    /\ req[r].mine = {g}
    /\ IdOf(g) = <<RequestPlayer[r], RequestKey[r]>>
    /\ g.slot > 0 => /\ req[r].seen \subseteq grants
                     /\ \A h \in grants : h.slot < g.slot => h \in req[r].seen
    /\ req[r].at = "closing" =>
         \/ call[r].at \in {"get", "insert"} /\ \A v \in call[r].entry : v.of = IdOf(g)
         \/ Reversed(g)

WriterSound(r) ==
    /\ req[r].inserted => req[r].at \in Rechecking /\ \E g \in grants : Wrote(r, g)
    /\ req[r].at \in Rechecking \ {"back"} => req[r].inserted
    /\ req[r].at = "prior" =>
         \A v \in req[r].ended : EntryEnds(v) /\ Left(v.by)
    /\ call[r].at # "idle" => req[r].at = "closing"

EventSound(e) ==
    /\ event[e].at # "settled" => event[e].outcome = "none"
    /\ event[e].at # "called" => call[e].at = "idle"

(* A purchase-wide entry names a grant of a lower slot.                    *)
EndedBelow(g) ==
    \E h \in grants, v \in revocations :
        v.of = IdOf(h) /\ v.reason = "refund" /\ h.slot < g.slot

(* The writer of g has its recheck to do, or its recheck met the entry.    *)
Late(r, g) ==
    /\ req[r].inserted /\ IdOf(g) = <<RequestPlayer[r], RequestKey[r]>>
    /\ req[r].at = "prior" => req[r].ended # {}

(* Grant g is reversed, or its writer will close it, or was lost first.    *)
Settled(g) ==
    \/ Reversed(g)
    \/ g.slot > 0 /\ g.slot \in orphans
    \/ EndedBelow(g) /\ \E r \in Requests : Late(r, g)

(* The grants event e has nothing left to do about, at each point of its    *)
(* fan-out: those it has not read.                                         *)
Fence(e) ==
    Left(e) =>
      /\ event[e].outcome = "revoked" => \A g \in grants : Settled(g)
      /\ call[e].at = "end" /\ call[e].result = "revoked" => \A g \in grants : Settled(g)
      /\ call[e].at = "first" => \A g \in grants \ call[e].seen : g.slot > 0 => Settled(g)
      /\ call[e].at = "reversed" => \A g \in grants \ call[e].seen : Settled(g)

RInv ==
    /\ EntriesSound
    /\ \A c \in Callers : CallSound(c)
    /\ \A r \in Requests : WriterSound(r)
    /\ \A e \in Events : EventSound(e) /\ Fence(e)

-----------------------------------------------------------------------------
(* What growing tables keep. *)

(* H adds to G nothing below a grant of it.                                *)
OnTop(G, H) == G \subseteq H /\ \A h \in H \ G, g \in G : ~(h.slot < g.slot)

LEMMA ReversedGrows ==
    ASSUME revocations \subseteq revocations'
    PROVE  \A g : Reversed(g) => Reversed(g)'
BY DEF Reversed, ReversedIds, RevocationsOf

LEMMA EntrySoundGrows ==
    ASSUME grants \subseteq grants'
    PROVE  \A v : EntrySound(v) => EntrySound(v)'
BY DEF EntrySound, Names, IdOf

LEMMA LeftGrows ==
    ASSUME revocations \subseteq revocations'
    PROVE  \A e : Left(e) => Left(e)'
BY DEF Left

LEMMA EndedBelowGrows ==
    ASSUME grants \subseteq grants', revocations \subseteq revocations'
    PROVE  \A g : EndedBelow(g) => EndedBelow(g)'
BY DEF EndedBelow

LEMMA CallSoundStays ==
    ASSUME NEW c \in Callers, CallSound(c), call'[c] = call[c],
           grants \subseteq grants', revocations \subseteq revocations'
    PROVE  CallSound(c)'
<1>1. \A v : EntryOf(c, v) => EntryOf(c, v)'
  BY EntrySoundGrows, LeftGrows DEF EntryOf
<1>2. \A v : EntryEnds(v) => EntryEnds(v)'
  BY DEF EntryEnds
<1> QED
  BY <1>1, <1>2 DEF CallSound

LEMMA WriterSoundStays ==
    ASSUME NEW r \in Requests, WriterSound(r), req'[r] = req[r], call'[r] = call[r],
           OnTop(grants, grants'), revocations \subseteq revocations'
    PROVE  WriterSound(r)'
<1>1. \A g \in grants : Wrote(r, g) => Wrote(r, g)'
  BY ReversedGrows DEF Wrote, IdOf, OnTop
<1>2. (\E g \in grants : Wrote(r, g)) => (\E g \in grants : Wrote(r, g))'
  BY <1>1 DEF OnTop
<1>3. \A v : EntryEnds(v) /\ Left(v.by) => EntryEnds(v)' /\ Left(v.by)'
  BY LeftGrows DEF EntryEnds
<1> QED
  BY <1>2, <1>3 DEF WriterSound

LEMMA EventSoundStays ==
    ASSUME NEW e \in Events, EventSound(e), event'[e] = event[e], call'[e] = call[e]
    PROVE  EventSound(e)'
BY DEF EventSound

(* A grant stays settled while no writer gives up the recheck of it.       *)
LEMMA SettledStays ==
    ASSUME grants \subseteq grants', revocations \subseteq revocations',
           orphans \subseteq orphans', NEW g, Settled(g),
           \A r \in Requests : EndedBelow(g) /\ Late(r, g) => Late(r, g)' \/ Settled(g)'
    PROVE  Settled(g)'
<1>1. CASE Reversed(g)
  BY <1>1, ReversedGrows DEF Settled
<1>2. CASE g.slot > 0 /\ g.slot \in orphans
  BY <1>2 DEF Settled
<1>3. CASE EndedBelow(g) /\ \E r \in Requests : Late(r, g)
  BY <1>3, EndedBelowGrows DEF Settled
<1> QED
  BY <1>1, <1>2, <1>3 DEF Settled

(* The fence of an event the step does not touch, and which left no entry   *)
(* only now.                                                               *)
LEMMA FenceStays ==
    ASSUME NEW e \in Events, Fence(e), event'[e] = event[e], call'[e] = call[e],
           Left(e)' => Left(e),
           \A g \in grants : Settled(g) => Settled(g)',
           Left(e) => \A g \in grants' : g \in grants \/ Settled(g)'
    PROVE  Fence(e)'
BY DEF Fence

(* One step, of actor c: what it must show of itself and of the grants it   *)
(* rechecks or writes; the rest of the invariant stays.                    *)
LEMMA StepKeeps ==
    ASSUME RInv, NEW c,
           OnTop(grants, grants'), revocations \subseteq revocations',
           orphans \subseteq orphans',
           \A x \in Callers \ {c} : call'[x] = call[x],
           \A x \in Requests \ {c} : req'[x] = req[x],
           \A x \in Events \ {c} : event'[x] = event[x],
           EntriesSound',
           c \in Callers => CallSound(c)',
           c \in Requests => WriterSound(c)',
           c \in Events => EventSound(c)' /\ Fence(c)',
           \A e \in Events \ {c} : Left(e)' => Left(e),
           \A e \in Events : Left(e) => \A g \in grants' : g \in grants \/ Settled(g)',
           c \in Requests =>
             \A g \in grants : EndedBelow(g) /\ Late(c, g) => Late(c, g)' \/ Settled(g)'
    PROVE  RInv'
<1> USE DEF OnTop
<1>1. \A x \in Callers : CallSound(x)'
  BY CallSoundStays DEF RInv
<1>2. Callers = Requests \cup Events
  BY RequestAssumption
<1>3. \A x \in Requests : WriterSound(x)'
  BY <1>2, WriterSoundStays DEF RInv
<1>4. \A x \in Events : EventSound(x)'
  BY <1>2, EventSoundStays DEF RInv
<1>5. ASSUME NEW g \in grants, Settled(g) PROVE Settled(g)'
  <2>1. \A r \in Requests \ {c} : Late(r, g) => Late(r, g)'
    BY DEF Late, IdOf
  <2>2. \A r \in Requests : EndedBelow(g) /\ Late(r, g) => Late(r, g)' \/ Settled(g)'
    BY <2>1
  <2> QED
    BY <1>5, <2>2, SettledStays
<1>6. ASSUME NEW x \in Events \ {c} PROVE Fence(x)'
  <2>1. Fence(x) /\ event'[x] = event[x] /\ call'[x] = call[x]
    BY <1>2 DEF RInv
  <2>2. Left(x)' => Left(x)
    OBVIOUS
  <2>3. Left(x) => \A g \in grants' : g \in grants \/ Settled(g)'
    OBVIOUS
  <2> QED
    BY <1>5, <2>1, <2>2, <2>3, FenceStays
<1>7. \A x \in Events : Fence(x)'
  BY <1>6
<1> QED
  BY <1>1, <1>3, <1>4, <1>7 DEF RInv

-----------------------------------------------------------------------------
(* Requests. *)

(* What the invariants say of one request.                                 *)
LEMMA WriterFacts ==
    ASSUME IInv, RInv, NEW r \in Requests
    PROVE  /\ r \in Callers /\ r \notin Events
           /\ req \in [Requests -> Request] /\ call \in [Callers -> Call]
           /\ CallSound(r) /\ WriterSound(r)
           /\ req[r].at \notin Rechecking => ~req[r].inserted /\ call[r].at = "idle"
<1>1. req \in [Requests -> Request] /\ call \in [Callers -> Call]
  BY DEF IInv, TypeOK, CallTypeOK
<1>2. r \in Callers /\ r \notin Events
  BY RequestAssumption
<1>3. CallSound(r) /\ WriterSound(r)
  BY <1>2 DEF RInv
<1> QED
  BY <1>1, <1>2, <1>3 DEF WriterSound, Rechecking

LEMMA RequestMoves ==
    ASSUME RInv, NEW r \in Requests,
           UNCHANGED <<grants, revocations, event>>, orphans \subseteq orphans',
           \A x \in Requests \ {r} : req'[x] = req[x],
           \A x \in Callers \ {r} : call'[x] = call[x],
           CallSound(r)', WriterSound(r)',
           \A g \in grants : EndedBelow(g) /\ Late(r, g) => Late(r, g)' \/ Settled(g)'
    PROVE  RInv'
<1>1. r \notin Events
  BY RequestAssumption
<1>2. EntriesSound'
  BY EntrySoundGrows DEF RInv, EntriesSound
<1>3. \A e \in Events : Left(e)' => Left(e)
  BY DEF Left
<1>4. OnTop(grants, grants') /\ revocations \subseteq revocations'
  BY DEF OnTop
<1>5. \A x \in Events \ {r} : event'[x] = event[x]
  OBVIOUS
<1>6. \A e \in Events : Left(e) => \A g \in grants' : g \in grants \/ Settled(g)'
  OBVIOUS
<1> QED
  BY <1>1, <1>2, <1>3, <1>4, <1>5, <1>6, StepKeeps

(* A request that has written nothing, before the step and after it.       *)
LEMMA QuietMoves ==
    ASSUME IInv, RInv, NEW r \in Requests, ~req[r].inserted,
           \A x \in Requests \ {r} : req'[x] = req[x],
           ~req'[r].inserted, req'[r].at \notin Rechecking \ {"back"},
           UNCHANGED <<grants, revocations, event>>, orphans \subseteq orphans',
           \A x \in Callers \ {r} : call'[x] = call[x], call'[r].at = "idle"
    PROVE  RInv'
<1>1. CallSound(r)'
  BY DEF CallSound
<1>2. WriterSound(r)'
  BY DEF WriterSound, Rechecking
<1>3. \A g \in grants : ~Late(r, g)
  BY DEF Late
<1> QED
  BY <1>1, <1>2, <1>3, RequestMoves

LEMMA QuietAlone ==
    ASSUME IInv, RInv, NEW r \in Requests, req[r].at \notin Rechecking,
           \A x \in Requests \ {r} : req'[x] = req[x],
           ~req'[r].inserted, req'[r].at \notin Rechecking,
           UNCHANGED <<ledgerVars, call, event, orphans>>
    PROVE  RInv'
<1>1. ~req[r].inserted /\ call[r].at = "idle"
  BY WriterFacts
<1>2. UNCHANGED <<grants, revocations, event>> /\ orphans \subseteq orphans'
  BY DEF ledgerVars
<1> QED
  BY <1>1, <1>2, QuietMoves

LEMMA QuietAnswer ==
    ASSUME IInv, RInv, NEW r \in Requests, req[r].at \notin Rechecking,
           NEW a, Answer(r, a), UNCHANGED <<ledgerVars, call, event, orphans>>
    PROVE  RInv'
<1> DEFINE q == Blank("done", a)
<1>1. q.at = "done" /\ q.inserted = FALSE
  BY DEF Blank
<1>2. req' = [req EXCEPT ![r] = q]
  BY DEF Answer
<1> HIDE DEF q
<1>3. req'[r] = q /\ \A x \in Requests \ {r} : req'[x] = req[x]
  BY <1>2, WriterFacts
<1>4. ~req'[r].inserted /\ req'[r].at \notin Rechecking
  BY <1>1, <1>3 DEF Rechecking
<1> QED
  BY <1>3, <1>4, QuietAlone

LEMMA QuietGoes ==
    ASSUME IInv, RInv, NEW r \in Requests, req[r].at \notin Rechecking,
           NEW step, step \notin Rechecking, Goes(r, step),
           UNCHANGED <<ledgerVars, call, event, orphans>>
    PROVE  RInv'
<1> DEFINE q == [req[r] EXCEPT !.at = step]
<1>1. /\ req[r] \in Request /\ ~req[r].inserted
  BY WriterFacts, RequestFacts
<1>2. q.at = step /\ q.inserted = req[r].inserted
  BY <1>1 DEF Request
<1>3. req' = [req EXCEPT ![r] = q]
  BY DEF Goes
<1> HIDE DEF q
<1>4. req'[r] = q /\ \A x \in Requests \ {r} : req'[x] = req[x]
  BY <1>3, WriterFacts
<1>5. ~req'[r].inserted /\ req'[r].at \notin Rechecking
  BY <1>1, <1>2, <1>4
<1> QED
  BY <1>4, <1>5, QuietAlone

(* A step that sets the locals a read fills in. *)
LEMMA QuietReads ==
    ASSUME IInv, RInv, NEW r \in Requests, req[r].at \notin Rechecking,
           NEW step, step \notin Rechecking, NEW seen, NEW gone, NEW mine,
           req' = [req EXCEPT ![r] = [req[r] EXCEPT !.at = step, !.seen = seen,
                                                    !.gone = gone, !.mine = mine]],
           UNCHANGED <<ledgerVars, call, event, orphans>>
    PROVE  RInv'
<1> DEFINE q == [req[r] EXCEPT !.at = step, !.seen = seen, !.gone = gone, !.mine = mine]
<1>1. /\ req[r] \in Request /\ ~req[r].inserted
  BY WriterFacts, RequestFacts
<1>2. q.at = step /\ q.inserted = req[r].inserted
  BY <1>1 DEF Request
<1>3. req' = [req EXCEPT ![r] = q]
  OBVIOUS
<1> HIDE DEF q
<1>4. req'[r] = q /\ \A x \in Requests \ {r} : req'[x] = req[x]
  BY <1>3, WriterFacts
<1>5. ~req'[r].inserted /\ req'[r].at \notin Rechecking
  BY <1>1, <1>2, <1>4
<1> QED
  BY <1>4, <1>5, QuietAlone

(* Every statement of a request before its insert, or after it met another *)
(* row under its key.                                                      *)
LEMMA QuietKeepsRefund ==
    ASSUME IInv, RInv, NEW r \in Requests,
           \/ Send(r) \/ Lookup(r) \/ Replay(r) \/ Verify(r)
           \/ BoundReadShares(r) \/ BoundReadFirst(r) \/ BoundEvidence(r)
           \/ BoundOther(r) \/ BoundOwnReversed(r)
           \/ ShareReadShares(r) \/ ShareReadFirst(r) \/ ShareReadReversed(r)
           \/ ShareDecide(r) \/ CheckTombstone(r) \/ Keyed(r) \/ KeyedReversed(r)
    PROVE  RInv'
<1>1. OnlyRequest
  BY DEF Send, Lookup, Replay, Verify, BoundReadShares, BoundReadFirst,
     BoundEvidence, BoundOther, BoundOwnReversed, ShareReadShares, ShareReadFirst,
     ShareReadReversed, ShareDecide, CheckTombstone, Keyed, KeyedReversed
<1>2. UNCHANGED <<ledgerVars, call, event, orphans>>
  BY <1>1 DEF OnlyRequest
<1>3. req[r].at \notin Rechecking
  BY DEF Send, Lookup, Replay, Verify, BoundReadShares, BoundReadFirst,
     BoundEvidence, BoundOther, BoundOwnReversed, ShareReadShares, ShareReadFirst,
     ShareReadReversed, ShareDecide, CheckTombstone, Keyed, KeyedReversed, Rechecking
<1>4. ASSUME NEW a, Answer(r, a) PROVE RInv'
  BY <1>2, <1>3, <1>4, QuietAnswer
<1>5. ASSUME NEW step \in RequestSteps \ Rechecking, Goes(r, step) PROVE RInv'
  BY <1>2, <1>3, <1>5, QuietGoes
<1>6. ASSUME NEW step \in RequestSteps \ Rechecking, NEW seen, NEW gone, NEW mine,
             req' = [req EXCEPT ![r] = [req[r] EXCEPT !.at = step, !.seen = seen,
                                                      !.gone = gone, !.mine = mine]]
      PROVE  RInv'
  BY <1>2, <1>3, <1>6, QuietReads
<1> DEFINE Steps == RequestSteps \ Rechecking
<1>7. {"lookup", "replay", "verify", "raced", "boundShares", "boundFirst", "evidence",
       "other", "ownReversed", "shares", "first", "reversed", "wide", "check",
       "insert", "keyed", "keyedReversed"} \subseteq Steps
  BY DEF RequestSteps, Rechecking
<1> HIDE DEF Steps
<1>8. CASE Send(r)
  <2>1. PICK step \in {"lookup"} : Goes(r, step)
    BY <1>8 DEF Send
  <2> QED
    BY <1>5, <1>7, <2>1 DEF Steps
<1>9. CASE Lookup(r)
  <2>1. \/ \E a : Answer(r, a)
        \/ \E step \in {"replay", "verify"} : Goes(r, step)
    BY <1>9 DEF Lookup
  <2> QED
    BY <1>4, <1>5, <1>7, <2>1 DEF Steps
<1>10. CASE Replay(r)
  <2>1. PICK a : Answer(r, a)
    BY <1>10 DEF Replay
  <2> QED
    BY <1>4, <2>1
<1>11. CASE Verify(r)
  <2>1. PICK step \in {"raced", "boundShares", "shares"} : Goes(r, step)
    BY <1>11 DEF Verify
  <2> QED
    BY <1>5, <1>7, <2>1 DEF Steps
<1>12. CASE BoundReadShares(r)
  <2>1. req' = [req EXCEPT ![r] = [req[r] EXCEPT !.at = "boundFirst", !.seen = SharesRead,
                                    !.gone = req[r].gone, !.mine = req[r].mine]]
    BY <1>12 DEF BoundReadShares
  <2> QED
    BY <1>6, <1>7, <2>1 DEF Steps
<1>13. CASE BoundReadFirst(r)
  <2>1. PICK step \in {"shares", "evidence"} : Goes(r, step)
    BY <1>13 DEF BoundReadFirst
  <2> QED
    BY <1>5, <1>7, <2>1 DEF Steps
<1>14. CASE BoundEvidence(r)
  <2>1. PICK step \in {"check", "keyed", "other"} :
          req' = [req EXCEPT ![r].mine = {Row(r, 0, FALSE)}, ![r].at = step]
    BY <1>14 DEF BoundEvidence
  <2>2. req' = [req EXCEPT ![r] = [req[r] EXCEPT !.at = step, !.seen = req[r].seen,
                             !.gone = req[r].gone, !.mine = {Row(r, 0, FALSE)}]]
    BY <2>1, RequestFacts DEF Request
  <2> QED
    BY <1>6, <1>7, <2>2 DEF Steps
<1>15. CASE BoundOther(r)
  <2>1. CASE \E a : Answer(r, a)
    BY <1>4, <2>1
  <2>2. CASE Goes(r, "shares")
    BY <1>5, <1>7, <2>2 DEF Steps
  <2>3. ASSUME NEW g \in FirstRead,
               req' = [req EXCEPT ![r].at = "ownReversed", ![r].mine = {g}]
        PROVE  RInv'
    <3>1. req' = [req EXCEPT ![r] = [req[r] EXCEPT !.at = "ownReversed",
                     !.seen = req[r].seen, !.gone = req[r].gone, !.mine = {g}]]
      BY <2>3, RequestFacts DEF Request
    <3> QED
      BY <1>6, <1>7, <3>1 DEF Steps
  <2> QED
    BY <1>15, <2>1, <2>2, <2>3 DEF BoundOther
<1>16. CASE BoundOwnReversed(r)
  <2>1. PICK a : Answer(r, a)
    BY <1>16 DEF BoundOwnReversed
  <2> QED
    BY <1>4, <2>1
<1>17. CASE ShareReadShares(r)
  <2>1. CASE req[r].tries = Attempts
    BY <1>4, <1>17, <2>1 DEF ShareReadShares
  <2>2. CASE req[r].tries # Attempts
    <3>1. req' = [req EXCEPT ![r] = [req[r] EXCEPT !.at = "first", !.seen = SharesRead,
                                     !.gone = req[r].gone, !.mine = req[r].mine]]
      BY <1>17, <2>2, RequestFacts DEF ShareReadShares, Request
    <3> QED
      BY <1>6, <1>7, <3>1 DEF Steps
  <2> QED
    BY <2>1, <2>2
<1>18. CASE ShareReadFirst(r)
  <2> DEFINE seen == req[r].seen \cup FirstRead
             step == IF seen = {} THEN "check" ELSE "reversed"
             mine == IF seen = {} THEN {Row(r, 0, TRUE)} ELSE {}
  <2>1. step \in {"check", "reversed"}
    OBVIOUS
  <2>2. req' = [req EXCEPT ![r].seen = seen, ![r].at = step, ![r].mine = mine]
    BY <1>18 DEF ShareReadFirst
  <2> HIDE DEF seen, step, mine
  <2>3. req' = [req EXCEPT ![r] = [req[r] EXCEPT !.at = step, !.seen = seen,
                                   !.gone = req[r].gone, !.mine = mine]]
    BY <2>2, RequestFacts DEF Request
  <2> QED
    BY <1>6, <1>7, <2>1, <2>3 DEF Steps
<1>19. CASE ShareReadReversed(r)
  <2>1. req' = [req EXCEPT ![r] = [req[r] EXCEPT !.at = "wide", !.seen = req[r].seen,
                                    !.gone = ReversedIds(IdsOf(req[r].seen)), !.mine = req[r].mine]]
    BY <1>19 DEF ShareReadReversed
  <2> QED
    BY <1>6, <1>7, <2>1 DEF Steps
<1>20. CASE ShareDecide(r)
  <2>1. CASE \E a : Answer(r, a)
    BY <1>4, <2>1
  <2>2. ASSUME NEW row, req' = [req EXCEPT ![r].at = "check", ![r].mine = {row}]
        PROVE  RInv'
    <3>1. req' = [req EXCEPT ![r] = [req[r] EXCEPT !.at = "check",
                     !.seen = req[r].seen, !.gone = req[r].gone, !.mine = {row}]]
      BY <2>2, RequestFacts DEF Request
    <3> QED
      BY <1>6, <1>7, <3>1 DEF Steps
  <2> QED
    BY <1>20, <2>1, <2>2 DEF ShareDecide
<1>21. CASE CheckTombstone(r)
  <2>1. \/ \E a : Answer(r, a)
        \/ \E step \in {"insert"} : Goes(r, step)
    BY <1>21 DEF CheckTombstone
  <2> QED
    BY <1>4, <1>5, <1>7, <2>1 DEF Steps
<1>22. CASE Keyed(r)
  <2>1. \/ \E a : Answer(r, a)
        \/ \E step \in {"keyedReversed"} : Goes(r, step)
    BY <1>22 DEF Keyed
  <2> QED
    BY <1>4, <1>5, <1>7, <2>1 DEF Steps
<1>23. CASE KeyedReversed(r)
  <2>1. PICK a : Answer(r, a)
    BY <1>23 DEF KeyedReversed
  <2> QED
    BY <1>4, <2>1
<1> QED
  BY <1>8, <1>9, <1>10, <1>11, <1>12, <1>13, <1>14, <1>15, <1>16, <1>17, <1>18, <1>19, <1>20, <1>21, <1>22, <1>23

LEMMA ResendKeepsRefund ==
    ASSUME IInv, RInv, NEW r \in Requests, Resend(r) PROVE RInv'
<1> DEFINE q == Blank("lookup", "none")
<1>1. q.at = "lookup" /\ q.inserted = FALSE
  BY DEF Blank
<1>2. /\ req[r].at = "done" /\ req' = [req EXCEPT ![r] = q]
      /\ UNCHANGED <<ledgerVars, call, event, orphans>>
  BY DEF Resend
<1> HIDE DEF q
<1>3. req'[r] = q /\ \A x \in Requests \ {r} : req'[x] = req[x]
  BY <1>2, WriterFacts
<1>4. /\ ~req'[r].inserted /\ req'[r].at \notin Rechecking
      /\ req[r].at \notin Rechecking
  BY <1>1, <1>2, <1>3 DEF Rechecking
<1> QED
  BY <1>2, <1>3, <1>4, QuietAlone

(* The row a request inserted: it is the one it holds in its locals.       *)
LEMMA WrittenRow ==
    ASSUME IInv, RInv, NEW r \in Requests, req[r].inserted
    PROVE  \E g \in grants : Wrote(r, g) /\ \A h : Late(r, h) => IdOf(h) = IdOf(g)
BY WriterFacts DEF WriterSound, Wrote, Late

(* Only the row itself carries its id. *)
LEMMA LateIsWritten ==
    ASSUME IInv, RInv, NEW r \in Requests, NEW g \in grants, Wrote(r, g),
           NEW h \in grants, Late(r, h)
    PROVE  h = g
BY DEF Wrote, Late, IInv, LedgerInv, LedgerIntegrity

(* A share that goes in while the purchase has an entry of the store lands  *)
(* above a grant the entry names.                                          *)
LEMMA InsertKeepsRefund ==
    ASSUME IInv, RInv, NEW r \in Requests, Insert(r) PROVE RInv'
<1>1. PICK g \in req[r].mine :
        /\ InsertGrant(g)
        /\ req' = [req EXCEPT ![r].at = "back", ![r].inserted = GrantInserts(g)]
  BY DEF Insert
<1>2. /\ req[r].at = "insert" /\ revocations' = revocations /\ call' = call
      /\ event' = event /\ orphans' = orphans
  BY DEF Insert
<1>3. /\ req[r] \in Request /\ ~req[r].inserted /\ call[r].at = "idle"
      /\ r \notin Events /\ r \in Callers
  BY <1>2, RequestFacts, WriterFacts DEF Rechecking
<1> DEFINE q == [req[r] EXCEPT !.at = "back", !.inserted = GrantInserts(g)]
<1>4. req'[r] = q /\ \A x \in Requests \ {r} : req'[x] = req[x]
  BY <1>1, WriterFacts
<1>5. /\ q.at = "back" /\ q.inserted = GrantInserts(g)
      /\ q.mine = req[r].mine /\ q.seen = req[r].seen
  BY <1>3 DEF Request
<1> HIDE DEF q
<1>6. CASE ~GrantInserts(g)
  <2>1. UNCHANGED <<grants, revocations, event>> /\ orphans \subseteq orphans'
    BY <1>1, <1>2, <1>6 DEF InsertGrant
  <2>2. ~req'[r].inserted /\ req'[r].at \notin Rechecking \ {"back"}
    BY <1>4, <1>5, <1>6
  <2> QED
    BY <1>2, <1>3, <1>4, <2>1, <2>2, QuietMoves
<1>7. CASE GrantInserts(g)
  <2>1. grants' = grants \cup {g} /\ g \in grants'
    BY <1>1, <1>7 DEF InsertGrant
  <2>2. PICK s \in Nat, a \in BOOLEAN : req[r].mine = {Row(r, s, a)}
    BY <1>2, RequestFacts DEF SoundAt
  <2>3. /\ req[r].mine = {g} /\ g.slot \in Nat
        /\ IdOf(g) = <<RequestPlayer[r], RequestKey[r]>>
    BY <2>2, RowIsGrant DEF IdOf
  <2>4. \/ g.slot > 0 /\ grants = req[r].seen
                      /\ MayWrite(r, req[r], grants, revocations, g.slot)
        \/ g.slot = 0 /\ grants = {}
    BY <1>2, <1>7, InsertFinds
  <2>5. Grows(grants, grants') /\ g \in grants' \ grants
    BY <1>2, <1>7, <2>1, RowGrows DEF GrantInserts, AtSlot
  <2>6. (g \in grants /\ Wrote(r, g))'
    <3>1. g.slot > 0 => /\ req[r].seen \subseteq grants'
                        /\ \A h \in grants' : h.slot < g.slot => h \in req[r].seen
      BY <2>1, <2>3, <2>4
    <3>2. /\ req'[r].mine = {g} /\ req'[r].seen = req[r].seen
          /\ req'[r].at # "closing"
      BY <1>4, <1>5, <2>3
    <3>3. IdOf(g)' = IdOf(g)
      BY DEF IdOf
    <3> QED
      BY <2>1, <2>3, <3>1, <3>2, <3>3 DEF Wrote
  <2>7. WriterSound(r)'
    <3>1. req'[r].at = "back" /\ req'[r].at \in Rechecking /\ call'[r].at = "idle"
      BY <1>2, <1>3, <1>4, <1>5 DEF Rechecking
    <3> QED
      BY <2>6, <3>1 DEF WriterSound
  <2>8. CallSound(r)'
    BY <1>2, <1>3 DEF CallSound
  <2>9. ASSUME NEW e \in Events, Left(e) PROVE Settled(g)'
    <3>1. PICK v \in revocations : v.reason = "refund"
      BY <2>9 DEF Left
    <3>2. PICK h \in grants : IdOf(h) = v.of
      BY <3>1 DEF RInv, EntriesSound, EntrySound, Names
    <3>3. h.slot < g.slot
      BY <2>5 DEF Grows
    <3>4. EndedBelow(g)'
      <4>1. h \in grants' /\ v \in revocations' /\ v.of = IdOf(h)
        BY <1>2, <2>1, <3>2
      <4> QED
        BY <3>1, <3>3, <4>1 DEF EndedBelow, IdOf
    <3>5. Late(r, g)'
      <4>1. req'[r].inserted /\ req'[r].at # "prior"
        BY <1>4, <1>5, <1>7
      <4> QED
        BY <2>3, <4>1 DEF Late, IdOf
    <3> QED
      BY <3>4, <3>5 DEF Settled
  <2>10. \A h : ~Late(r, h)
    BY <1>3 DEF Late
  <2>11. EntriesSound'
    BY <1>2, <2>1, EntrySoundGrows DEF RInv, EntriesSound
  <2>12. \A e \in Events : Left(e)' => Left(e)
    BY <1>2 DEF Left
  <2>13. \A e \in Events : Left(e) => \A h \in grants' : h \in grants \/ Settled(h)'
    BY <2>1, <2>9
  <2>14. OnTop(grants, grants')
    <3>1. \A h \in grants : h.slot \in Nat /\ h.slot < g.slot
      BY <2>5, RequestFacts DEF Grows, Grant
    <3> QED
      BY <2>1, <2>3, <3>1 DEF OnTop
  <2>15. /\ revocations \subseteq revocations' /\ orphans \subseteq orphans'
         /\ \A x \in Callers \ {r} : call'[x] = call[x]
         /\ \A x \in Events \ {r} : event'[x] = event[x]
    BY <1>2
  <2> QED
    BY <1>3, <1>4, <2>7, <2>8, <2>10, <2>11, <2>12, <2>13, <2>14, <2>15, StepKeeps
<1> QED
  BY <1>6, <1>7

-----------------------------------------------------------------------------
(* The recheck. *)

(* Some grant of a set that is not empty has the lowest slot.              *)
LEMMA ForemostIsSome ==
    ASSUME NEW S \in SUBSET Grant, S # {}
    PROVE  Foremost(S) # {}
<1> DEFINE less == OpToRel(<, Nat)
<1>1. Slots(S) \subseteq Nat /\ Slots(S) # {}
  BY DEF Slots, Grant
<1>2. IsWellFoundedOn(less, Nat)
  BY NatLessThanWellFounded
<1>3. PICK n \in Slots(S) : \A m \in Slots(S) : ~(<<m, n>> \in less)
  <2> HIDE DEF less
  <2> QED
    BY <1>1, <1>2, WFMin
<1>4. \A m \in Slots(S) : ~(m < n)
  BY <1>1, <1>3 DEF OpToRel
<1>5. PICK g \in S : g.slot = n
  BY DEF Slots
<1>6. \A h \in S : h.slot \in Slots(S)
  BY DEF Slots
<1>7. \A h \in S : g.slot <= h.slot
  BY <1>1, <1>4, <1>5, <1>6
<1> QED
  BY <1>7 DEF Foremost

(* Among holders one of which ended with the purchase, an entry is found.  *)
LEMMA EndingIsFound ==
    ASSUME NEW S \in SUBSET Grant, NEW h \in S, NEW v \in revocations,
           v.reason = "refund", v.of = IdOf(h)
    PROVE  FirstEnding(S) # {}
<1> DEFINE ending == {g \in S : WideOn({g}) # {}}
<1>1. v \in WideOn({h})
  BY DEF WideOn, RevocationsOf, IdsOf
<1>2. ending \in SUBSET Grant /\ ending # {}
  BY <1>1
<1>3. PICK g \in Foremost(ending) : TRUE
  <2> HIDE DEF ending
  <2> QED
    BY <1>2, ForemostIsSome
<1>4. WideOn({g}) # {}
  BY DEF Foremost
<1>5. WideOn({g}) \subseteq WideOn(Foremost(ending))
  BY DEF WideOn, RevocationsOf, IdsOf
<1> QED
  BY <1>4, <1>5 DEF FirstEnding

(* A request that wrote its row and still has its recheck to do.           *)
LEMMA WriterGoesOn ==
    ASSUME IInv, RInv, NEW r \in Requests, req[r].inserted, req[r].at # "closing",
           NEW g \in grants, Wrote(r, g), NEW q, q.inserted,
           req' = [req EXCEPT ![r] = q],
           q.at \in {"reread", "ended", "prior"},
           q.mine = {g}, q.seen = req[r].seen,
           q.at = "prior" => \A v \in q.ended : EntryEnds(v) /\ Left(v.by),
           q.at = "prior" /\ EndedBelow(g) => q.ended # {},
           UNCHANGED <<ledgerVars, call, event, orphans>>
    PROVE  RInv'
<1>1. /\ req'[r] = q /\ \A x \in Requests \ {r} : req'[x] = req[x]
      /\ call[r].at = "idle" /\ r \in Callers
  BY WriterFacts DEF WriterSound
<1>2. /\ UNCHANGED <<grants, revocations, event>> /\ orphans \subseteq orphans'
      /\ \A x \in Callers \ {r} : call'[x] = call[x]
  BY DEF ledgerVars
<1>3. CallSound(r)'
  BY <1>1 DEF CallSound
<1>4. (g \in grants /\ Wrote(r, g))'
  BY <1>1, <1>2 DEF Wrote, IdOf
<1>5. WriterSound(r)'
  BY <1>1, <1>2, <1>4 DEF WriterSound, Rechecking, EntryEnds, Left
<1>6. \A h \in grants : EndedBelow(h) /\ Late(r, h) => Late(r, h)' \/ Settled(h)'
  <2> SUFFICES ASSUME NEW h \in grants, EndedBelow(h), Late(r, h) PROVE Late(r, h)'
    OBVIOUS
  <2>1. h = g
    BY LateIsWritten
  <2>2. q.at = "prior" => q.ended # {}
    BY <2>1
  <2> QED
    BY <1>1, <2>2 DEF Late, IdOf
<1> QED
  BY <1>1, <1>2, <1>3, <1>5, <1>6, RequestMoves

LEMMA RereadKeepsRefund ==
    ASSUME IInv, RInv, NEW r \in Requests, Reread(r) PROVE RInv'
<1> DEFINE q == [req[r] EXCEPT !.at = "ended", !.mine = Own(r)]
<1>1. /\ req[r] \in Request /\ req[r].at = "reread" /\ req[r].inserted
      /\ req' = [req EXCEPT ![r] = q]
      /\ UNCHANGED <<ledgerVars, call, event, orphans>>
  BY RequestFacts, WriterFacts DEF Reread, WriterSound, Rechecking, OnlyRequest
<1>2. PICK g \in grants : Wrote(r, g)
  BY <1>1, WrittenRow
<1>3. Own(r) = {g}
  <2>1. g.player = RequestPlayer[r] /\ g.key = RequestKey[r]
    BY <1>2 DEF Wrote, IdOf
  <2>2. \A h \in Own(r) : h \in grants /\ IdOf(h) = IdOf(g)
    BY <2>1 DEF Own, ByKey, IdOf
  <2>3. \A h \in Own(r) : h = g
    BY <2>2 DEF IInv, LedgerInv, LedgerIntegrity
  <2>4. g \in Own(r)
    BY <2>1 DEF Own, ByKey
  <2> QED
    BY <2>3, <2>4
<1>4. /\ q.at = "ended" /\ q.inserted = req[r].inserted
      /\ q.mine = {g} /\ q.seen = req[r].seen
  BY <1>1, <1>3 DEF Request
<1> HIDE DEF q
<1>5. q.inserted
  BY <1>1, <1>4
<1> QED
  BY <1>1, <1>2, <1>4, <1>5, WriterGoesOn

(* The writer of g read every lower slot, so an entry on one of them is met. *)
LEMMA ReadEndedKeepsRefund ==
    ASSUME IInv, RInv, NEW r \in Requests, ReadEnded(r) PROVE RInv'
<1> DEFINE found == FirstEnding(req[r].seen \cup req[r].mine)
           q == [req[r] EXCEPT !.at = "prior", !.ended = found]
<1>1. /\ req[r] \in Request /\ req[r].at = "ended" /\ req[r].inserted
      /\ req' = [req EXCEPT ![r] = q]
      /\ UNCHANGED <<ledgerVars, call, event, orphans>>
  BY RequestFacts, WriterFacts DEF ReadEnded, WriterSound, Rechecking, OnlyRequest
<1>2. PICK g \in grants : Wrote(r, g)
  BY <1>1, WrittenRow
<1>3. \A v \in found : EntryEnds(v) /\ Left(v.by)
  BY DEF FirstEnding, WideOn, RevocationsOf, EntryEnds, Left
<1>4. ASSUME EndedBelow(g) PROVE found # {}
  <2>1. PICK h \in grants, v \in revocations :
          v.of = IdOf(h) /\ v.reason = "refund" /\ h.slot < g.slot
    BY <1>4 DEF EndedBelow
  <2>2. grants \subseteq Grant /\ h.slot \in Nat /\ g.slot \in Nat
    BY RequestFacts DEF Grant
  <2>3. h \in req[r].seen
    BY <1>2, <2>1, <2>2 DEF Wrote
  <2>4. h \in req[r].seen \cup req[r].mine
        /\ req[r].seen \cup req[r].mine \in SUBSET Grant
    BY <1>1, <2>3 DEF Request
  <2> QED
    BY <2>1, <2>4, EndingIsFound
<1> HIDE DEF found
<1>5. /\ q.at = "prior" /\ q.inserted = req[r].inserted /\ q.ended = found
      /\ q.mine = req[r].mine /\ q.seen = req[r].seen
  BY <1>1 DEF Request
<1> HIDE DEF q
<1>6. q.inserted /\ q.mine = {g}
  BY <1>1, <1>2, <1>5 DEF Wrote
<1> QED
  BY <1>1, <1>2, <1>3, <1>4, <1>5, <1>6, WriterGoesOn

(* A request that answers, or is lost, must leave its row settled.         *)
LEMMA WriterLeaves ==
    ASSUME IInv, RInv, NEW r \in Requests, NEW a, Answer(r, a),
           call'[r].at = "idle", \A x \in Callers \ {r} : call'[x] = call[x],
           UNCHANGED <<ledgerVars, event>>, orphans \subseteq orphans',
           \A h \in grants : EndedBelow(h) /\ Late(r, h) => Settled(h)'
    PROVE  RInv'
<1> DEFINE q == Blank("done", a)
<1>1. q.at = "done" /\ q.inserted = FALSE /\ req' = [req EXCEPT ![r] = q]
  BY DEF Blank, Answer
<1> HIDE DEF q
<1>2. req'[r] = q /\ \A x \in Requests \ {r} : req'[x] = req[x]
  BY <1>1, WriterFacts
<1>3. CallSound(r)'
  BY DEF CallSound
<1>4. WriterSound(r)'
  BY <1>1, <1>2 DEF WriterSound, Rechecking
<1>5. UNCHANGED <<grants, revocations, event>>
  BY DEF ledgerVars
<1> QED
  BY <1>2, <1>3, <1>4, <1>5, RequestMoves

LEMMA InsertBackKeepsRefund ==
    ASSUME IInv, RInv, NEW r \in Requests, InsertBack(r) PROVE RInv'
<1>1. /\ req[r] \in Request /\ req[r].at = "back" /\ OnlyRequest
      /\ UNCHANGED <<ledgerVars, call, event, orphans>>
  BY RequestFacts DEF InsertBack, OnlyRequest
<1>2. call[r].at = "idle" /\ call' = call
  BY <1>1, WriterFacts DEF WriterSound
<1>3. CASE ~req[r].inserted
  <2>1. PICK q : /\ req' = [req EXCEPT ![r] = q] /\ ~q.inserted
                 /\ q.at \in {"done", "other", "shares", "keyed"}
    <3>1. ASSUME NEW a, Answer(r, a)
          PROVE  \E q : /\ req' = [req EXCEPT ![r] = q] /\ ~q.inserted
                        /\ q.at \in {"done", "other", "shares", "keyed"}
      <4>1. Blank("done", a).at = "done" /\ Blank("done", a).inserted = FALSE
        BY DEF Blank
      <4> QED
        BY <3>1, <4>1 DEF Answer
    <3>2. ASSUME NEW step \in {"other", "keyed"}, Goes(r, step)
          PROVE  \E q : /\ req' = [req EXCEPT ![r] = q] /\ ~q.inserted
                        /\ q.at \in {"done", "other", "shares", "keyed"}
      <4> DEFINE q == [req[r] EXCEPT !.at = step]
      <4>1. q.at = step /\ q.inserted = req[r].inserted /\ req' = [req EXCEPT ![r] = q]
        BY <1>1, <3>2 DEF Goes, Request
      <4> QED
        BY <1>3, <4>1
    <3>3. ASSUME req' = [req EXCEPT ![r].at = "shares", ![r].mine = {},
                                    ![r].gone = {}, ![r].seen = {},
                                    ![r].tries = @ + 1]
          PROVE  \E q : /\ req' = [req EXCEPT ![r] = q] /\ ~q.inserted
                        /\ q.at \in {"done", "other", "shares", "keyed"}
      <4> DEFINE q == [req[r] EXCEPT !.at = "shares", !.mine = {}, !.gone = {},
                                     !.seen = {}, !.tries = @ + 1]
      <4>1. q.at = "shares" /\ q.inserted = req[r].inserted
        BY <1>1 DEF Request
      <4>2. req' = [req EXCEPT ![r] = q]
        BY <3>3
      <4> QED
        BY <1>3, <4>1, <4>2
    <3> QED
      BY <1>3, <3>1, <3>2, <3>3 DEF InsertBack
  <2>2. req'[r] = q /\ \A x \in Requests \ {r} : req'[x] = req[x]
    BY <2>1, WriterFacts
  <2>3. req'[r].at \notin Rechecking \ {"back"}
    BY <2>1, <2>2 DEF Rechecking
  <2>4. UNCHANGED <<grants, revocations, event>> /\ orphans \subseteq orphans'
    BY <1>1 DEF ledgerVars
  <2> QED
    BY <1>2, <1>3, <2>1, <2>2, <2>3, <2>4, QuietMoves
<1>4. CASE req[r].inserted
  <2>1. PICK g \in grants : Wrote(r, g)
    BY <1>4, WrittenRow
  <2>2. req[r].mine = {g} /\ Own(r) # {} /\ g.slot \in Nat
    BY <2>1, RequestFacts DEF Wrote, Own, ByKey, IdOf, Grant
  <2>3. CASE g.slot > 0
    <3> DEFINE q == [req[r] EXCEPT !.at = "reread"]
    <3>1. req' = [req EXCEPT ![r] = q]
      BY <1>4, <2>2, <2>3 DEF InsertBack, Goes
    <3>2. /\ q.at = "reread" /\ q.inserted = req[r].inserted
          /\ q.mine = req[r].mine /\ q.seen = req[r].seen
      BY <1>1 DEF Request
    <3> HIDE DEF q
    <3>3. q.inserted
      BY <1>4, <3>2
    <3> QED
      BY <1>1, <1>4, <2>1, <2>2, <3>1, <3>2, <3>3, WriterGoesOn
  <2>4. CASE ~(g.slot > 0)
    <3>1. Answer(r, "verified")
      BY <1>4, <2>2, <2>4 DEF InsertBack
    <3>2. ~EndedBelow(g)
      BY <2>2, <2>4, RequestFacts DEF EndedBelow, Grant
    <3>3. \A h \in grants : EndedBelow(h) /\ Late(r, h) => FALSE
      BY <2>1, <3>2, LateIsWritten
    <3> QED
      BY <1>1, <1>2, <3>1, <3>3, WriterLeaves
  <2> QED
    BY <2>3, <2>4
<1> QED
  BY <1>3, <1>4

(* The entry derived for a holder names it, and is its call's own.         *)
LEMMA HolderEntryNames ==
    ASSUME NEW v \in Revocation, NEW holder \in Grant
    PROVE  /\ Names(HolderEntry(v, holder), holder)
           /\ HolderEntry(v, holder).player = HolderEntry(v, holder).of[1]
           /\ <<>> \notin HolderEntry(v, holder).ev
           /\ HolderEntry(v, holder).by = v.by
           /\ HolderEntry(v, holder).reason = v.reason
<1>1. v.ev \subseteq Seq(Nat) /\ holder.slot \in Nat
  BY DEF Revocation, Grant
<1> DEFINE w == HolderEntry(v, holder)
<1>2. /\ w.of = IdOf(holder) /\ w.player = holder.player
      /\ w.ev = {Append(e, holder.slot) : e \in v.ev}
      /\ w.by = v.by /\ w.reason = v.reason
  BY DEF HolderEntry, Revocation
<1> HIDE DEF w
<1>3. ASSUME NEW s \in w.ev PROVE s # <<>> /\ s[Len(s)] = holder.slot
  <2>1. PICK e \in v.ev : s = Append(e, holder.slot)
    BY <1>2
  <2>2. e \in Seq(Nat)
    BY <1>1
  <2> QED
    BY <1>1, <2>1, <2>2, AppendProperties
<1>4. Names(w, holder) /\ <<>> \notin w.ev
  BY <1>2, <1>3 DEF Names
<1> QED
  BY <1>2, <1>4 DEF w, IdOf

LEMMA DecidePriorKeepsRefund ==
    ASSUME IInv, RInv, NEW r \in Requests, DecidePrior(r) PROVE RInv'
<1>1. /\ req[r] \in Request /\ req[r].at = "prior" /\ req[r].inserted
      /\ call[r].at = "idle" /\ r \in Callers
      /\ \A v \in req[r].ended : EntryEnds(v) /\ Left(v.by)
      /\ UNCHANGED <<ledgerVars, event, orphans>>
  BY RequestFacts, WriterFacts DEF DecidePrior, WriterSound, Rechecking
<1>2. PICK g \in grants : Wrote(r, g)
  BY <1>1, WrittenRow
<1>3. req[r].mine = {g} /\ g \in Grant
  BY <1>2, RequestFacts DEF Wrote
<1>4. CASE Answer(r, "verified") /\ UNCHANGED call /\ req[r].ended = {}
  <2>1. \A h \in grants : ~Late(r, h)
    BY <1>1, <1>4 DEF Late
  <2> QED
    BY <1>1, <1>4, <2>1, WriterLeaves
<1>5. CASE /\ Answer(r, "rejected") /\ UNCHANGED call
           /\ \E v \in req[r].ended : v.of = IdOf(g)
  <2>1. Reversed(g)
    BY <1>1, <1>5, ReversedBy DEF EntryEnds
  <2>2. Reversed(g)'
    BY <1>1, <2>1, ReversedGrows DEF ledgerVars
  <2>3. \A h \in grants : Late(r, h) => Settled(h)'
    BY <1>2, <2>2, LateIsWritten DEF Settled
  <2> QED
    BY <1>1, <1>5, <2>3, WriterLeaves
<1>6. CASE /\ call' = [call EXCEPT ![r] = CalledWith(Closing(r, g))]
           /\ Goes(r, "closing")
  <2>1. EntryOf(r, Closing(r, g)) /\ Closing(r, g).of = IdOf(g)
    <3>1. CASE req[r].ended = {}
      <4> DEFINE v == Closing(r, g)
      <4>1. /\ v.of = IdOf(g) /\ v.player = g.player
            /\ v.reason = "admin" /\ v.ev = {}
        BY <3>1 DEF Closing
      <4> HIDE DEF v
      <4>2. Names(v, g)
        BY <4>1 DEF Names
      <4>3. EntryOf(r, v)
        BY <4>1, <4>2, RequestAssumption DEF EntryOf, EntrySound, IdOf
      <4> QED
        BY <4>1, <4>3 DEF v
    <3>2. CASE req[r].ended # {}
      <4> DEFINE v == CHOOSE v \in req[r].ended : TRUE
      <4>1. v \in req[r].ended
        BY <3>2
      <4> HIDE DEF v
      <4>2. v.reason = "refund" /\ Left(v.by) /\ v \in Revocation
        BY <1>1, <4>1 DEF EntryEnds, Request
      <4>3. v.by \in Events
        BY <4>2 DEF RInv, EntriesSound, EntrySound, Left
      <4> DEFINE w == HolderEntry(v, g)
      <4>4. /\ Names(w, g) /\ <<>> \notin w.ev /\ w.by = v.by
            /\ w.reason = v.reason /\ w.player = w.of[1]
        BY <1>3, <4>2, HolderEntryNames
      <4>5. Closing(r, g) = w
        BY <3>2 DEF Closing, v
      <4> HIDE DEF w
      <4>6. EntryOf(r, w)
        BY <4>2, <4>3, <4>4, RequestAssumption DEF EntryOf, EntrySound
      <4> QED
        BY <4>4, <4>5, <4>6 DEF Names
    <3> QED
      BY <3>1, <3>2
  <2>2. PICK w : /\ w = Closing(r, g) /\ EntryOf(r, w) /\ w.of = IdOf(g)
                 /\ call' = [call EXCEPT ![r] = CalledWith(w)]
    BY <1>6, <2>1
  <2> DEFINE q == [req[r] EXCEPT !.at = "closing"]
             k == CalledWith(w)
  <2>3. /\ req' = [req EXCEPT ![r] = q] /\ q.at = "closing"
        /\ q.inserted = req[r].inserted /\ q.mine = {g} /\ q.seen = req[r].seen
    BY <1>1, <1>3, <1>6 DEF Goes, Request
  <2>4. k.at = "get" /\ k.entry = {w}
    BY DEF CalledWith, BlankCall
  <2> HIDE DEF q, k
  <2>5. req'[r] = q /\ \A x \in Requests \ {r} : req'[x] = req[x]
    BY <2>3, WriterFacts
  <2>6. call'[r] = k /\ \A x \in Callers \ {r} : call'[x] = call[x]
    BY <1>1, <2>2, WriterFacts DEF k
  <2>7. UNCHANGED <<grants, revocations, event>> /\ orphans \subseteq orphans'
    BY <1>1 DEF ledgerVars
  <2>8. EntryOf(r, w)'
    BY <2>2, <2>7, EntrySoundGrows, LeftGrows DEF EntryOf
  <2>9. CallSound(r)'
    BY <2>4, <2>6, <2>8 DEF CallSound, FansOut
  <2>10. (g \in grants /\ Wrote(r, g))'
    <3>1. \A v \in call'[r].entry : v.of = IdOf(g)
      BY <2>2, <2>4, <2>6
    <3>2. /\ req'[r].mine = {g} /\ req'[r].seen = req[r].seen
          /\ call'[r].at = "get" /\ IdOf(g)' = IdOf(g)
      BY <2>3, <2>4, <2>5, <2>6 DEF IdOf
    <3> QED
      BY <1>2, <2>7, <3>1, <3>2 DEF Wrote
  <2>11. WriterSound(r)'
    <3>1. req'[r].at = "closing" /\ "closing" \in Rechecking
      BY <2>3, <2>5 DEF Rechecking
    <3> QED
      BY <1>1, <2>3, <2>5, <2>10, <3>1 DEF WriterSound
  <2>12. \A h \in grants : Late(r, h) => Late(r, h)'
    BY <1>1, <2>3, <2>5 DEF Late, IdOf
  <2> QED
    BY <2>5, <2>6, <2>7, <2>9, <2>11, <2>12, RequestMoves
<1> QED
  BY <1>1, <1>3, <1>4, <1>5, <1>6 DEF DecidePrior

(* A close that succeeded reversed the row; one that failed, or was lost,   *)
(* leaves it to a resend.                                                  *)
LEMMA ClosedKeepsRefund ==
    ASSUME IInv, RInv, NEW r \in Requests, Closed(r) PROVE RInv'
<1>1. /\ req[r] \in Request /\ req[r].at = "closing" /\ req[r].inserted
      /\ call[r].at = "end" /\ call' = [call EXCEPT ![r] = IdleCall]
      /\ UNCHANGED <<ledgerVars, event>>
  BY RequestFacts, WriterFacts DEF Closed, WriterSound, Rechecking
<1>2. PICK g \in grants : Wrote(r, g)
  BY <1>1, WrittenRow
<1>3. req[r].mine = {g} /\ Reversed(g)
  BY <1>1, <1>2 DEF Wrote
<1>4. /\ call'[r].at = "idle" /\ \A x \in Callers \ {r} : call'[x] = call[x]
      /\ orphans \subseteq orphans'
  BY <1>1, WriterFacts DEF IdleCall, BlankCall, Closed
<1>5. PICK a : Answer(r, a)
  BY DEF Closed
<1>6. Reversed(g)'
  BY <1>1, <1>3, ReversedGrows DEF ledgerVars
<1>7. \A h \in grants : Late(r, h) => Settled(h)'
  BY <1>2, <1>6, LateIsWritten DEF Settled
<1> QED
  BY <1>1, <1>4, <1>5, <1>7, WriterLeaves

LEMMA LoseRequestKeepsRefund ==
    ASSUME IInv, RInv, NEW r \in Requests, LoseRequest(r) PROVE RInv'
<1>1. /\ call' = [call EXCEPT ![r] = IdleCall] /\ Answer(r, "error")
      /\ UNCHANGED <<ledgerVars, event>> /\ orphans \subseteq orphans'
  BY DEF LoseRequest
<1>2. call'[r].at = "idle" /\ \A x \in Callers \ {r} : call'[x] = call[x]
  BY <1>1, WriterFacts DEF IdleCall, BlankCall
<1>3. ASSUME NEW h \in grants, EndedBelow(h), Late(r, h) PROVE Settled(h)'
  <2>1. req[r].inserted /\ req[r].at \in Rechecking
    BY <1>3, WriterFacts DEF Late
  <2>2. PICK g \in grants : Wrote(r, g)
    BY <2>1, WrittenRow
  <2>3. h = g /\ req[r].mine = {h}
    BY <1>3, <2>2, LateIsWritten DEF Wrote
  <2>4. h.slot \in orphans'
    BY <2>1, <2>3 DEF LoseRequest
  <2>5. h.slot > 0
    BY <1>3, RequestFacts DEF EndedBelow, Grant
  <2> QED
    BY <2>4, <2>5 DEF Settled
<1> QED
  BY <1>1, <1>2, <1>3, WriterLeaves

-----------------------------------------------------------------------------
(* The store's events. *)

LEMMA EventFacts ==
    ASSUME IInv, RInv, NEW e \in Events
    PROVE  /\ e \in Callers /\ e \notin Requests
           /\ event \in [Events -> EventState] /\ call \in [Callers -> Call]
           /\ CallSound(e) /\ EventSound(e) /\ Fence(e)
<1>1. event \in [Events -> EventState] /\ call \in [Callers -> Call]
  BY DEF IInv, TypeOK, CallTypeOK
<1>2. e \in Callers /\ e \notin Requests
  BY RequestAssumption
<1> QED
  BY <1>1, <1>2 DEF RInv

LEMMA DeliveryMoves ==
    ASSUME IInv, RInv, NEW e \in Events,
           UNCHANGED <<ledgerVars, req, orphans>>,
           \A x \in Events \ {e} : event'[x] = event[x],
           \A x \in Callers \ {e} : call'[x] = call[x],
           CallSound(e)', EventSound(e)', Fence(e)'
    PROVE  RInv'
<1>1. e \notin Requests
  BY EventFacts
<1>2. grants' = grants /\ revocations' = revocations /\ orphans' = orphans
  BY DEF ledgerVars
<1>3. EntriesSound'
  BY <1>2, EntrySoundGrows DEF RInv, EntriesSound
<1>4. \A x \in Events : Left(x)' => Left(x)
  BY <1>2 DEF Left
<1>5. \A x \in Events : Left(x) => \A g \in grants' : g \in grants \/ Settled(g)'
  BY <1>2
<1>6. /\ OnTop(grants, grants') /\ revocations \subseteq revocations'
      /\ orphans \subseteq orphans' /\ \A x \in Requests \ {e} : req'[x] = req[x]
  BY <1>2 DEF OnTop
<1> QED
  BY <1>1, <1>3, <1>4, <1>5, <1>6, StepKeeps

(* A delivery that reports nothing and runs no call.                       *)
LEMMA DeliveryIdle ==
    ASSUME IInv, RInv, NEW e \in Events, NEW s \in EventState,
           event' = [event EXCEPT ![e] = s],
           s.outcome # "revoked", s.at # "settled" => s.outcome = "none",
           call'[e].at = "idle", \A x \in Callers \ {e} : call'[x] = call[x],
           UNCHANGED <<ledgerVars, req, orphans>>
    PROVE  RInv'
<1>1. event'[e] = s /\ \A x \in Events \ {e} : event'[x] = event[x]
  BY EventFacts
<1>2. CallSound(e)'
  BY DEF CallSound
<1>3. EventSound(e)'
  BY <1>1 DEF EventSound
<1>4. Fence(e)'
  BY <1>1 DEF Fence
<1> QED
  BY <1>1, <1>2, <1>3, <1>4, DeliveryMoves

(* A delivery that moves on, or is lost, without an outcome.               *)
LEMMA DeliveryGoes ==
    ASSUME IInv, RInv, NEW e \in Events, event[e].at # "settled",
           NEW step \in EventSteps, step # "settled", EventGoes(e, step),
           call'[e].at = "idle", \A x \in Callers \ {e} : call'[x] = call[x],
           UNCHANGED <<ledgerVars, req, orphans>>
    PROVE  RInv'
<1> DEFINE s == [event[e] EXCEPT !.at = step]
<1>1. event[e] \in EventState /\ event[e].outcome = "none"
  BY EventFacts DEF EventSound
<1>2. /\ s \in EventState /\ s.at = step /\ s.outcome = "none"
      /\ event' = [event EXCEPT ![e] = s]
  BY <1>1 DEF EventState, EventGoes
<1> HIDE DEF s
<1> QED
  BY <1>2, DeliveryIdle

LEMMA DeliveryCalls ==
    ASSUME IInv, RInv, NEW e \in Events, event[e].at # "settled",
           NEW g \in grants, EventCalls(e, g),
           UNCHANGED <<ledgerVars, req, orphans>>
    PROVE  RInv'
<1> DEFINE v == EventEntry(e, g)
           k == CalledWith(v)
           s == [event[e] EXCEPT !.at = "called"]
<1>1. /\ v.of = IdOf(g) /\ v.player = g.player /\ v.by = e
      /\ v.reason = "refund" /\ v.ev = {<<>>}
  BY DEF EventEntry
<1>2. k.at = "get" /\ k.entry = {v}
  BY DEF CalledWith, BlankCall
<1>3. event[e] \in EventState /\ event[e].outcome = "none"
  BY EventFacts DEF EventSound
<1>4. s.at = "called" /\ s.outcome = "none" /\ event' = [event EXCEPT ![e] = s]
  BY <1>3 DEF EventState, EventCalls, EventGoes
<1>5. call' = [call EXCEPT ![e] = k]
  BY DEF EventCalls
<1> HIDE DEF v, k, s
<1>6. /\ event'[e] = s /\ \A x \in Events \ {e} : event'[x] = event[x]
      /\ call'[e] = k /\ \A x \in Callers \ {e} : call'[x] = call[x]
  BY <1>4, <1>5, EventFacts
<1>7. PICK w : w = v
  OBVIOUS
<1>8. grants' = grants /\ revocations' = revocations
  BY DEF ledgerVars
<1>9. EntryOf(e, w)'
  <2>1. Names(w, g)
    BY <1>1, <1>7 DEF Names
  <2>2. Names(w, g)'
    BY <2>1 DEF Names, IdOf
  <2> QED
    BY <1>1, <1>7, <1>8, <2>2, EventFacts DEF EntryOf, EntrySound, IdOf
<1>10. CallSound(e)'
  BY <1>2, <1>6, <1>7, <1>9 DEF CallSound, FansOut
<1>11. EventSound(e)' /\ Fence(e)'
  BY <1>2, <1>4, <1>6 DEF EventSound, Fence
<1> QED
  BY <1>6, <1>10, <1>11, DeliveryMoves

LEMMA StoreRefundsKeepsRefund ==
    ASSUME IInv, RInv, NEW e \in Events, StoreRefunds(e) PROVE RInv'
<1>1. /\ event[e].at = "unsent" /\ EventGoes(e, "sent") /\ call' = call
      /\ UNCHANGED <<ledgerVars, req, orphans>> /\ "sent" \in EventSteps
  BY DEF StoreRefunds, EventSteps
<1>2. call[e].at = "idle"
  BY <1>1, EventFacts DEF EventSound
<1> QED
  BY <1>1, <1>2, DeliveryGoes

LEMMA EventFindFirstKeepsRefund ==
    ASSUME IInv, RInv, NEW e \in Events, EventFindFirst(e) PROVE RInv'
<1>1. /\ event[e].at = "sent" /\ UNCHANGED <<ledgerVars, req, orphans>>
      /\ {"findShare", "findLast"} \subseteq EventSteps
  BY DEF EventFindFirst, EventSteps
<1>2. call[e].at = "idle"
  BY <1>1, EventFacts DEF EventSound
<1>3. ASSUME NEW step \in {"findShare", "findLast"}, EventGoes(e, step), UNCHANGED call
      PROVE  RInv'
  BY <1>1, <1>2, <1>3, DeliveryGoes
<1>4. ASSUME NEW g \in FirstRead, EventCalls(e, g) PROVE RInv'
  BY <1>1, <1>4, DeliveryCalls DEF FirstRead
<1> QED
  BY <1>3, <1>4 DEF EventFindFirst

LEMMA EventFindShareKeepsRefund ==
    ASSUME IInv, RInv, NEW e \in Events, EventFindShare(e) PROVE RInv'
<1>1. /\ event[e].at \in {"findShare", "findLast"}
      /\ UNCHANGED <<ledgerVars, req, orphans>>
  BY DEF EventFindShare
<1>2. call[e].at = "idle"
  BY <1>1, EventFacts DEF EventSound
<1>3. ASSUME NEW s \in {[at |-> "settled", outcome |-> "ignored"],
                        [at |-> "sent", outcome |-> "none"]},
             event' = [event EXCEPT ![e] = s], UNCHANGED call
      PROVE  RInv'
  <2>1. /\ s \in EventState /\ s.outcome # "revoked"
        /\ s.at # "settled" => s.outcome = "none"
    BY DEF EventState, EventSteps, Outcomes
  <2> QED
    BY <1>1, <1>2, <1>3, <2>1, DeliveryIdle
<1>4. ASSUME NEW g \in Foremost(SharesRead), EventCalls(e, g) PROVE RInv'
  BY <1>1, <1>4, DeliveryCalls DEF Foremost, SharesRead
<1> QED
  BY <1>3, <1>4 DEF EventFindShare

(* The outcome is the result of a fan-out that left nothing to do.         *)
LEMMA EventSettlesKeepsRefund ==
    ASSUME IInv, RInv, NEW e \in Events, EventSettles(e) PROVE RInv'
<1> DEFINE out == OutcomeOf(call[e].result)
           s == IF call[e].result = "throw" THEN [at |-> "sent", outcome |-> "none"]
                ELSE [at |-> "settled", outcome |-> out]
<1>1. /\ call[e].at = "end" /\ event' = [event EXCEPT ![e] = s]
      /\ call' = [call EXCEPT ![e] = IdleCall]
      /\ UNCHANGED <<ledgerVars, req, orphans>>
  BY DEF EventSettles
<1>2. /\ s.outcome = "revoked" => call[e].result = "revoked"
      /\ s.at # "settled" => s.outcome = "none"
  BY DEF OutcomeOf
<1> HIDE DEF s
<1>3. /\ event'[e] = s /\ \A x \in Events \ {e} : event'[x] = event[x]
      /\ call'[e].at = "idle" /\ \A x \in Callers \ {e} : call'[x] = call[x]
  BY <1>1, EventFacts DEF IdleCall, BlankCall
<1>4. grants' = grants /\ revocations' = revocations /\ orphans' = orphans
      /\ req' = req
  BY <1>1 DEF ledgerVars
<1>5. \A g \in grants : Settled(g) => Settled(g)'
  BY <1>4 DEF Settled, Reversed, ReversedIds, RevocationsOf, EndedBelow, Late, IdOf
<1>6. Fence(e)'
  <2>1. Left(e)' => Left(e)
    BY <1>4 DEF Left
  <2>2. Left(e) /\ s.outcome = "revoked" => \A g \in grants : Settled(g)
    BY <1>1, <1>2, EventFacts DEF Fence
  <2> QED
    BY <1>3, <1>4, <1>5, <2>1, <2>2 DEF Fence
<1>7. CallSound(e)' /\ EventSound(e)'
  BY <1>2, <1>3 DEF CallSound, EventSound
<1> QED
  BY <1>1, <1>3, <1>6, <1>7, DeliveryMoves

LEMMA RedeliverKeepsRefund ==
    ASSUME IInv, RInv, NEW e \in Events, Redeliver(e) PROVE RInv'
<1> DEFINE s == [at |-> "sent", outcome |-> "none"]
<1>1. /\ event[e].at = "settled" /\ call' = call
      /\ event' = [event EXCEPT ![e] = s]
      /\ UNCHANGED <<ledgerVars, req, orphans>>
  BY DEF Redeliver
<1>2. call[e].at = "idle"
  BY <1>1, EventFacts DEF EventSound
<1>3. s \in EventState /\ s.outcome = "none"
  BY DEF EventState, EventSteps, Outcomes
<1> HIDE DEF s
<1> QED
  BY <1>1, <1>2, <1>3, DeliveryIdle

LEMMA LoseDeliveryKeepsRefund ==
    ASSUME IInv, RInv, NEW e \in Events, LoseDelivery(e) PROVE RInv'
<1>1. /\ event[e].at # "settled" /\ EventGoes(e, "sent") /\ "sent" \in EventSteps
      /\ call' = [call EXCEPT ![e] = IdleCall]
      /\ UNCHANGED <<ledgerVars, req, orphans>>
  BY DEF LoseDelivery, EventSteps
<1>2. call'[e].at = "idle" /\ \A x \in Callers \ {e} : call'[x] = call[x]
  BY <1>1, EventFacts DEF IdleCall, BlankCall
<1> QED
  BY <1>1, <1>2, DeliveryGoes

-----------------------------------------------------------------------------
(* revokeEntitlementGrant. *)

(* What the invariants say of a running call.                              *)
LEMMA RunningCall ==
    ASSUME IInv, RInv, NEW c \in Callers, call[c].at \notin {"idle", "end"}
    PROVE  /\ call \in [Callers -> Call] /\ call[c] \in Call
           /\ \E v \in Revocation :
                 /\ call[c].entry = {v} /\ EntryOf(c, v)
                 /\ call[c].at \in FansOut => EntryEnds(v)
           /\ CallSound(c)
           /\ c \in Requests => /\ req[c].at = "closing" /\ req[c].inserted
                                /\ \E g \in grants : Wrote(c, g)
           /\ c \in Events => event[c].at = "called" /\ event[c].outcome = "none"
<1>1. call \in [Callers -> Call] /\ call[c] \in Call /\ CallSound(c)
  BY CallFacts DEF IInv, TypeOK, CallTypeOK, RInv
<1>2. c \in Requests => /\ req[c].at = "closing" /\ req[c].inserted
                        /\ \E g \in grants : Wrote(c, g)
  BY WriterFacts DEF WriterSound, Rechecking
<1>3. c \in Events => event[c].at = "called" /\ event[c].outcome = "none"
  BY EventFacts DEF EventSound
<1>4. \E v \in Revocation :
         /\ call[c].entry = {v} /\ EntryOf(c, v)
         /\ call[c].at \in FansOut => EntryEnds(v)
  BY <1>1 DEF CallSound, Call
<1> QED
  BY <1>1, <1>2, <1>3, <1>4

LEMMA SettledSame ==
    ASSUME UNCHANGED <<grants, revocations, orphans, req>>
    PROVE  \A g : Settled(g) => Settled(g)'
BY DEF Settled, Reversed, ReversedIds, RevocationsOf, EndedBelow, Late, IdOf

(* A step of a call that reads: its writer's row stays named or reversed.  *)
LEMMA RevocationReads ==
    ASSUME IInv, RInv, NEW c \in Callers, call[c].at \notin {"idle", "end"},
           NEW k, call' = [call EXCEPT ![c] = k], k.at # "idle",
           UNCHANGED <<ledgerVars, requestVars>>,
           c \in Requests /\ call[c].at \in {"get", "insert"} =>
               k.at \in {"get", "insert"} /\ k.entry = call[c].entry,
           CallSound(c)',
           c \in Events /\ Left(c) =>
             /\ k.at = "end" /\ k.result = "revoked" => \A g \in grants : Settled(g)
             /\ k.at = "first" => \A g \in grants \ k.seen : g.slot > 0 => Settled(g)
             /\ k.at = "reversed" => \A g \in grants \ k.seen : Settled(g)
    PROVE  RInv'
<1>1. /\ grants' = grants /\ revocations' = revocations /\ orphans' = orphans
      /\ req' = req /\ event' = event
  BY DEF ledgerVars, requestVars
<1>2. call'[c] = k /\ \A x \in Callers \ {c} : call'[x] = call[x]
  BY RunningCall
<1>3. ASSUME c \in Requests PROVE WriterSound(c)'
  <2>1. PICK g \in grants : Wrote(c, g)
    BY <1>3, RunningCall
  <2>2. req[c].at = "closing" /\ req[c].inserted
    BY <1>3, RunningCall
  <2>3. \/ /\ call'[c].at \in {"get", "insert"}
           /\ \A v \in call'[c].entry : v.of = IdOf(g)
        \/ Reversed(g)
    BY <1>2, <1>3, <2>1, <2>2 DEF Wrote
  <2>4. (g \in grants /\ Wrote(c, g))'
    <3>1. Reversed(g) => Reversed(g)'
      BY <1>1, ReversedGrows
    <3>2. IdOf(g)' = IdOf(g)
      BY DEF IdOf
    <3> QED
      BY <1>1, <2>1, <2>2, <2>3, <3>1, <3>2 DEF Wrote
  <2> QED
    BY <1>1, <2>2, <2>4 DEF WriterSound, Rechecking
<1>4. ASSUME c \in Events PROVE EventSound(c)' /\ Fence(c)'
  <2>1. event'[c].at = "called" /\ event'[c].outcome = "none"
    BY <1>1, <1>4, RunningCall
  <2>2. EventSound(c)'
    BY <2>1 DEF EventSound
  <2>3. Left(c)' => Left(c)
    BY <1>1 DEF Left
  <2>4. \A g : Settled(g) => Settled(g)'
    BY <1>1, SettledSame
  <2>5. Fence(c)'
    BY <1>1, <1>2, <1>4, <2>1, <2>3, <2>4 DEF Fence
  <2> QED
    BY <2>2, <2>5
<1>5. EntriesSound'
  BY <1>1, EntrySoundGrows DEF RInv, EntriesSound
<1>6. \A x \in Events : Left(x)' => Left(x)
  BY <1>1 DEF Left
<1>7. \A x \in Events : Left(x) => \A g \in grants' : g \in grants \/ Settled(g)'
  BY <1>1
<1>8. c \in Requests =>
        \A g \in grants : EndedBelow(g) /\ Late(c, g) => Late(c, g)' \/ Settled(g)'
  BY <1>1 DEF Late, IdOf
<1>9. /\ OnTop(grants, grants') /\ revocations \subseteq revocations'
      /\ orphans \subseteq orphans'
      /\ \A x \in Requests \ {c} : req'[x] = req[x]
      /\ \A x \in Events \ {c} : event'[x] = event[x]
  BY <1>1 DEF OnTop
<1> QED
  BY <1>2, <1>3, <1>4, <1>5, <1>6, <1>7, <1>8, <1>9, StepKeeps

(* A call that ends without revoking. *)
LEMMA RevocationFails ==
    ASSUME IInv, RInv, NEW c \in Callers, call[c].at \notin {"idle", "end"},
           NEW result, result # "revoked", CallEnds(c, result),
           ~(c \in Requests /\ call[c].at \in {"get", "insert"}),
           UNCHANGED <<ledgerVars, requestVars>>
    PROVE  RInv'
<1> DEFINE k == BlankCall("end", {}, result)
<1>1. k.at = "end" /\ k.result = result /\ call' = [call EXCEPT ![c] = k]
  BY DEF BlankCall, CallEnds
<1> HIDE DEF k
<1>2. call'[c].at = "end"
  BY <1>1, RunningCall
<1>3. CallSound(c)'
  BY <1>2 DEF CallSound
<1> QED
  BY <1>1, <1>3, RevocationReads

(* The call moves on to a step that says nothing of the holders read.      *)
LEMMA RevocationGoes ==
    ASSUME IInv, RInv, NEW c \in Callers, call[c].at \notin {"idle", "end"},
           NEW step \in {"insert", "shares"}, CallGoes(c, step),
           step = "insert" <=> call[c].at = "get",
           step = "shares" => \A v \in call[c].entry : EntryEnds(v),
           c \in Requests => call[c].at # "insert",
           UNCHANGED <<ledgerVars, requestVars>>
    PROVE  RInv'
<1> DEFINE k == [call[c] EXCEPT !.at = step]
<1>1. /\ k.at = step /\ k.entry = call[c].entry /\ call' = [call EXCEPT ![c] = k]
  BY RunningCall DEF CallGoes, Call
<1> HIDE DEF k
<1>2. call'[c] = k
  BY <1>1, RunningCall
<1>3. PICK v : v \in Revocation /\ call[c].entry = {v} /\ EntryOf(c, v)
  BY RunningCall
<1>4. grants' = grants /\ revocations' = revocations
  BY DEF ledgerVars
<1>5. EntryOf(c, v)'
  BY <1>3, <1>4, EntrySoundGrows, LeftGrows DEF EntryOf
<1>6. step = "shares" => EntryEnds(v)'
  BY <1>3, <1>4 DEF EntryEnds
<1>7. CallSound(c)'
  BY <1>1, <1>2, <1>3, <1>5, <1>6 DEF CallSound, FansOut
<1> QED
  BY <1>1, <1>7, RevocationReads

LEMMA CallGetKeepsRefund ==
    ASSUME IInv, RInv, NEW c \in Callers, CallGet(c), UNCHANGED requestVars
    PROVE  RInv'
<1>1. /\ call[c].at = "get" /\ UNCHANGED <<ledgerVars, requestVars>>
  BY DEF CallGet
<1>2. ASSUME NEW result \in {"grant_not_found", "grant_mismatch"}, CallEnds(c, result),
             c \notin Requests
      PROVE  RInv'
  BY <1>1, <1>2, RevocationFails
<1>3. ASSUME CallGoes(c, "insert") PROVE RInv'
  BY <1>1, <1>3, RevocationGoes
<1>4. ASSUME c \in Requests PROVE CallGoes(c, "insert")
  <2>1. PICK v : call[c].entry = {v} /\ EntryOf(c, v)
    BY <1>1, RunningCall
  <2>2. PICK g \in grants : Names(v, g)
    BY <2>1 DEF EntryOf, EntrySound
  <2>3. g \in ById(v.of)
    BY <2>2 DEF Names, ById
  <2>4. \A h \in ById(v.of) : h.player = v.player
    BY <2>1 DEF EntryOf, ById, IdOf
  <2> QED
    BY <2>1, <2>3, <2>4 DEF CallGet
<1> QED
  BY <1>2, <1>3, <1>4 DEF CallGet

(* An entry for a player's grant that is not the event's own goes in, or    *)
(* meets an entry of the same grant: its key and its identity are that      *)
(* grant's alone.                                                          *)
LEMMA InsertEnds ==
    ASSUME IInv, RInv, NEW w, NEW g \in grants, Names(w, g), g.player \in Players,
           w.player = w.of[1],
           <<>> \notin w.ev, InsertRevocation(w), grants' = grants
    PROVE  Reversed(g)'
<1>1. CASE RevocationInserts(w)
  <2>1. w \in revocations' /\ w.of = IdOf(g)
    BY <1>1 DEF InsertRevocation, Names
  <2> QED
    BY <2>1 DEF Reversed, ReversedIds, RevocationsOf, IdOf
<1>2. CASE ~RevocationInserts(w)
  <2>1. revocations' = revocations
    BY <1>2 DEF InsertRevocation
  <2>2. PICK x \in revocations :
          \/ x.of = w.of
          \/ x.player = w.player /\ x.key = w.key
          \/ x.ev \cap w.ev # {}
    BY <1>2 DEF RevocationInserts
  <2>3. PICK h \in grants : Names(x, h)
    BY DEF RInv, EntriesSound, EntrySound
  <2>4. CASE x.of = w.of
    BY <2>1, <2>4, ReversedBy DEF Names, Reversed, ReversedIds, RevocationsOf, IdOf
  <2>5. CASE x.player = w.player
    <3>1. x.player = g.player /\ ~IsKept(g)
      BY <2>5, RequestAssumption DEF Names, IdOf, IsKept
    <3>2. h.player = g.player
      BY <2>3, <3>1 DEF Names, IdOf, IsKept, RInv, EntriesSound, EntrySound
    <3>3. h = g
      BY <3>1, <3>2 DEF IInv, LedgerInv, OneGrantPerPlayer
    <3> QED
      BY <2>3, <2>4, <3>3 DEF Names
  <2>6. CASE x.ev \cap w.ev # {}
    <3>1. PICK s : s \in x.ev /\ s \in w.ev
      BY <2>6
    <3>2. s # <<>> /\ s[Len(s)] = g.slot /\ s[Len(s)] = h.slot
      BY <2>3, <3>1 DEF Names
    <3>3. h = g
      BY <3>2 DEF IInv, LedgerInv, LedgerIntegrity
    <3> QED
      BY <2>3, <2>4, <3>3 DEF Names
  <2> QED
    BY <2>2, <2>4, <2>5, <2>6
<1> QED
  BY <1>1, <1>2

(* A step of a call that appends entry w.                                  *)
LEMMA RevocationWrites ==
    ASSUME IInv, RInv, NEW c \in Callers, call[c].at \notin {"idle", "end"},
           NEW k, call' = [call EXCEPT ![c] = k], k.at \in {"back", "holderBack"},
           NEW w, EntrySound(w),
           c \in Events => w.by = c,
           c \in Requests /\ w.reason = "refund" => Left(w.by),
           InsertRevocation(w), UNCHANGED <<grants, tombstones, requestVars>>,
           c \in Requests => \A g \in grants : Wrote(c, g) => Reversed(g)',
           CallSound(c)'
    PROVE  RInv'
<1>1. /\ grants' = grants /\ orphans' = orphans /\ req' = req /\ event' = event
      /\ revocations \subseteq revocations' /\ revocations' \subseteq revocations \cup {w}
  BY DEF requestVars, InsertRevocation
<1>2. call'[c] = k /\ \A x \in Callers \ {c} : call'[x] = call[x]
  BY RunningCall
<1>3. ASSUME c \in Requests PROVE WriterSound(c)'
  <2>1. PICK g \in grants : Wrote(c, g)
    BY <1>3, RunningCall
  <2>2. req[c].at = "closing" /\ req[c].inserted /\ Reversed(g)'
    BY <1>3, <2>1, RunningCall
  <2>3. (g \in grants /\ Wrote(c, g))'
    BY <1>1, <2>1, <2>2 DEF Wrote, IdOf
  <2> QED
    BY <1>1, <2>2, <2>3 DEF WriterSound, Rechecking
<1>4. ASSUME c \in Events PROVE EventSound(c)' /\ Fence(c)'
  <2>1. event'[c].at = "called" /\ event'[c].outcome = "none"
    BY <1>1, <1>4, RunningCall
  <2> QED
    BY <1>2, <2>1 DEF EventSound, Fence
<1>5. EntriesSound'
  <2>1. \A v : EntrySound(v) => EntrySound(v)'
    BY <1>1, EntrySoundGrows
  <2>2. \A v \in revocations' : EntrySound(v)'
    BY <1>1, <2>1 DEF RInv, EntriesSound
  <2> QED
    BY <2>2 DEF EntriesSound
<1>6. \A x \in Events \ {c} : Left(x)' => Left(x)
  <2> SUFFICES ASSUME NEW x \in Events, x # c, Left(x)' PROVE Left(x)
    OBVIOUS
  <2>1. PICK v \in revocations' : v.reason = "refund" /\ v.by = x
    BY DEF Left
  <2>2. CASE v \in revocations
    BY <2>1, <2>2 DEF Left
  <2>3. CASE v = w
    <3>1. c \notin Events
      BY <2>1, <2>3
    <3>2. c \in Requests
      BY <3>1, RequestAssumption
    <3>3. Left(w.by)
      BY <2>1, <2>3, <3>2
    <3> QED
      BY <2>1, <2>3, <3>3
  <2> QED
    BY <1>1, <2>2, <2>3
<1>7. \A x \in Events : Left(x) => \A g \in grants' : g \in grants \/ Settled(g)'
  BY <1>1
<1>8. c \in Requests =>
        \A g \in grants : EndedBelow(g) /\ Late(c, g) => Late(c, g)' \/ Settled(g)'
  BY <1>1 DEF Late, IdOf
<1>9. /\ OnTop(grants, grants') /\ orphans \subseteq orphans'
      /\ \A x \in Requests \ {c} : req'[x] = req[x]
      /\ \A x \in Events \ {c} : event'[x] = event[x]
  BY <1>1 DEF OnTop
<1> QED
  BY <1>1, <1>2, <1>3, <1>4, <1>5, <1>6, <1>7, <1>8, <1>9, StepKeeps

LEMMA CallInsertKeepsRefund ==
    ASSUME IInv, RInv, NEW c \in Callers, CallInsert(c), UNCHANGED requestVars
    PROVE  RInv'
<1>1. call[c].at = "insert" /\ UNCHANGED <<grants, tombstones, requestVars>>
  BY DEF CallInsert
<1>2. PICK v : v \in Revocation /\ call[c].entry = {v} /\ EntryOf(c, v)
  BY <1>1, RunningCall
<1>3. PICK g \in grants : Names(v, g)
  BY <1>2 DEF EntryOf, EntrySound
<1>4. g \in ById(v.of)
  BY <1>3 DEF ById, Names
<1>5. InsertRevocation(v) /\ CallGoes(c, "back")
  BY <1>2, <1>4 DEF CallInsert, Refused
<1> DEFINE k == [call[c] EXCEPT !.at = "back"]
<1>6. k.at = "back" /\ k.entry = {v} /\ call' = [call EXCEPT ![c] = k]
  BY <1>1, <1>2, <1>5, RunningCall DEF CallGoes, Call
<1> HIDE DEF k
<1>7. grants' = grants /\ revocations \subseteq revocations'
  BY <1>1, <1>5 DEF InsertRevocation
<1>8. EntryOf(c, v)'
  BY <1>2, <1>7, EntrySoundGrows, LeftGrows DEF EntryOf
<1>9. call'[c] = k
  BY <1>1, <1>6, RunningCall
<1>10. CallSound(c)'
  BY <1>6, <1>8, <1>9 DEF CallSound, FansOut
<1>11. ASSUME c \in Requests, NEW h \in grants, Wrote(c, h) PROVE Reversed(h)'
  <2>1. req[c].at = "closing"
    BY <1>1, <1>11, RunningCall
  <2>2. CASE Reversed(h)
    BY <1>7, <2>2, ReversedGrows
  <2>3. CASE v.of = IdOf(h)
    <3>1. g = h
      BY <1>3, <2>3 DEF Names, IInv, LedgerInv, LedgerIntegrity
    <3>2. h.player \in Players
      BY <1>11, RequestAssumption DEF Wrote, IdOf
    <3>3. <<>> \notin v.ev /\ v.player = v.of[1]
      BY <1>2, <1>11 DEF EntryOf
    <3> QED
      BY <1>3, <1>5, <1>7, <3>1, <3>2, <3>3, InsertEnds
  <2> QED
    BY <1>2, <1>11, <2>1, <2>2, <2>3 DEF Wrote
<1> QED
  BY <1>1, <1>2, <1>5, <1>6, <1>10, <1>11, RevocationWrites DEF EntryOf

(* "recorded" is read back only of a grant that has its entry.             *)
LEMMA CallReadBackKeepsRefund ==
    ASSUME IInv, RInv, NEW c \in Callers, CallReadBack(c), UNCHANGED requestVars
    PROVE  RInv'
<1>1. call[c].at = "back" /\ UNCHANGED <<ledgerVars, requestVars>>
  BY DEF CallReadBack
<1>2. PICK v : v \in Revocation /\ call[c].entry = {v} /\ EntryOf(c, v)
  BY <1>1, RunningCall
<1> DEFINE found == ReadBack(v.player, v.key, v.of)
<1>3. found \notin {"key_conflict", "evidence"} => \E w \in revocations : w.of = v.of
  <2> DEFINE byKey == {w \in revocations : w.player = v.player /\ w.key = v.key}
  <2>1. found = IF byKey = {}
                THEN IF ReversedIds({v.of}) # {} THEN "recorded" ELSE "evidence"
                ELSE IF \A w \in byKey : w.of = v.of THEN "recorded" ELSE "key_conflict"
    BY DEF ReadBack
  <2>2. ReversedIds({v.of}) # {} => \E w \in revocations : w.of = v.of
    BY DEF ReversedIds, RevocationsOf
  <2>3. byKey # {} /\ (\A w \in byKey : w.of = v.of) => \E w \in revocations : w.of = v.of
    OBVIOUS
  <2> HIDE DEF byKey, found
  <2> QED
    BY <2>1, <2>2, <2>3
<1> HIDE DEF found
<1>4. ASSUME NEW result \in {"key_conflict", "evidence_already_processed"},
             CallEnds(c, result)
      PROVE  RInv'
  BY <1>1, <1>4, RevocationFails
<1>5. ASSUME v.reason # "refund", CallEnds(c, "revoked") PROVE RInv'
  <2> DEFINE k == BlankCall("end", {}, "revoked")
  <2>1. k.at = "end" /\ call' = [call EXCEPT ![c] = k]
    BY <1>5 DEF BlankCall, CallEnds
  <2> HIDE DEF k
  <2>2. call'[c].at = "end"
    BY <1>1, <2>1, RunningCall
  <2>3. CallSound(c)'
    BY <2>2 DEF CallSound
  <2>4. c \notin Events
    BY <1>2, <1>5 DEF EntryOf
  <2> QED
    BY <1>1, <2>1, <2>3, <2>4, RevocationReads
<1>6. ASSUME v.reason = "refund", found \notin {"key_conflict", "evidence"},
             CallGoes(c, "shares")
      PROVE  RInv'
  <2>1. EntryEnds(v)
    BY <1>3, <1>6 DEF EntryEnds
  <2> QED
    BY <1>1, <1>2, <1>6, <2>1, RevocationGoes
<1> QED
  BY <1>2, <1>4, <1>5, <1>6 DEF CallReadBack, found

LEMMA EntryStays ==
    ASSUME NEW c \in Callers, NEW v, EntryOf(c, v), EntryEnds(v),
           grants \subseteq grants', revocations \subseteq revocations'
    PROVE  EntryOf(c, v)' /\ EntryEnds(v)'
BY EntrySoundGrows, LeftGrows DEF EntryOf, EntryEnds

LEMMA CallReadSharesKeepsRefund ==
    ASSUME IInv, RInv, NEW c \in Callers, CallReadShares(c), UNCHANGED requestVars
    PROVE  RInv'
<1>1. call[c].at = "shares" /\ UNCHANGED <<ledgerVars, requestVars>>
  BY DEF CallReadShares
<1>2. CASE CallEnds(c, "throw")
  BY <1>1, <1>2, RevocationFails
<1>3. CASE call' = [call EXCEPT ![c].at = "first", ![c].seen = SharesRead]
  <2> DEFINE k == [call[c] EXCEPT !.at = "first", !.seen = SharesRead]
  <2>1. /\ k.at = "first" /\ k.entry = call[c].entry /\ k.seen = SharesRead
        /\ call' = [call EXCEPT ![c] = k]
    BY <1>1, <1>3, RunningCall DEF Call
  <2> HIDE DEF k
  <2>2. PICK v : v \in Revocation /\ call[c].entry = {v} /\ EntryOf(c, v) /\ EntryEnds(v)
    BY <1>1, RunningCall DEF FansOut
  <2>3. grants' = grants /\ revocations' = revocations /\ call'[c] = k
    BY <1>1, <2>1, RunningCall DEF ledgerVars
  <2>4. EntryOf(c, v)' /\ EntryEnds(v)'
    BY <2>2, <2>3, EntryStays
  <2>5. SharesRead \subseteq grants /\ \A g \in grants \ SharesRead : ~(g.slot > 0)
    BY DEF SharesRead
  <2>6. CallSound(c)'
    BY <2>1, <2>2, <2>3, <2>4, <2>5 DEF CallSound
  <2> QED
    BY <1>1, <2>1, <2>5, <2>6, RevocationReads
<1> QED
  BY <1>2, <1>3 DEF CallReadShares

LEMMA CallReadFirstKeepsRefund ==
    ASSUME IInv, RInv, NEW c \in Callers, CallReadFirst(c), UNCHANGED requestVars
    PROVE  RInv'
<1> DEFINE seen == call[c].seen \cup FirstRead
           k == [call[c] EXCEPT !.at = "reversed", !.seen = seen]
<1>1. call[c].at = "first" /\ UNCHANGED <<ledgerVars, requestVars>>
  BY DEF CallReadFirst
<1>2. /\ k.at = "reversed" /\ k.entry = call[c].entry /\ k.seen = seen
      /\ call' = [call EXCEPT ![c] = k]
  BY <1>1, RunningCall DEF Call, CallReadFirst
<1>3. /\ seen \subseteq grants
      /\ \A g \in grants \ seen : g \notin call[c].seen /\ g.slot > 0
  BY <1>1, RunningCall, RequestFacts, CallFacts DEF CallSound, FirstRead, Grant
<1> HIDE DEF k, seen
<1>4. PICK v : v \in Revocation /\ call[c].entry = {v} /\ EntryOf(c, v) /\ EntryEnds(v)
  BY <1>1, RunningCall DEF FansOut
<1>5. grants' = grants /\ revocations' = revocations /\ call'[c] = k
  BY <1>1, <1>2, RunningCall DEF ledgerVars
<1>6. EntryOf(c, v)' /\ EntryEnds(v)'
  BY <1>4, <1>5, EntryStays
<1>7. CallSound(c)'
  BY <1>2, <1>3, <1>4, <1>5, <1>6 DEF CallSound
<1>8. c \in Events /\ Left(c) => \A g \in grants \ seen : Settled(g)
  BY <1>1, <1>3, EventFacts DEF Fence
<1> QED
  BY <1>1, <1>2, <1>7, <1>8, RevocationReads

(* A pass that finds no holder active has all of them settled: the ones it  *)
(* read are reversed, and a share written since is its writer's to close.  *)
LEMMA CallReadReversedKeepsRefund ==
    ASSUME IInv, RInv, NEW c \in Callers, CallReadReversed(c), UNCHANGED requestVars
    PROVE  RInv'
<1>1. call[c].at = "reversed" /\ UNCHANGED <<ledgerVars, requestVars>>
  BY DEF CallReadReversed
<1>2. PICK v : v \in Revocation /\ call[c].entry = {v} /\ EntryOf(c, v) /\ EntryEnds(v)
  BY <1>1, RunningCall DEF FansOut
<1> DEFINE others == {g \in call[c].seen : IdOf(g) # v.of}
           active == {g \in others : IdOf(g) \notin ReversedIds(IdsOf(others))}
<1>3. IF active = {} THEN CallEnds(c, "revoked")
      ELSE call' = [call EXCEPT ![c].at = "record", ![c].todo = active]
  BY <1>2 DEF CallReadReversed
<1>4. grants' = grants /\ revocations' = revocations
  BY <1>1 DEF ledgerVars
<1>5. CASE active = {}
  <2> DEFINE k == BlankCall("end", {}, "revoked")
  <2>1. k.at = "end" /\ call' = [call EXCEPT ![c] = k]
    BY <1>3, <1>5 DEF BlankCall, CallEnds
  <2> HIDE DEF k
  <2>2. call'[c].at = "end"
    BY <1>1, <2>1, RunningCall
  <2>3. CallSound(c)'
    BY <2>2 DEF CallSound
  <2>4. ASSUME c \in Events, Left(c), NEW g \in grants PROVE Settled(g)
    <3>1. CASE g \notin call[c].seen
      BY <1>1, <2>4, <3>1, EventFacts DEF Fence
    <3>2. CASE IdOf(g) = v.of
      BY <1>2, <3>2, ReversedBy DEF EntryEnds, Settled
    <3>3. CASE g \in others
      <4>1. IdOf(g) \in ReversedIds(IdsOf(others))
        BY <1>5, <3>3
      <4>2. \E w \in revocations : w.of = IdOf(g)
        BY <4>1, ReversedIdsAreNamed
      <4> QED
        BY <4>2, ReversedBy DEF Settled
    <3> QED
      BY <3>1, <3>2, <3>3
  <2> QED
    BY <1>1, <2>1, <2>3, <2>4, RevocationReads
<1>6. CASE active # {}
  <2> DEFINE k == [call[c] EXCEPT !.at = "record", !.todo = active]
  <2>1. /\ k.at = "record" /\ k.entry = call[c].entry /\ k.todo = active
        /\ call' = [call EXCEPT ![c] = k]
    BY <1>1, <1>3, <1>6, RunningCall DEF Call
  <2>2. active \subseteq grants
    BY <1>1, RunningCall DEF CallSound
  <2> HIDE DEF k, active
  <2>3. call'[c] = k
    BY <1>1, <2>1, RunningCall
  <2>4. EntryOf(c, v)' /\ EntryEnds(v)'
    BY <1>2, <1>4, EntryStays
  <2>5. CallSound(c)'
    BY <1>2, <1>4, <2>1, <2>2, <2>3, <2>4 DEF CallSound
  <2> QED
    BY <1>1, <2>1, <2>5, RevocationReads
<1> QED
  BY <1>5, <1>6

LEMMA CallRecordHolderKeepsRefund ==
    ASSUME IInv, RInv, NEW c \in Callers, CallRecordHolder(c), UNCHANGED requestVars
    PROVE  RInv'
<1>1. call[c].at = "record" /\ UNCHANGED <<grants, tombstones, requestVars>>
  BY DEF CallRecordHolder
<1>2. PICK v : v \in Revocation /\ call[c].entry = {v} /\ EntryOf(c, v) /\ EntryEnds(v)
  BY <1>1, RunningCall DEF FansOut
<1>3. PICK holder \in Foremost(call[c].todo) :
        IF Refused(HolderEntry(v, holder))
        THEN CallEnds(c, "throw") /\ UNCHANGED revocations
        ELSE InsertRevocation(HolderEntry(v, holder)) /\ CallGoes(c, "holderBack")
  BY <1>2 DEF CallRecordHolder
<1>4. /\ call[c].todo \subseteq grants /\ holder \in grants /\ holder \in Grant
      /\ holder \in ById(IdOf(holder))
  BY <1>1, <1>3, RunningCall, CallFacts DEF CallSound, Foremost, ById
<1> DEFINE w == HolderEntry(v, holder)
           k == [call[c] EXCEPT !.at = "holderBack"]
<1>5. /\ Names(w, holder) /\ w.by = v.by /\ w.reason = v.reason
      /\ w.player = w.of[1]
  BY <1>2, <1>4, HolderEntryNames
<1>6. InsertRevocation(w) /\ CallGoes(c, "holderBack")
  BY <1>3, <1>4, <1>5 DEF Refused, Names
<1>7. /\ k.at = "holderBack" /\ k.entry = call[c].entry /\ k.todo = call[c].todo
      /\ call' = [call EXCEPT ![c] = k]
  BY <1>1, <1>6, RunningCall DEF Call, CallGoes
<1> HIDE DEF w, k
<1>8. EntrySound(w)
  BY <1>2, <1>4, <1>5 DEF EntryOf, EntrySound
<1>9. c \in Events => w.by = c
  BY <1>2, <1>5 DEF EntryOf
<1>10. c \in Requests /\ w.reason = "refund" => Left(w.by)
  BY <1>2, <1>5 DEF EntryOf
<1>11. grants' = grants /\ revocations \subseteq revocations' /\ call'[c] = k
  BY <1>1, <1>6, <1>7, RunningCall DEF InsertRevocation
<1>12. EntryOf(c, v)' /\ EntryEnds(v)'
  BY <1>2, <1>11, EntryStays
<1>13. CallSound(c)'
  BY <1>2, <1>4, <1>7, <1>11, <1>12 DEF CallSound
<1>14. c \in Requests => \A g \in grants : Wrote(c, g) => Reversed(g)'
  <2>1. c \in Requests => \A g \in grants : Wrote(c, g) => Reversed(g)
    BY <1>1, RunningCall DEF Wrote
  <2> QED
    BY <1>11, <2>1, ReversedGrows
<1> QED
  BY <1>1, <1>6, <1>7, <1>8, <1>9, <1>10, <1>13, <1>14, RevocationWrites

LEMMA CallHolderReadBackKeepsRefund ==
    ASSUME IInv, RInv, NEW c \in Callers, CallHolderReadBack(c), UNCHANGED requestVars
    PROVE  RInv'
<1>1. call[c].at = "holderBack" /\ UNCHANGED <<ledgerVars, requestVars>>
  BY DEF CallHolderReadBack
<1>2. PICK v : v \in Revocation /\ call[c].entry = {v} /\ EntryOf(c, v) /\ EntryEnds(v)
  BY <1>1, RunningCall DEF FansOut
<1>3. CASE CallEnds(c, "throw")
  BY <1>1, <1>3, RevocationFails
<1>4. ASSUME NEW left \in SUBSET call[c].todo, NEW step \in {"shares", "record"}, NEW pass,
             call' = [call EXCEPT ![c].todo = left, ![c].at = step, ![c].pass = pass]
      PROVE  RInv'
  <2> DEFINE k == [call[c] EXCEPT !.todo = left, !.at = step, !.pass = pass]
  <2>1. /\ k.at = step /\ k.entry = call[c].entry /\ k.todo = left
        /\ call' = [call EXCEPT ![c] = k]
    BY <1>1, <1>4, RunningCall DEF Call
  <2>2. left \subseteq grants
    BY <1>1, RunningCall DEF CallSound
  <2> HIDE DEF k
  <2>3. grants' = grants /\ revocations' = revocations /\ call'[c] = k
    BY <1>1, <2>1, RunningCall DEF ledgerVars
  <2>4. EntryOf(c, v)' /\ EntryEnds(v)'
    BY <1>2, <2>3, EntryStays
  <2>5. CallSound(c)'
    BY <1>2, <2>1, <2>2, <2>3, <2>4 DEF CallSound
  <2> QED
    BY <1>1, <2>1, <2>5, RevocationReads
<1> QED
  <2>1. PICK holder \in Foremost(call[c].todo) :
          IF ReadBack(holder.player, v.key, IdOf(holder)) # "recorded"
          THEN CallEnds(c, "throw")
          ELSE call' = [call EXCEPT
                  ![c].todo = call[c].todo \ {holder},
                  ![c].at = IF call[c].todo \ {holder} = {} THEN "shares" ELSE "record",
                  ![c].pass = IF call[c].todo \ {holder} = {} THEN @ + 1 ELSE @]
    BY <1>2 DEF CallHolderReadBack
  <2>2. CASE ReadBack(holder.player, v.key, IdOf(holder)) # "recorded"
    BY <1>3, <2>1, <2>2
  <2>3. CASE ReadBack(holder.player, v.key, IdOf(holder)) = "recorded"
    <3> DEFINE left == call[c].todo \ {holder}
               step == IF left = {} THEN "shares" ELSE "record"
               pass == IF left = {} THEN call[c].pass + 1 ELSE call[c].pass
    <3>1. left \in SUBSET call[c].todo /\ step \in {"shares", "record"}
      OBVIOUS
    <3>2. call' = [call EXCEPT ![c].todo = left, ![c].at = step, ![c].pass = pass]
      BY <2>1, <2>3
    <3> HIDE DEF left, step, pass
    <3> QED
      BY <1>4, <3>1, <3>2
  <2> QED
    BY <2>2, <2>3

(* An admin entry promises nothing about the rest of the purchase.         *)
LEMMA AdminRevokesKeepsRefund ==
    ASSUME IInv, RInv, NEW g \in grants, AdminRevokes(g) PROVE RInv'
<1> DEFINE v == [of |-> IdOf(g), player |-> g.player, key |-> AdminKey,
                 by |-> AdminKey, reason |-> "admin", ev |-> {}]
<1>1. v.reason # "refund" /\ Names(v, g) /\ v.player = v.of[1]
  BY DEF Names, IdOf
<1>2. /\ InsertRevocation(v) /\ grants' = grants /\ call' = call /\ req' = req
      /\ event' = event /\ orphans' = orphans
  BY DEF AdminRevokes
<1> HIDE DEF v
<1>3. revocations \subseteq revocations' /\ revocations' \subseteq revocations \cup {v}
  BY <1>2 DEF InsertRevocation
<1>4. EntriesSound'
  <2>1. EntrySound(v)
    BY <1>1 DEF EntrySound
  <2>2. \A x : EntrySound(x) => EntrySound(x)'
    BY <1>2, EntrySoundGrows
  <2>3. \A x \in revocations' : EntrySound(x)'
    BY <1>3, <2>1, <2>2 DEF RInv, EntriesSound
  <2> QED
    BY <2>3 DEF EntriesSound
<1>5. \A e \in Events : Left(e)' => Left(e)
  BY <1>1, <1>3 DEF Left
<1>6. PICK c : c \notin Callers
  <2> DEFINE R == {x \in Callers : x \notin x}
  <2>1. R \notin Callers
    OBVIOUS
  <2> QED
    BY <2>1
<1>7. c \notin Requests /\ c \notin Events
  BY <1>6, RequestAssumption
<1>8. \A e \in Events : Left(e) => \A h \in grants' : h \in grants \/ Settled(h)'
  BY <1>2
<1>9. /\ OnTop(grants, grants') /\ orphans \subseteq orphans'
      /\ \A x \in Callers \ {c} : call'[x] = call[x]
      /\ \A x \in Requests \ {c} : req'[x] = req[x]
      /\ \A x \in Events \ {c} : event'[x] = event[x]
  BY <1>2 DEF OnTop
<1> QED
  BY <1>3, <1>4, <1>5, <1>6, <1>7, <1>8, <1>9, StepKeeps

-----------------------------------------------------------------------------
(* The invariant. *)

LEMMA InitRefund == Init => RInv
<1> SUFFICES ASSUME Init PROVE RInv
  OBVIOUS
<1>1. /\ revocations = {} /\ call = [c \in Callers |-> IdleCall]
      /\ req = [r \in Requests |-> Blank("idle", "none")]
      /\ event = [e \in Events |-> [at |-> "unsent", outcome |-> "none"]]
  BY DEF Init, CallInit
<1>2. \A c \in Callers : call[c].at = "idle"
  BY <1>1 DEF IdleCall, BlankCall
<1>3. \A r \in Requests : req[r].at = "idle" /\ ~req[r].inserted
  BY <1>1 DEF Blank
<1>4. Callers = Requests \cup Events
  BY RequestAssumption
<1>5. \A e \in Events : ~Left(e)
  BY <1>1 DEF Left
<1>6. EntriesSound
  BY <1>1 DEF EntriesSound
<1>7. \A c \in Callers : CallSound(c)
  BY <1>2 DEF CallSound
<1>8. \A r \in Requests : WriterSound(r)
  BY <1>2, <1>3, <1>4 DEF WriterSound, Rechecking
<1>9. \A e \in Events : EventSound(e) /\ Fence(e)
  BY <1>1, <1>2, <1>4, <1>5 DEF EventSound, Fence
<1> QED
  BY <1>6, <1>7, <1>8, <1>9 DEF RInv

LEMMA RefundRests ==
    ASSUME RInv, UNCHANGED <<grants, revocations, call, req, event, orphans>>
    PROVE  RInv'
<1>1. UNCHANGED <<grants, revocations, call, req, event, orphans>>
  OBVIOUS
<1>2. /\ EntriesSound' /\ \A c \in Callers : CallSound(c)'
      /\ \A r \in Requests : WriterSound(r)'
  <2>1. EntriesSound'
    BY <1>1, EntrySoundGrows DEF RInv, EntriesSound
  <2>2. \A c \in Callers : CallSound(c)'
    BY <1>1, CallSoundStays DEF RInv
  <2>3. \A r \in Requests : WriterSound(r)'
    BY <1>1, WriterSoundStays DEF RInv, OnTop
  <2> QED
    BY <2>1, <2>2, <2>3
<1>3. \A g : Settled(g) => Settled(g)'
  BY <1>1, SettledSame
<1>4. \A e \in Events : Left(e)' => Left(e)
  BY <1>1 DEF Left
<1>5. ASSUME NEW e \in Events PROVE EventSound(e)' /\ Fence(e)'
  <2>1. EventSound(e) /\ Fence(e)
    BY DEF RInv
  <2>2. EventSound(e)'
    BY <1>1, <2>1 DEF EventSound
  <2>3. Fence(e)'
    BY <1>1, <1>3, <1>4, <2>1, FenceStays
  <2> QED
    BY <2>2, <2>3
<1> QED
  BY <1>2, <1>5 DEF RInv

LEMMA StutterRefund == RInv /\ UNCHANGED vars => RInv'
BY RefundRests DEF vars, ledgerVars, requestVars

LEMMA NextRefund == IInv /\ RInv /\ Next => RInv'
<1> SUFFICES ASSUME IInv, RInv, Next PROVE RInv'
  OBVIOUS
<1>1. ASSUME NEW r \in Requests,
             Send(r) \/ Resend(r) \/ RequestStep(r) \/ LoseRequest(r)
      PROVE  RInv'
  <2>1. CASE Send(r) \/ Resend(r) \/ LoseRequest(r)
    BY <2>1, QuietKeepsRefund, ResendKeepsRefund, LoseRequestKeepsRefund
  <2>2. CASE RequestStep(r)
    BY <2>2, QuietKeepsRefund, InsertKeepsRefund, InsertBackKeepsRefund,
       RereadKeepsRefund, ReadEndedKeepsRefund, DecidePriorKeepsRefund,
       ClosedKeepsRefund DEF RequestStep
  <2> QED
    BY <1>1, <2>1, <2>2
<1>2. ASSUME NEW e \in Events,
             StoreRefunds(e) \/ EventStep(e) \/ Redeliver(e) \/ LoseDelivery(e)
      PROVE  RInv'
  BY <1>2, StoreRefundsKeepsRefund, EventFindFirstKeepsRefund,
     EventFindShareKeepsRefund, EventSettlesKeepsRefund, RedeliverKeepsRefund,
     LoseDeliveryKeepsRefund DEF EventStep
<1>3. ASSUME NEW c \in Callers, RevocationStep(c) PROVE RInv'
  BY <1>3, CallGetKeepsRefund, CallInsertKeepsRefund, CallReadBackKeepsRefund,
     CallReadSharesKeepsRefund, CallReadFirstKeepsRefund,
     CallReadReversedKeepsRefund, CallRecordHolderKeepsRefund,
     CallHolderReadBackKeepsRefund DEF RevocationStep, CallStep
<1>4. ASSUME NEW g \in grants, AdminRevokes(g) PROVE RInv'
  BY <1>4, AdminRevokesKeepsRefund
<1> QED
  BY <1>1, <1>2, <1>3, <1>4 DEF Next

(* However the statements of restores, store events and admin revocations  *)
(* interleave, and whatever is lost or repeated, a grant no fan-out will    *)
(* meet any more is reversed, closed by its writer, or lost by it.          *)
THEOREM RefundInvariantHolds == Spec => [](IInv /\ RInv)
<1>1. Init => IInv /\ RInv
  BY InitHolds, InitRefund
<1>2. IInv /\ RInv /\ [Next]_vars => (IInv /\ RInv)'
  BY NextKeeps, StutterKeeps, NextRefund, StutterRefund
<1> QED
  BY <1>1, <1>2, PTL DEF Spec

LEMMA SettledIsUndecided ==
    ASSUME IInv, RInv, NEW g \in grants, Settled(g)
    PROVE  Reversed(g) \/ Undecided(g)
<1>1. CASE Reversed(g) \/ (g.slot > 0 /\ g.slot \in orphans)
  BY <1>1 DEF Undecided
<1>2. CASE EndedBelow(g) /\ \E r \in Requests : Late(r, g)
  <2>1. g.slot > 0
    BY <1>2, RequestFacts DEF EndedBelow, Grant
  <2>2. PICK r \in Requests : Late(r, g)
    BY <1>2
  <2>3. req[r].at \in Rechecking /\ req[r].inserted
    BY <2>2, WriterFacts DEF Late, WriterSound
  <2> QED
    BY <2>1, <2>2, <2>3 DEF Undecided, Late
<1> QED
  BY <1>1, <1>2 DEF Settled

LEMMA EveryHolderEnds == IInv /\ RInv => RefundEndsEveryHolder
<1> SUFFICES ASSUME IInv, RInv, NEW e \in Events, event[e].outcome = "revoked",
                    LeftEntry(e), NEW g \in grants
             PROVE  Reversed(g) \/ Undecided(g)
  BY DEF RefundEndsEveryHolder
<1>1. Left(e)
  BY DEF LeftEntry, WideOn, RevocationsOf, Left
<1>2. Fence(e)
  BY DEF RInv
<1>3. Settled(g)
  BY <1>1, <1>2 DEF Fence
<1> QED
  BY <1>3, SettledIsUndecided

(* Once an event is reported revoked, handleAppStoreServerNotification's   *)
(* promise: no grant of the purchase outlives it but one whose writer has   *)
(* yet to recheck it, or was lost before it did.                           *)
THEOREM RefundHolds == Spec => []RefundEndsEveryHolder
BY EveryHolderEnds, RefundInvariantHolds, PTL

-----------------------------------------------------------------------------
(* Events acknowledged without a revocation.  A purchase whose first grant  *)
(* is on the ledger before the store can refund it, or a single event no    *)
(* delivery of which is lost: otherwise a redelivery can name another grant *)
(* than the delivery that was cut short, and the event's one identity keeps *)
(* its entry out.                                                          *)

Recorded == \A S \in Seeds : S # {}

OneDelivery == MaxFaults = 0 /\ \A e, f \in Events : e = f

(* An entry carries the event's own identity.                              *)
Owned == \E v \in revocations : <<>> \in v.ev

FirstEnded == \A g \in FirstRead : Reversed(g)

(* The first pass of event e's fan-out has the first grant before it.      *)
Chasing(e) ==
    /\ call[e].pass = 0
    /\ call[e].at \in {"back"} \cup FansOut
    /\ call[e].at = "reversed" => FirstRead \subseteq call[e].seen
    /\ call[e].at \in {"record", "holderBack"} =>
         \A g \in FirstRead : g \in call[e].todo \/ Reversed(g)

(* No grant is on the ledger, and no request can write one any more: the    *)
(* store refuses those that still ask it.                                  *)
Nobody ==
    /\ refunded /\ grants = {}
    /\ \A r \in Requests :
         req[r].at \in {"idle", "done", "lookup", "replay", "verify", "raced"}

NamesFirst(e) == \A v \in call[e].entry : \E g \in FirstRead : v.of = IdOf(g)

DeliverySound(e) ==
    /\ event[e].at # "unsent" => refunded
    /\ event[e].at \in {"findShare", "findLast"} => ~Recorded /\ ~Owned
    /\ event[e].at = "findLast" => Nobody
    /\ event[e].at = "settled" /\ event[e].outcome # "revoked" => Nobody
    /\ call[e].at \in {"get", "insert", "back"} => call[e].pass = 0
    /\ call[e].at \in {"get", "insert"} /\ (Owned \/ Recorded) => NamesFirst(e)
    /\ call[e].at = "back" => \A v \in call[e].entry : \E w \in revocations : w.of = v.of
    /\ call[e].at = "holderBack" => \A h \in Foremost(call[e].todo) : Reversed(h)
    /\ call[e].at = "end" => call[e].result \in {"revoked", "throw"}

DInv ==
    /\ Recorded => FirstRead # {}
    /\ Owned => FirstEnded \/ (OneDelivery /\ \E e \in Events : Chasing(e))
    /\ \A e \in Events : DeliverySound(e)

(* Only an account deletion moves a grant to an owner who cannot sign in,   *)
(* and only the purge takes the first one.                                 *)
Living == Headed(grants) /\ \A g \in grants : g.player \in Players

(* The steps of requests, of closing calls and of the support tool.        *)
LEMMA DeliveriesStay ==
    ASSUME DInv, grants \subseteq grants', revocations \subseteq revocations',
           refunded => refunded', Owned' => Owned,
           Owned => FirstRead' = FirstRead, Nobody => Nobody',
           \A e \in Events : event'[e] = event[e] /\ call'[e] = call[e]
    PROVE  DInv'
<1>1. \A g : Reversed(g) => Reversed(g)'
  BY ReversedGrows
<1>2. FirstRead \subseteq FirstRead'
  BY DEF FirstRead
<1>3. Owned /\ FirstEnded => FirstEnded'
  BY <1>1 DEF FirstEnded
<1>4. \A e \in Events : Owned /\ Chasing(e) => Chasing(e)'
  BY <1>1 DEF Chasing
<1>5. \A e \in Events : NamesFirst(e) => NamesFirst(e)'
  BY <1>2 DEF NamesFirst, IdOf
<1>6. ASSUME NEW e \in Events PROVE DeliverySound(e)'
  <2>1. DeliverySound(e) /\ event'[e] = event[e] /\ call'[e] = call[e]
    BY DEF DInv
  <2>2. call[e].at = "back" =>
          \A v \in call[e].entry : \E w \in revocations' : w.of = v.of
    BY <2>1 DEF DeliverySound
  <2>3. call[e].at = "holderBack" => \A h \in Foremost(call[e].todo) : Reversed(h)'
    BY <1>1, <2>1 DEF DeliverySound
  <2>4. (Foremost(call[e].todo))' = Foremost(call[e].todo)
    BY <2>1 DEF Foremost
  <2>5. call[e].at \in {"get", "insert"} /\ (Owned' \/ Recorded) => NamesFirst(e)'
    BY <1>5, <2>1 DEF DeliverySound
  <2> QED
    BY <2>1, <2>2, <2>3, <2>4, <2>5 DEF DeliverySound
<1>7. Owned' => FirstEnded' \/ (OneDelivery /\ \E e \in Events : Chasing(e)')
  BY <1>3, <1>4 DEF DInv
<1>8. Recorded => FirstRead' # {}
  BY <1>2 DEF DInv
<1> QED
  BY <1>6, <1>7, <1>8 DEF DInv, OneDelivery, Recorded

(* A step of event e, or of its call.                                      *)
LEMMA DeliveryTakesStep ==
    ASSUME Recorded \/ OneDelivery, DInv, NEW e \in Events,
           grants' = grants, revocations \subseteq revocations',
           refunded => refunded', req' = req,
           \A x \in Events \ {e} : event'[x] = event[x] /\ call'[x] = call[x],
           DeliverySound(e)',
           Owned' => FirstEnded' \/ (OneDelivery /\ Chasing(e)')
    PROVE  DInv'
<1>1. \A g : Reversed(g) => Reversed(g)'
  BY ReversedGrows
<1>2. FirstRead' = FirstRead
  BY DEF FirstRead
<1>3. ASSUME NEW x \in Events \ {e} PROVE DeliverySound(x)'
  <2>1. Recorded
    BY <1>3 DEF OneDelivery
  <2>2. DeliverySound(x) /\ event'[x] = event[x] /\ call'[x] = call[x]
    BY <1>3 DEF DInv
  <2>3. call[x].at = "back" =>
          \A v \in call[x].entry : \E w \in revocations' : w.of = v.of
    BY <2>2 DEF DeliverySound
  <2>4. call[x].at = "holderBack" => \A h \in Foremost(call[x].todo) : Reversed(h)'
    BY <1>1, <2>2 DEF DeliverySound
  <2>5. (Foremost(call[x].todo))' = Foremost(call[x].todo)
    BY <2>2 DEF Foremost
  <2>6. NamesFirst(x) => NamesFirst(x)'
    BY <1>2, <2>2 DEF NamesFirst, IdOf
  <2>7. Nobody => Nobody'
    BY DEF Nobody
  <2> QED
    BY <2>1, <2>2, <2>3, <2>4, <2>5, <2>6, <2>7 DEF DeliverySound
<1>4. \A x \in Events : DeliverySound(x)'
  BY <1>3
<1> QED
  BY <1>2, <1>4 DEF DInv, OneDelivery, Recorded

(* A delivery that appends nothing and was not in its first pass.          *)
LEMMA DeliveryAppendsNothing ==
    ASSUME Recorded \/ OneDelivery, DInv, NEW e \in Events,
           grants' = grants, revocations' = revocations, req' = req,
           refunded => refunded',
           \A x \in Events \ {e} : event'[x] = event[x] /\ call'[x] = call[x],
           DeliverySound(e)', Chasing(e) => FirstEnded \/ Chasing(e)'
    PROVE  DInv'
<1>1. Owned' = Owned /\ (FirstEnded => FirstEnded')
  BY DEF Owned, FirstEnded, FirstRead, Reversed, ReversedIds, RevocationsOf, IdOf
<1>2. OneDelivery => \A x \in Events : x = e
  BY DEF OneDelivery
<1>3. Owned' => FirstEnded' \/ (OneDelivery /\ Chasing(e)')
  BY <1>1, <1>2 DEF DInv
<1> QED
  BY <1>3, DeliveryTakesStep

-----------------------------------------------------------------------------
(* Requests. *)

(* Slot 0 is the first to be taken. *)
LEMMA FirstOfAll ==
    ASSUME Living, grants # {}
    PROVE  FirstRead # {}
BY DEF Living, Headed, FirstRead

LEMMA EntriesNeedGrants ==
    ASSUME IInv, Owned
    PROVE  grants # {}
BY DEF IInv, LedgerInv, LedgerIntegrity, Owned, IdsOf

(* A request that cannot write any more goes on without writing.           *)
LEMMA NobodyStays ==
    ASSUME IInv, NEW r \in Requests, Nobody,
           Send(r) \/ Resend(r) \/ RequestStep(r) \/ LoseRequest(r)
    PROVE  Nobody'
<1> DEFINE Harmless == {"idle", "done", "lookup", "replay", "verify", "raced"}
<1>1. req \in [Requests -> Request] /\ req[r].at \in Harmless /\ refunded
  BY DEF IInv, TypeOK, Nobody
<1>2. ASSUME NEW a, Answer(r, a) PROVE \A x \in Requests : req'[x].at \in Harmless
  <2>1. Blank("done", a).at = "done"
    BY DEF Blank
  <2>2. req' = [req EXCEPT ![r] = Blank("done", a)]
    BY <1>2 DEF Answer
  <2> QED
    BY <1>1, <2>1, <2>2 DEF Nobody
<1>3. ASSUME NEW step \in Harmless, Goes(r, step)
      PROVE  \A x \in Requests : req'[x].at \in Harmless
  <2>1. req'[r].at = step
    BY <1>1, <1>3 DEF Goes, Request
  <2> QED
    BY <1>1, <1>3, <2>1 DEF Goes, Nobody
<1>4. CASE Send(r)
  BY <1>3, <1>4 DEF Send, OnlyRequest, ledgerVars, Nobody
<1>5. CASE Resend(r)
  <2>1. Blank("lookup", "none").at = "lookup"
    BY DEF Blank
  <2>2. req' = [req EXCEPT ![r] = Blank("lookup", "none")]
    BY <1>5 DEF Resend
  <2>3. \A x \in Requests : req'[x].at \in Harmless
    BY <1>1, <2>1, <2>2 DEF Nobody
  <2> QED
    BY <1>5, <2>3 DEF Resend, ledgerVars, Nobody
<1>6. CASE LoseRequest(r)
  BY <1>2, <1>6 DEF LoseRequest, ledgerVars, Nobody
<1>7. CASE RequestStep(r)
  <2>1. Lookup(r) \/ Replay(r) \/ Verify(r)
    BY <1>1, <1>7 DEF RequestStep, Lookup, Replay, Verify, BoundReadShares, BoundReadFirst,
       BoundEvidence, BoundOther, BoundOwnReversed, ShareReadShares, ShareReadFirst,
       ShareReadReversed, ShareDecide, CheckTombstone, Insert, InsertBack, Keyed,
       KeyedReversed, Reread, ReadEnded, DecidePrior, Closed
  <2>2. \/ \E a : Answer(r, a)
        \/ \E step \in Harmless : Goes(r, step)
    <3>1. CASE Lookup(r)
      BY <3>1 DEF Lookup
    <3>2. CASE Replay(r)
      BY <3>2 DEF Replay
    <3>3. CASE Verify(r)
      BY <1>1, <3>3 DEF Verify
    <3> QED
      BY <2>1, <3>1, <3>2, <3>3
  <2>3. \A x \in Requests : req'[x].at \in Harmless
    BY <1>2, <1>3, <2>2
  <2>4. OnlyRequest
    BY <2>1 DEF Lookup, Replay, Verify
  <2> QED
    BY <2>3, <2>4 DEF OnlyRequest, ledgerVars, Nobody
<1> QED
  BY <1>4, <1>5, <1>6, <1>7

(* A row goes into slot 0 only before the first entry.                     *)
LEMMA RequestKeepsDeliveries ==
    ASSUME IInv, RInv, Living, DInv, NEW r \in Requests,
           Send(r) \/ Resend(r) \/ RequestStep(r) \/ LoseRequest(r)
    PROVE  DInv'
<1>1. Nobody => Nobody'
  BY NobodyStays
<1>2. r \notin Events /\ r \in Callers /\ \A e \in Events : e \in Callers
  BY RequestAssumption
<1>3. CASE Insert(r)
  <2>1. PICK g \in req[r].mine : InsertGrant(g)
    BY <1>3 DEF Insert
  <2>2. /\ grants \subseteq grants' /\ revocations' = revocations /\ event' = event
        /\ call' = call /\ refunded' = refunded
    BY <1>3, <2>1 DEF Insert, InsertGrant
  <2>3. Owned => FirstRead' = FirstRead
    <3> SUFFICES ASSUME Owned PROVE FirstRead' = FirstRead
      OBVIOUS
    <3>1. AtSlot(0) # {}
      BY EntriesNeedGrants, FirstOfAll DEF FirstRead, AtSlot
    <3>2. GrantInserts(g) => g.slot # 0
      BY <3>1 DEF GrantInserts
    <3>3. grants' = grants \/ (grants' = grants \cup {g} /\ g.slot # 0)
      BY <2>1, <3>2 DEF InsertGrant
    <3> QED
      BY <3>3 DEF FirstRead
  <2>4. Owned' => Owned
    BY <2>2 DEF Owned
  <2> QED
    BY <1>1, <2>2, <2>3, <2>4, DeliveriesStay
<1>4. CASE ~Insert(r)
  <2>1. UNCHANGED <<ledgerVars, refunded, event>>
    BY <1>4 DEF Send, Resend, LoseRequest, RequestStep, Lookup, Replay, Verify,
       BoundReadShares, BoundReadFirst,
       BoundEvidence, BoundOther, BoundOwnReversed, ShareReadShares, ShareReadFirst,
       ShareReadReversed, ShareDecide, CheckTombstone, InsertBack, Keyed,
       KeyedReversed, Reread, ReadEnded, DecidePrior, Closed, OnlyRequest
  <2>2. call' = call \/ \E k : call' = [call EXCEPT ![r] = k]
    <3>1. CASE LoseRequest(r) \/ Closed(r)
      BY <3>1 DEF LoseRequest, Closed
    <3>2. CASE DecidePrior(r)
      BY <3>2 DEF DecidePrior
    <3>3. CASE ~(LoseRequest(r) \/ Closed(r) \/ DecidePrior(r))
      BY <1>4, <3>3 DEF Send, Resend, RequestStep, Lookup, Replay, Verify,
         BoundReadShares, BoundReadFirst,
         BoundEvidence, BoundOther, BoundOwnReversed, ShareReadShares, ShareReadFirst,
         ShareReadReversed, ShareDecide, CheckTombstone, InsertBack, Keyed,
         KeyedReversed, Reread, ReadEnded, OnlyRequest
    <3> QED
      BY <3>1, <3>2, <3>3
  <2>3. \A e \in Events : event'[e] = event[e] /\ call'[e] = call[e]
    BY <1>2, <2>1, <2>2 DEF IInv, TypeOK, CallTypeOK
  <2>4. grants' = grants /\ revocations' = revocations /\ refunded' = refunded
    BY <2>1 DEF ledgerVars
  <2>5. Owned' => Owned
    BY <2>4 DEF Owned
  <2>6. FirstRead' = FirstRead
    BY <2>4 DEF FirstRead
  <2> QED
    BY <1>1, <2>3, <2>4, <2>5, <2>6, DeliveriesStay
<1> QED
  BY <1>3, <1>4

-----------------------------------------------------------------------------
(* Deliveries. *)

LEMMA IdleDelivery ==
    ASSUME NEW e \in Events, call'[e].at = "idle", refunded',
           event'[e].at \notin {"findShare", "findLast"},
           event'[e].at = "settled" => event'[e].outcome = "revoked" \/ Nobody'
    PROVE  DeliverySound(e)'
BY DEF DeliverySound

(* A step between the calls of an event. *)
LEMMA BetweenCalls ==
    ASSUME IInv, RInv, DInv, Recorded \/ OneDelivery, NEW e \in Events,
           call[e].at \in {"idle", "end"},
           UNCHANGED <<ledgerVars, req>>, refunded => refunded',
           \A x \in Events \ {e} : event'[x] = event[x] /\ call'[x] = call[x],
           DeliverySound(e)'
    PROVE  DInv'
<1>1. ~Chasing(e)
  BY DEF Chasing, FansOut
<1>2. grants' = grants /\ revocations' = revocations
  BY DEF ledgerVars
<1> QED
  BY <1>1, <1>2, DeliveryAppendsNothing

(* A call starts with the first grant named, unless none was there and the  *)
(* event left no entry yet.                                                *)
LEMMA CallStarts ==
    ASSUME IInv, RInv, DInv, Recorded \/ OneDelivery, NEW e \in Events,
           event[e].at \in {"sent", "findShare", "findLast"},
           NEW g \in grants, EventCalls(e, g),
           g \in FirstRead \/ (~Owned /\ ~Recorded),
           UNCHANGED <<ledgerVars, refunded, req>>
    PROVE  DInv'
<1>1. /\ event \in [Events -> EventState] /\ call \in [Callers -> Call]
      /\ e \in Callers /\ call[e].at = "idle"
  BY EventFacts DEF EventSound
<1> DEFINE k == CalledWith(EventEntry(e, g))
<1>2. k.at = "get" /\ k.entry = {EventEntry(e, g)} /\ k.pass = 0
  BY DEF CalledWith, BlankCall
<1>3. EventEntry(e, g).of = IdOf(g)
  BY DEF EventEntry
<1>4. call' = [call EXCEPT ![e] = k] /\ event' = [event EXCEPT ![e].at = "called"]
  BY DEF EventCalls, EventGoes
<1> HIDE DEF k
<1>5. /\ call'[e] = k /\ event'[e].at = "called"
      /\ \A x \in Events \ {e} : event'[x] = event[x] /\ call'[x] = call[x]
  BY <1>1, <1>4, EventFacts DEF EventState
<1>6. Owned' = Owned /\ FirstRead' = FirstRead /\ refunded' = refunded
  BY DEF ledgerVars, Owned, FirstRead
<1>7. refunded
  BY DEF DInv, DeliverySound
<1>8. g \in FirstRead => NamesFirst(e)'
  BY <1>2, <1>3, <1>5, <1>6 DEF NamesFirst, IdOf
<1>9. DeliverySound(e)'
  BY <1>2, <1>5, <1>6, <1>7, <1>8 DEF DeliverySound
<1> QED
  BY <1>1, <1>5, <1>6, <1>9, BetweenCalls

LEMMA EventFindsFirst ==
    ASSUME IInv, RInv, Living, DInv, Recorded \/ OneDelivery, NEW e \in Events,
           EventFindFirst(e)
    PROVE  DInv'
<1>1. /\ event[e].at = "sent" /\ UNCHANGED <<ledgerVars, refunded, req>>
      /\ event \in [Events -> EventState] /\ call[e].at = "idle" /\ refunded
  BY EventFacts DEF EventFindFirst, EventSound, DInv, DeliverySound
<1>2. ASSUME NEW g \in FirstRead, EventCalls(e, g) PROVE DInv'
  BY <1>1, <1>2, CallStarts DEF FirstRead
<1>3. ASSUME FirstRead = {}, NEW step \in {"findShare", "findLast"},
             step = "findLast" => Quiet, EventGoes(e, step), UNCHANGED call
      PROVE  DInv'
  <2>1. grants = {} /\ ~Recorded /\ ~Owned
    BY <1>3, FirstOfAll, EntriesNeedGrants DEF DInv
  <2>2. /\ event'[e].at = step /\ call'[e].at = "idle" /\ refunded'
        /\ \A x \in Events \ {e} : event'[x] = event[x] /\ call'[x] = call[x]
    BY <1>1, <1>3 DEF EventGoes, EventState
  <2>3. ~Owned' /\ grants' = grants
    BY <1>1, <2>1 DEF ledgerVars, Owned
  <2>4. Quiet => Nobody'
    BY <1>1, <2>1, <2>3 DEF Quiet, Nobody
  <2>5. DeliverySound(e)'
    BY <1>3, <2>1, <2>2, <2>3, <2>4 DEF DeliverySound, Recorded
  <2> QED
    BY <1>1, <2>2, <2>5, BetweenCalls
<1>4. CASE FirstRead = {} /\ EventGoes(e, "findShare") /\ UNCHANGED call
  BY <1>3, <1>4
<1>5. CASE FirstRead = {} /\ Quiet /\ EventGoes(e, "findLast") /\ UNCHANGED call
  BY <1>3, <1>5
<1> QED
  BY <1>2, <1>4, <1>5 DEF EventFindFirst

LEMMA EventFindsShare ==
    ASSUME IInv, RInv, DInv, Recorded \/ OneDelivery, NEW e \in Events,
           EventFindShare(e)
    PROVE  DInv'
<1>1. /\ event[e].at \in {"findShare", "findLast"}
      /\ UNCHANGED <<ledgerVars, refunded, req>>
      /\ event \in [Events -> EventState] /\ call[e].at = "idle"
      /\ refunded /\ ~Recorded /\ ~Owned
  BY EventFacts DEF EventFindShare, EventSound, DInv, DeliverySound
<1>2. ASSUME NEW g \in Foremost(SharesRead), EventCalls(e, g) PROVE DInv'
  BY <1>1, <1>2, CallStarts DEF Foremost, SharesRead
<1>3. ASSUME NEW s \in EventState, event' = [event EXCEPT ![e] = s], UNCHANGED call,
             s.at = "sent" \/ (s.at = "settled" /\ event[e].at = "findLast")
      PROVE  DInv'
  <2>1. /\ event'[e] = s /\ call'[e].at = "idle" /\ refunded'
        /\ \A x \in Events \ {e} : event'[x] = event[x] /\ call'[x] = call[x]
    BY <1>1, <1>3
  <2>2. event[e].at = "findLast" => Nobody
    BY DEF DInv, DeliverySound
  <2>3. Nobody => Nobody'
    BY <1>1 DEF Nobody, ledgerVars
  <2>4. DeliverySound(e)'
    BY <1>3, <2>1, <2>2, <2>3, IdleDelivery
  <2> QED
    BY <1>1, <2>1, <2>4, BetweenCalls
<1>4. /\ [at |-> "settled", outcome |-> "ignored"] \in EventState
      /\ [at |-> "sent", outcome |-> "none"] \in EventState
  BY DEF EventState, EventSteps, Outcomes
<1>5. CASE /\ event[e].at = "findLast" /\ UNCHANGED call
           /\ event' = [event EXCEPT ![e] = [at |-> "settled", outcome |-> "ignored"]]
  BY <1>3, <1>4, <1>5
<1>6. CASE /\ event' = [event EXCEPT ![e] = [at |-> "sent", outcome |-> "none"]]
           /\ UNCHANGED call
  BY <1>3, <1>4, <1>6
<1> QED
  BY <1>2, <1>5, <1>6 DEF EventFindShare

LEMMA OtherDeliverySteps ==
    ASSUME IInv, RInv, DInv, Recorded \/ OneDelivery, NEW e \in Events,
           StoreRefunds(e) \/ EventSettles(e) \/ Redeliver(e)
    PROVE  DInv'
<1>1. /\ event \in [Events -> EventState] /\ call \in [Callers -> Call]
      /\ e \in Callers /\ UNCHANGED <<ledgerVars, req>> /\ (refunded => refunded')
  BY EventFacts DEF StoreRefunds, EventSettles, Redeliver
<1>2. /\ call[e].at \in {"idle", "end"} /\ call'[e].at = "idle"
      /\ \A x \in Events \ {e} : event'[x] = event[x] /\ call'[x] = call[x]
  <2>1. CASE StoreRefunds(e) \/ Redeliver(e)
    BY <1>1, <2>1, EventFacts DEF StoreRefunds, Redeliver, EventSound, EventGoes
  <2>2. CASE EventSettles(e)
    BY <1>1, <2>2, EventFacts DEF EventSettles, IdleCall, BlankCall
  <2> QED
    BY <2>1, <2>2
<1>3. refunded'
  BY <1>1 DEF StoreRefunds, EventSettles, Redeliver, DInv, DeliverySound
<1>4. \/ event'[e].at = "sent"
      \/ event'[e].at = "settled" /\ event'[e].outcome = "revoked"
  <2>1. CASE StoreRefunds(e) \/ Redeliver(e)
    BY <1>1, <2>1 DEF StoreRefunds, Redeliver, EventGoes, EventState
  <2>2. CASE EventSettles(e)
    <3>1. call[e].result \in {"revoked", "throw"}
      BY <2>2 DEF EventSettles, DInv, DeliverySound
    <3>2. OutcomeOf("revoked") = "revoked"
      BY DEF OutcomeOf
    <3> QED
      BY <1>1, <2>2, <3>1, <3>2 DEF EventSettles
  <2> QED
    BY <2>1, <2>2
<1>5. DeliverySound(e)'
  BY <1>2, <1>3, <1>4, IdleDelivery
<1> QED
  BY <1>1, <1>2, <1>5, BetweenCalls

(* A lost delivery leaves an entry, if any, on the first grant.            *)
LEMMA LostDelivery ==
    ASSUME IInv, RInv, DInv, Recorded \/ OneDelivery, NEW e \in Events,
           LoseDelivery(e)
    PROVE  DInv'
<1>1. /\ event \in [Events -> EventState] /\ call \in [Callers -> Call]
      /\ e \in Callers /\ UNCHANGED <<ledgerVars, req, refunded>> /\ refunded
  BY EventFacts DEF LoseDelivery, DInv, DeliverySound
<1>2. ~OneDelivery
  BY DEF LoseDelivery, OneDelivery, IInv, TypeOK
<1>3. Owned => FirstEnded
  BY <1>2 DEF DInv
<1>4. /\ call'[e].at = "idle" /\ event'[e].at = "sent"
      /\ \A x \in Events \ {e} : event'[x] = event[x] /\ call'[x] = call[x]
  BY <1>1 DEF LoseDelivery, EventGoes, EventState, IdleCall, BlankCall
<1>5. DeliverySound(e)'
  BY <1>1, <1>4, IdleDelivery
<1>6. Owned' => FirstEnded'
  BY <1>1, <1>3 DEF ledgerVars, Owned, FirstEnded, FirstRead, Reversed, ReversedIds,
     RevocationsOf, IdOf
<1>7. grants' = grants /\ revocations' = revocations
  BY <1>1 DEF ledgerVars
<1> QED
  BY <1>1, <1>4, <1>5, <1>6, <1>7, DeliveryTakesStep

-----------------------------------------------------------------------------
(* The calls. *)

(* An entry appended without the event's own identity.                     *)
LEMMA OthersOwnNothing ==
    ASSUME NEW w, InsertRevocation(w), <<>> \notin w.ev
    PROVE  Owned' => Owned
BY DEF InsertRevocation, Owned

LEMMA ClosingKeepsDeliveries ==
    ASSUME IInv, RInv, DInv, NEW c \in Requests, RevocationStep(c)
    PROVE  DInv'
<1>1. /\ c \in Callers /\ c \notin Events /\ \A e \in Events : e \in Callers
      /\ UNCHANGED requestVars /\ CallStep(c) /\ call \in [Callers -> Call]
  BY WriterFacts, RequestAssumption DEF RevocationStep
<1>2. call[c].at \notin {"idle", "end"} /\ \E k : call' = [call EXCEPT ![c] = k]
  <2>1. call[c].at \notin {"idle", "end"}
    BY <1>1 DEF CallStep, CallGet, CallInsert, CallReadBack, CallReadShares, CallReadFirst,
       CallReadReversed, CallRecordHolder, CallHolderReadBack
  <2>2. CASE CallReadShares(c) \/ CallReadFirst(c) \/ CallReadReversed(c)
    BY <2>2 DEF CallReadShares, CallReadFirst, CallReadReversed, CallEnds, CallGoes
  <2>3. CASE CallGet(c) \/ CallInsert(c) \/ CallReadBack(c)
    BY <2>3 DEF CallGet, CallInsert, CallReadBack, CallEnds, CallGoes
  <2>4. CASE CallRecordHolder(c) \/ CallHolderReadBack(c)
    BY <2>4 DEF CallRecordHolder, CallHolderReadBack, CallEnds, CallGoes
  <2> QED
    BY <1>1, <2>1, <2>2, <2>3, <2>4 DEF CallStep
<1>3. PICK v \in Revocation : call[c].entry = {v} /\ EntryOf(c, v)
  BY <1>1, <1>2, RunningCall
<1>4. <<>> \notin v.ev
  BY <1>3 DEF EntryOf
<1>5. /\ grants' = grants
      /\ \/ revocations' = revocations
         \/ InsertRevocation(v)
         \/ \E h \in Foremost(call[c].todo) : /\ call[c].at = "record"
                                            /\ InsertRevocation(HolderEntry(v, h))
  BY <1>1, <1>3 DEF CallStep, CallGet, CallInsert, CallReadBack, CallReadShares, CallReadFirst,
     CallReadReversed, CallRecordHolder, CallHolderReadBack, ledgerVars
<1>6. \A h \in Foremost(call[c].todo) : call[c].at = "record" => h \in Grant
  BY <1>1, <1>2, RunningCall, CallFacts DEF CallSound, Foremost
<1>7. Owned' => Owned
  <2>1. CASE revocations' = revocations
    BY <2>1 DEF Owned
  <2>2. CASE InsertRevocation(v)
    BY <1>4, <2>2, OthersOwnNothing
  <2>3. CASE \E h \in Foremost(call[c].todo) : /\ call[c].at = "record"
                                            /\ InsertRevocation(HolderEntry(v, h))
    <3>1. PICK h \in Foremost(call[c].todo) :
            h \in Grant /\ InsertRevocation(HolderEntry(v, h))
      BY <1>6, <2>3
    <3>2. <<>> \notin HolderEntry(v, h).ev
      BY <1>3, <3>1, HolderEntryNames
    <3> QED
      BY <3>1, <3>2, OthersOwnNothing
  <2> QED
    BY <1>5, <2>1, <2>2, <2>3
<1>8. /\ revocations \subseteq revocations' /\ refunded' = refunded
      /\ \A e \in Events : event'[e] = event[e] /\ call'[e] = call[e]
  BY <1>1, <1>2, <1>5 DEF InsertRevocation, requestVars
<1>9. FirstRead' = FirstRead /\ (Nobody => Nobody')
  BY <1>1, <1>5 DEF FirstRead, Nobody, requestVars
<1> QED
  BY <1>5, <1>7, <1>8, <1>9, DeliveriesStay

LEMMA AdminKeepsDeliveries ==
    ASSUME IInv, RInv, DInv, NEW g \in grants, AdminRevokes(g)
    PROVE  DInv'
<1> DEFINE v == [of |-> IdOf(g), player |-> g.player, key |-> AdminKey,
                 by |-> AdminKey, reason |-> "admin", ev |-> {}]
<1>1. <<>> \notin v.ev
  OBVIOUS
<1>2. /\ InsertRevocation(v) /\ grants' = grants /\ call' = call /\ req' = req
      /\ event' = event /\ refunded' = refunded
  BY DEF AdminRevokes
<1> HIDE DEF v
<1>3. Owned' => Owned
  BY <1>1, <1>2, OthersOwnNothing
<1>4. revocations \subseteq revocations' /\ FirstRead' = FirstRead /\ (Nobody => Nobody')
  BY <1>2 DEF InsertRevocation, FirstRead, Nobody
<1> QED
  BY <1>2, <1>3, <1>4, DeliveriesStay

(* What a step of event e's call leaves alone.                             *)
LEMMA EventsCall ==
    ASSUME IInv, RInv, DInv, NEW e \in Events, call[e].at \notin {"idle", "end"},
           NEW k, call' = [call EXCEPT ![e] = k], UNCHANGED requestVars
    PROVE  /\ e \in Callers /\ call'[e] = k
           /\ event'[e].at = "called" /\ refunded /\ refunded' = refunded
           /\ req' = req
           /\ \A x \in Events \ {e} : event'[x] = event[x] /\ call'[x] = call[x]
<1>1. e \in Callers /\ \A x \in Events : x \in Callers
  BY RequestAssumption
<1>2. call \in [Callers -> Call] /\ event[e].at = "called"
  BY <1>1, RunningCall
<1>3. refunded
  BY <1>2 DEF DInv, DeliverySound
<1> QED
  BY <1>1, <1>2, <1>3 DEF requestVars

(* A step of e's call that appends nothing.                                *)
LEMMA CallAppendsNothing ==
    ASSUME IInv, RInv, DInv, Recorded \/ OneDelivery, NEW e \in Events,
           call[e].at \notin {"idle", "end"},
           NEW k, call' = [call EXCEPT ![e] = k], UNCHANGED <<ledgerVars, requestVars>>,
           k.at \in {"insert", "back"} => k.pass = 0,
           k.at \notin {"get", "back", "holderBack"},
           k.at = "insert" /\ (Owned \/ Recorded) =>
               \A v \in k.entry : \E g \in FirstRead : v.of = IdOf(g),
           k.at = "end" => k.result \in {"revoked", "throw"},
           Chasing(e) => \/ FirstEnded
                         \/ /\ k.pass = 0 /\ k.at \in FansOut
                            /\ k.at = "reversed" => FirstRead \subseteq k.seen
                            /\ k.at \in {"record", "holderBack"} =>
                                 \A g \in FirstRead : g \in k.todo \/ Reversed(g)
    PROVE  DInv'
<1>1. grants' = grants /\ revocations' = revocations
  BY DEF ledgerVars
<1>2. /\ e \in Callers /\ call'[e] = k
      /\ event'[e].at = "called" /\ refunded /\ refunded' = refunded
      /\ req' = req
      /\ \A x \in Events \ {e} : event'[x] = event[x] /\ call'[x] = call[x]
  BY EventsCall
<1>3. Owned' = Owned /\ FirstRead' = FirstRead /\ \A g : Reversed(g)' = Reversed(g)
  BY <1>1 DEF Owned, FirstRead, Reversed, ReversedIds, RevocationsOf, IdOf
<1>4. k.at = "insert" /\ (Owned \/ Recorded) => NamesFirst(e)'
  BY <1>2, <1>3 DEF NamesFirst, IdOf
<1>5. DeliverySound(e)'
  BY <1>2, <1>3, <1>4 DEF DeliverySound
<1>6. Chasing(e) => FirstEnded \/ Chasing(e)'
  BY <1>2, <1>3 DEF Chasing
<1> QED
  BY <1>1, <1>2, <1>5, <1>6, DeliveryAppendsNothing

LEMMA CallGetKeepsDeliveries ==
    ASSUME IInv, RInv, DInv, Recorded \/ OneDelivery, NEW e \in Events,
           CallGet(e), UNCHANGED requestVars
    PROVE  DInv'
<1>1. /\ call[e].at = "get" /\ UNCHANGED <<ledgerVars, requestVars>> /\ e \in Callers
  BY RequestAssumption DEF CallGet
<1>2. PICK v \in Revocation : call[e].entry = {v} /\ EntryOf(e, v)
  BY <1>1, RunningCall
<1>3. PICK g \in grants : Names(v, g)
  BY <1>2 DEF EntryOf, EntrySound
<1>4. g \in ById(v.of)
  BY <1>3 DEF Names, ById
<1>5. \A h \in ById(v.of) : h.player = v.player
  BY <1>2 DEF EntryOf, ById, IdOf
<1>6. CallGoes(e, "insert")
  BY <1>2, <1>4, <1>5 DEF CallGet
<1> DEFINE k == [call[e] EXCEPT !.at = "insert"]
<1>7. /\ call' = [call EXCEPT ![e] = k] /\ k.at = "insert" /\ k.pass = call[e].pass
      /\ k.entry = call[e].entry
  BY <1>1, <1>6, RunningCall DEF CallGoes, Call
<1> HIDE DEF k
<1>8. k.pass = 0 /\ (Owned \/ Recorded => NamesFirst(e))
  BY <1>1, <1>7 DEF DInv, DeliverySound
<1>9. ~Chasing(e)
  BY <1>1 DEF Chasing, FansOut
<1> QED
  BY <1>1, <1>7, <1>8, <1>9, CallAppendsNothing DEF NamesFirst

(* A player holds one grant, and no entry names another one by its player.  *)
LEMMA OneGrantNamed ==
    ASSUME IInv, RInv, Living, NEW g \in grants,
           NEW x \in revocations, x.player = g.player
    PROVE  x.of = IdOf(g)
<1>1. PICK h \in grants : Names(x, h)
  BY DEF RInv, EntriesSound, EntrySound
<1>2. h.player = g.player /\ ~IsKept(g)
  <2>1. g.player \notin Kept
    BY RequestAssumption DEF Living
  <2>2. x.player = x.of[1]
    BY <2>1 DEF RInv, EntriesSound, EntrySound
  <2> QED
    BY <1>1, <2>1, <2>2 DEF Names, IdOf, IsKept
<1>3. h = g
  BY <1>2 DEF IInv, LedgerInv, OneGrantPerPlayer
<1> QED
  BY <1>1, <1>3 DEF Names

LEMMA ReadsBack ==
    ASSUME IInv, RInv, Living, NEW g \in grants, NEW key,
           \E w \in revocations : w.of = IdOf(g)
    PROVE  ReadBack(g.player, key, IdOf(g)) = "recorded"
<1> DEFINE byKey == {w \in revocations : w.player = g.player /\ w.key = key}
<1>1. \A w \in byKey : w.of = IdOf(g)
  BY OneGrantNamed
<1>2. ReversedIds({IdOf(g)}) # {}
  BY DEF ReversedIds, RevocationsOf
<1>3. ReadBack(g.player, key, IdOf(g)) =
        IF byKey = {} THEN IF ReversedIds({IdOf(g)}) # {} THEN "recorded" ELSE "evidence"
        ELSE IF \A w \in byKey : w.of = IdOf(g) THEN "recorded" ELSE "key_conflict"
  BY DEF ReadBack
<1> HIDE DEF byKey
<1> QED
  BY <1>1, <1>2, <1>3

(* The event's entry goes in, or meets one of the same grant: its key is    *)
(* the event's, and its identity is used by an entry of the first grant.   *)
LEMMA CallInsertKeepsDeliveries ==
    ASSUME IInv, RInv, Living, DInv, Recorded \/ OneDelivery, NEW e \in Events,
           CallInsert(e), UNCHANGED requestVars
    PROVE  DInv'
<1>1. /\ call[e].at = "insert" /\ UNCHANGED <<grants, tombstones>> /\ e \in Callers
  BY RequestAssumption DEF CallInsert
<1>2. PICK v \in Revocation : call[e].entry = {v} /\ EntryOf(e, v)
  BY <1>1, RunningCall
<1>3. PICK g \in grants : Names(v, g)
  BY <1>2 DEF EntryOf, EntrySound
<1>4. g \in ById(v.of)
  BY <1>3 DEF ById, Names
<1>5. InsertRevocation(v) /\ CallGoes(e, "back")
  BY <1>2, <1>4 DEF CallInsert, Refused
<1> DEFINE k == [call[e] EXCEPT !.at = "back"]
<1>6. /\ k.at = "back" /\ k.entry = {v} /\ k.pass = call[e].pass
      /\ call' = [call EXCEPT ![e] = k]
  BY <1>1, <1>2, <1>5, RunningCall DEF CallGoes, Call
<1> HIDE DEF k
<1>7. revocations \subseteq revocations' /\ grants' = grants
  BY <1>1, <1>5 DEF InsertRevocation
<1>8. /\ call'[e] = k /\ event'[e].at = "called" /\ refunded /\ refunded' = refunded
      /\ req' = req
      /\ \A x \in Events \ {e} : event'[x] = event[x] /\ call'[x] = call[x]
  BY <1>1, <1>6, EventsCall
<1>9. k.pass = 0 /\ (Owned \/ Recorded => NamesFirst(e)) /\ ~Chasing(e)
  BY <1>1, <1>6 DEF DInv, DeliverySound, Chasing, FansOut
<1>10. Owned => FirstEnded
  BY <1>9 DEF DInv, OneDelivery
<1>11. \E w \in revocations' : w.of = v.of
  <2>1. CASE RevocationInserts(v)
    BY <1>5, <2>1 DEF InsertRevocation
  <2>2. CASE ~RevocationInserts(v)
    <3>1. PICK x \in revocations :
            \/ x.of = v.of
            \/ x.player = v.player /\ x.key = v.key
            \/ x.ev \cap v.ev # {}
      BY <2>2 DEF RevocationInserts
    <3>2. CASE x.player = v.player
      BY <1>2, <1>3, <1>7, <3>2, OneGrantNamed DEF Names, EntryOf, IdOf
    <3>3. CASE x.ev \cap v.ev # {}
      <4>1. PICK s : s \in x.ev /\ s \in v.ev
        BY <3>3
      <4>2. CASE s = <<>>
        <5>1. Owned
          BY <4>1, <4>2 DEF Owned
        <5>2. PICK h \in FirstRead : v.of = IdOf(h)
          BY <1>2, <1>9, <5>1 DEF NamesFirst
        <5>3. Reversed(h)
          BY <1>10, <5>1 DEF FirstEnded
        <5> QED
          BY <1>7, <5>2, <5>3, ReversedBy
      <4>3. CASE s # <<>>
        <5>1. PICK h \in grants : Names(x, h)
          BY DEF RInv, EntriesSound, EntrySound
        <5>2. h.slot = g.slot
          BY <1>3, <4>1, <4>3, <5>1 DEF Names
        <5>3. h = g
          BY <5>2 DEF IInv, LedgerInv, LedgerIntegrity
        <5> QED
          BY <1>3, <1>7, <5>1, <5>3 DEF Names
      <4> QED
        BY <4>2, <4>3
    <3> QED
      BY <1>7, <3>1, <3>2, <3>3
  <2> QED
    BY <2>1, <2>2
<1>12. DeliverySound(e)'
  BY <1>6, <1>8, <1>9, <1>11 DEF DeliverySound
<1>13. Owned' => FirstEnded' \/ (OneDelivery /\ Chasing(e)')
  <2>1. CASE OneDelivery
    <3>1. Chasing(e)'
      BY <1>6, <1>8, <1>9 DEF Chasing
    <3> QED
      BY <2>1, <3>1
  <2>2. CASE Recorded
    <3>1. PICK h \in FirstRead : v.of = IdOf(h)
      BY <1>2, <1>9, <2>2 DEF NamesFirst
    <3>2. \A x \in FirstRead : x = h
      BY DEF FirstRead, IInv, LedgerInv, LedgerIntegrity
    <3>3. FirstRead' = FirstRead
      BY <1>7 DEF FirstRead
    <3>4. Reversed(h)'
      BY <1>11, <3>1 DEF Reversed, ReversedIds, RevocationsOf, IdOf
    <3> QED
      BY <3>2, <3>3, <3>4 DEF FirstEnded
  <2> QED
    BY <2>1, <2>2
<1> QED
  BY <1>7, <1>8, <1>12, <1>13, DeliveryTakesStep

(* The entry read back is the named grant's own: the event fans out.       *)
LEMMA CallReadBackKeepsDeliveries ==
    ASSUME IInv, RInv, Living, DInv, Recorded \/ OneDelivery, NEW e \in Events,
           CallReadBack(e), UNCHANGED requestVars
    PROVE  DInv'
<1>1. /\ call[e].at = "back" /\ UNCHANGED <<ledgerVars, requestVars>> /\ e \in Callers
  BY RequestAssumption DEF CallReadBack
<1>2. PICK v \in Revocation : call[e].entry = {v} /\ EntryOf(e, v)
  BY <1>1, RunningCall
<1>3. PICK g \in grants : Names(v, g)
  BY <1>2 DEF EntryOf, EntrySound
<1>4. \E w \in revocations : w.of = IdOf(g)
  BY <1>1, <1>2, <1>3 DEF DInv, DeliverySound, Names
<1>5. ReadBack(v.player, v.key, v.of) = "recorded"
  <2>1. v.player = g.player /\ v.of = IdOf(g)
    BY <1>2, <1>3 DEF Names, EntryOf, IdOf
  <2> QED
    BY <1>4, <2>1, ReadsBack
<1>6. CallGoes(e, "shares")
  BY <1>2, <1>5 DEF CallReadBack, EntryOf
<1> DEFINE k == [call[e] EXCEPT !.at = "shares"]
<1>7. k.at = "shares" /\ k.pass = call[e].pass /\ call' = [call EXCEPT ![e] = k]
  BY <1>1, <1>6, RunningCall DEF CallGoes, Call
<1> HIDE DEF k
<1>8. k.pass = 0 /\ k.at \in FansOut
  BY <1>1, <1>7 DEF DInv, DeliverySound, FansOut
<1> QED
  BY <1>1, <1>7, <1>8, CallAppendsNothing

LEMMA CallReadSharesKeepsDeliveries ==
    ASSUME IInv, RInv, DInv, Recorded \/ OneDelivery, NEW e \in Events,
           CallReadShares(e), UNCHANGED requestVars
    PROVE  DInv'
<1>1. /\ call[e].at = "shares" /\ UNCHANGED <<ledgerVars, requestVars>> /\ e \in Callers
  BY RequestAssumption DEF CallReadShares
<1>2. CASE call[e].pass = FanOutPasses
  <2> DEFINE k == BlankCall("end", {}, "throw")
  <2>1. k.at = "end" /\ k.result = "throw" /\ call' = [call EXCEPT ![e] = k]
    BY <1>2 DEF CallReadShares, BlankCall, CallEnds
  <2>2. ~Chasing(e)
    BY <1>2, FanOutPassesPositive DEF Chasing
  <2> HIDE DEF k
  <2> QED
    BY <1>1, <2>1, <2>2, CallAppendsNothing
<1>3. CASE call[e].pass # FanOutPasses
  <2> DEFINE k == [call[e] EXCEPT !.at = "first", !.seen = SharesRead]
  <2>1. k.at = "first" /\ k.pass = call[e].pass /\ call' = [call EXCEPT ![e] = k]
    BY <1>1, <1>3, RunningCall DEF CallReadShares, Call
  <2> HIDE DEF k
  <2>2. Chasing(e) => k.pass = 0 /\ k.at \in FansOut
    BY <2>1 DEF Chasing, FansOut
  <2> QED
    BY <1>1, <2>1, <2>2, CallAppendsNothing
<1> QED
  BY <1>2, <1>3

LEMMA CallReadFirstKeepsDeliveries ==
    ASSUME IInv, RInv, DInv, Recorded \/ OneDelivery, NEW e \in Events,
           CallReadFirst(e), UNCHANGED requestVars
    PROVE  DInv'
<1>1. /\ call[e].at = "first" /\ UNCHANGED <<ledgerVars, requestVars>> /\ e \in Callers
  BY RequestAssumption DEF CallReadFirst
<1> DEFINE seen == call[e].seen \cup FirstRead
           k == [call[e] EXCEPT !.at = "reversed", !.seen = seen]
<1>2. /\ k.at = "reversed" /\ k.pass = call[e].pass /\ k.seen = seen
      /\ call' = [call EXCEPT ![e] = k] /\ FirstRead \subseteq seen
  BY <1>1, RunningCall DEF CallReadFirst, Call
<1> HIDE DEF k, seen
<1>3. Chasing(e) => k.pass = 0 /\ k.at \in FansOut
  BY <1>2 DEF Chasing, FansOut
<1> QED
  BY <1>1, <1>2, <1>3, CallAppendsNothing

(* The first pass ends with the first grant reversed or to be reversed.    *)
LEMMA CallReadReversedKeepsDeliveries ==
    ASSUME IInv, RInv, DInv, Recorded \/ OneDelivery, NEW e \in Events,
           CallReadReversed(e), UNCHANGED requestVars
    PROVE  DInv'
<1>1. /\ call[e].at = "reversed" /\ UNCHANGED <<ledgerVars, requestVars>> /\ e \in Callers
  BY RequestAssumption DEF CallReadReversed
<1>2. PICK v \in Revocation : call[e].entry = {v} /\ EntryEnds(v)
  BY <1>1, RunningCall DEF FansOut
<1> DEFINE others == {g \in call[e].seen : IdOf(g) # v.of}
           active == {g \in others : IdOf(g) \notin ReversedIds(IdsOf(others))}
<1>3. IF active = {} THEN CallEnds(e, "revoked")
      ELSE call' = [call EXCEPT ![e].at = "record", ![e].todo = active]
  BY <1>2 DEF CallReadReversed
<1>4. \A g \in call[e].seen : g \in active \/ Reversed(g)
  <2> SUFFICES ASSUME NEW g \in call[e].seen PROVE g \in active \/ Reversed(g)
    OBVIOUS
  <2>1. CASE IdOf(g) = v.of
    BY <1>2, <2>1, ReversedBy DEF EntryEnds
  <2>2. CASE IdOf(g) # v.of /\ IdOf(g) \in ReversedIds(IdsOf(others))
    <3>1. \E w \in revocations : w.of = IdOf(g)
      BY <2>2, ReversedIdsAreNamed
    <3> QED
      BY <3>1, ReversedBy
  <2>3. CASE IdOf(g) # v.of /\ IdOf(g) \notin ReversedIds(IdsOf(others))
    BY <2>3
  <2> QED
    BY <2>1, <2>2, <2>3
<1>5. Chasing(e) => call[e].pass = 0 /\ \A g \in FirstRead : g \in active \/ Reversed(g)
  BY <1>1, <1>4 DEF Chasing
<1>6. CASE active = {}
  <2> DEFINE k == BlankCall("end", {}, "revoked")
  <2>1. k.at = "end" /\ k.result = "revoked" /\ call' = [call EXCEPT ![e] = k]
    BY <1>3, <1>6 DEF BlankCall, CallEnds
  <2>2. Chasing(e) => FirstEnded
    BY <1>5, <1>6 DEF FirstEnded
  <2> HIDE DEF k
  <2> QED
    BY <1>1, <2>1, <2>2, CallAppendsNothing
<1>7. CASE active # {}
  <2> DEFINE k == [call[e] EXCEPT !.at = "record", !.todo = active]
  <2>1. /\ k.at = "record" /\ k.todo = active /\ k.pass = call[e].pass
        /\ call' = [call EXCEPT ![e] = k]
    BY <1>1, <1>3, <1>7, RunningCall DEF Call
  <2> HIDE DEF k, active
  <2>2. Chasing(e) => /\ k.pass = 0 /\ k.at \in FansOut
                      /\ \A g \in FirstRead : g \in k.todo \/ Reversed(g)
    BY <1>5, <2>1 DEF FansOut
  <2> QED
    BY <1>1, <2>1, <2>2, CallAppendsNothing
<1> QED
  BY <1>6, <1>7

(* The foremost holder of a pass. *)
LEMMA HolderFacts ==
    ASSUME IInv, RInv, Living, NEW e \in Events,
           call[e].at \in {"record", "holderBack"}, NEW h \in Foremost(call[e].todo)
    PROVE  /\ h \in grants /\ h \in Grant /\ h.player \in Players
           /\ h \in call[e].todo /\ call[e].todo \subseteq grants
           /\ h \in ById(IdOf(h))
           /\ \A x \in Foremost(call[e].todo) : x = h
<1>1. e \in Callers
  BY RequestAssumption
<1>2. call[e].todo \subseteq grants /\ grants \subseteq Grant
  BY <1>1, RunningCall DEF CallSound, IInv, TypeOK, LedgerTypeOK
<1>3. h \in call[e].todo /\ h \in grants /\ h \in Grant
  BY <1>2 DEF Foremost
<1>4. ASSUME NEW x \in Foremost(call[e].todo) PROVE x = h
  <2>1. x \in grants /\ x.slot <= h.slot /\ h.slot <= x.slot
    BY <1>2, <1>3 DEF Foremost
  <2>2. x.slot \in Nat /\ h.slot \in Nat
    BY <1>2, <1>3, <2>1 DEF Grant
  <2>3. x.slot = h.slot
    BY <2>1, <2>2
  <2> QED
    BY <1>3, <2>1, <2>3 DEF IInv, LedgerInv, LedgerIntegrity
<1> QED
  BY <1>2, <1>3, <1>4 DEF Living, ById

LEMMA CallRecordHolderKeepsDeliveries ==
    ASSUME IInv, RInv, Living, DInv, Recorded \/ OneDelivery, NEW e \in Events,
           CallRecordHolder(e), UNCHANGED requestVars
    PROVE  DInv'
<1>1. /\ call[e].at = "record" /\ UNCHANGED <<grants, tombstones>> /\ e \in Callers
  BY RequestAssumption DEF CallRecordHolder
<1>2. PICK v \in Revocation : call[e].entry = {v}
  BY <1>1, RunningCall
<1>3. PICK holder \in Foremost(call[e].todo) :
        IF Refused(HolderEntry(v, holder))
        THEN CallEnds(e, "throw") /\ UNCHANGED revocations
        ELSE InsertRevocation(HolderEntry(v, holder)) /\ CallGoes(e, "holderBack")
  BY <1>2 DEF CallRecordHolder
<1>4. /\ holder \in grants /\ holder \in Grant /\ holder.player \in Players
      /\ holder \in ById(IdOf(holder))
      /\ \A x \in Foremost(call[e].todo) : x = holder
  BY <1>1, <1>3, HolderFacts
<1> DEFINE w == HolderEntry(v, holder)
           k == [call[e] EXCEPT !.at = "holderBack"]
<1>5. Names(w, holder) /\ <<>> \notin w.ev /\ w.player = w.of[1]
  BY <1>2, <1>4, HolderEntryNames
<1>6. InsertRevocation(w) /\ CallGoes(e, "holderBack")
  BY <1>3, <1>4, <1>5 DEF Refused, Names
<1>7. /\ k.at = "holderBack" /\ k.todo = call[e].todo /\ k.pass = call[e].pass
      /\ call' = [call EXCEPT ![e] = k]
  BY <1>1, <1>6, RunningCall DEF Call, CallGoes
<1> HIDE DEF w, k
<1>8. revocations \subseteq revocations' /\ grants' = grants
  BY <1>1, <1>6 DEF InsertRevocation
<1>9. Reversed(holder)'
  BY <1>4, <1>5, <1>6, <1>8, InsertEnds
<1>10. /\ call'[e] = k /\ event'[e].at = "called" /\ refunded /\ refunded' = refunded
       /\ req' = req
       /\ \A x \in Events \ {e} : event'[x] = event[x] /\ call'[x] = call[x]
  BY <1>1, <1>7, EventsCall
<1>11. (Foremost(call[e].todo))' = Foremost(call[e].todo)
  BY <1>7, <1>10 DEF Foremost
<1>12. DeliverySound(e)'
  BY <1>4, <1>7, <1>9, <1>10, <1>11 DEF DeliverySound
<1>13. Owned' => FirstEnded' \/ (OneDelivery /\ Chasing(e)')
  <2> SUFFICES ASSUME Owned' PROVE FirstEnded' \/ (OneDelivery /\ Chasing(e)')
    OBVIOUS
  <2>1. FirstEnded \/ (OneDelivery /\ Chasing(e))
    BY <1>5, <1>6, OthersOwnNothing DEF DInv, OneDelivery
  <2>2. FirstRead' = FirstRead /\ \A g : Reversed(g) => Reversed(g)'
    BY <1>8, ReversedGrows DEF FirstRead
  <2>3. Chasing(e) => Chasing(e)'
    BY <1>1, <1>7, <1>10, <2>2 DEF Chasing, FansOut
  <2> QED
    BY <2>1, <2>2, <2>3 DEF FirstEnded
<1> QED
  BY <1>8, <1>10, <1>12, <1>13, DeliveryTakesStep

LEMMA CallHolderReadBackKeepsDeliveries ==
    ASSUME IInv, RInv, Living, DInv, Recorded \/ OneDelivery, NEW e \in Events,
           CallHolderReadBack(e), UNCHANGED requestVars
    PROVE  DInv'
<1>1. /\ call[e].at = "holderBack" /\ UNCHANGED <<ledgerVars, requestVars>> /\ e \in Callers
  BY RequestAssumption DEF CallHolderReadBack
<1>2. PICK v \in Revocation : call[e].entry = {v}
  BY <1>1, RunningCall
<1>3. PICK holder \in Foremost(call[e].todo) :
        IF ReadBack(holder.player, v.key, IdOf(holder)) # "recorded"
        THEN CallEnds(e, "throw")
        ELSE call' = [call EXCEPT
                ![e].todo = call[e].todo \ {holder},
                ![e].at = IF call[e].todo \ {holder} = {} THEN "shares" ELSE "record",
                ![e].pass = IF call[e].todo \ {holder} = {} THEN @ + 1 ELSE @]
  BY <1>2 DEF CallHolderReadBack
<1>4. holder \in grants /\ Reversed(holder)
  BY <1>1, <1>3, HolderFacts DEF DInv, DeliverySound
<1>5. ReadBack(holder.player, v.key, IdOf(holder)) = "recorded"
  BY <1>4, ReadsBack, ReversedBy
<1> DEFINE left == call[e].todo \ {holder}
           step == IF left = {} THEN "shares" ELSE "record"
           pass == IF left = {} THEN call[e].pass + 1 ELSE call[e].pass
           k == [call[e] EXCEPT !.todo = left, !.at = step, !.pass = pass]
<1>6. call' = [call EXCEPT ![e].todo = left, ![e].at = step, ![e].pass = pass]
  BY <1>3, <1>5
<1>7. /\ left = {} => step = "shares"
      /\ left # {} => step = "record" /\ pass = call[e].pass
      /\ \A g \in call[e].todo : g \in left \/ Reversed(g)
  BY <1>4
<1> HIDE DEF left, step, pass
<1>8. k.at = step /\ k.todo = left /\ k.pass = pass /\ call' = [call EXCEPT ![e] = k]
  BY <1>1, <1>6, RunningCall DEF Call
<1> HIDE DEF k
<1>9. Chasing(e) => \A g \in FirstRead : g \in left \/ Reversed(g)
  BY <1>1, <1>7 DEF Chasing
<1>10. Chasing(e) => \/ FirstEnded
                     \/ /\ k.pass = 0 /\ k.at = "record"
                        /\ \A g \in FirstRead : g \in k.todo \/ Reversed(g)
  BY <1>7, <1>8, <1>9 DEF FirstEnded, Chasing
<1>11. k.at \in {"shares", "record"}
  BY <1>7, <1>8
<1> QED
  BY <1>1, <1>8, <1>10, <1>11, CallAppendsNothing DEF FansOut

-----------------------------------------------------------------------------
(* The invariant. *)

LEMMA NextLiving ==
    ASSUME IInv, Living, Next PROVE Living'
<1>1. CASE \E r \in Requests : Insert(r)
  <2>1. PICK r \in Requests : Insert(r)
    BY <1>1
  <2>2. PICK g \in req[r].mine : InsertGrant(g)
    BY <2>1 DEF Insert
  <2>3. \A x \in req[r].mine : x.player = RequestPlayer[r]
    BY <2>1, RowIsGrant DEF Insert, IInv, RequestsSound, SoundAt
  <2>4. g.player \in Players
    BY <2>2, <2>3, RequestAssumption
  <2>5. Headed(grants')
    BY <2>1, <2>2, RowGrows, HeadedGrows DEF InsertGrant, Insert, Living
  <2> QED
    BY <2>2, <2>4, <2>5 DEF InsertGrant, Living
<1>2. CASE ~\E r \in Requests : Insert(r)
  <2>1. grants' = grants
    <3>1. ASSUME NEW r \in Requests, Send(r) \/ Resend(r) \/ RequestStep(r) \/ LoseRequest(r)
          PROVE  grants' = grants
      BY <1>2, <3>1 DEF Send, Resend, LoseRequest, RequestStep, Lookup, Replay, Verify,
         BoundReadShares, BoundReadFirst, BoundEvidence, BoundOther, BoundOwnReversed,
         ShareReadShares, ShareReadFirst, ShareReadReversed, ShareDecide, CheckTombstone,
         InsertBack, Keyed, KeyedReversed, Reread, ReadEnded, DecidePrior, Closed,
         OnlyRequest, ledgerVars
    <3>2. ASSUME NEW e \in Events,
                 StoreRefunds(e) \/ EventStep(e) \/ Redeliver(e) \/ LoseDelivery(e)
          PROVE  grants' = grants
      BY <3>2 DEF StoreRefunds, EventStep, EventFindFirst, EventFindShare, EventSettles,
         Redeliver, LoseDelivery, ledgerVars
    <3>3. ASSUME NEW c \in Callers, RevocationStep(c) PROVE grants' = grants
      BY <3>3 DEF RevocationStep, CallStep, CallGet, CallInsert, CallReadBack,
         CallReadShares, CallReadFirst, CallReadReversed, CallRecordHolder,
         CallHolderReadBack, ledgerVars
    <3>4. ASSUME NEW g \in grants, AdminRevokes(g) PROVE grants' = grants
      BY <3>4 DEF AdminRevokes
    <3> QED
      BY <3>1, <3>2, <3>3, <3>4 DEF Next
  <2> QED
    BY <2>1 DEF Living
<1> QED
  BY <1>1, <1>2

LEMMA InitDeliveries ==
    ASSUME Init PROVE Living /\ DInv
<1>1. /\ grants \in Seeds /\ revocations = {}
      /\ \A e \in Events : event[e].at = "unsent" /\ event[e].outcome = "none"
      /\ \A e \in Events : call[e].at = "idle"
  <2>1. \A e \in Events : e \in Callers
    BY RequestAssumption
  <2> QED
    BY <2>1 DEF Init, CallInit, IdleCall, BlankCall
<1>2. grants # {} => FirstRead # {} /\ \A g \in grants : g.player \in Players
  BY <1>1, SeedAssumption DEF FirstRead
<1>3. Recorded => FirstRead # {}
  BY <1>1, <1>2 DEF Recorded
<1>4. ~Owned
  BY <1>1 DEF Owned
<1>5. \A e \in Events : DeliverySound(e)
  BY <1>1 DEF DeliverySound
<1> QED
  BY <1>2, <1>3, <1>4, <1>5 DEF Living, Headed, FirstRead, DInv

LEMMA StutterDeliveries ==
    ASSUME Living, DInv, UNCHANGED vars PROVE Living' /\ DInv'
<1>1. /\ grants' = grants /\ revocations' = revocations /\ call' = call /\ req' = req
      /\ event' = event /\ refunded' = refunded
  BY DEF vars, ledgerVars, requestVars
<1>2. Living' /\ FirstRead' = FirstRead /\ (Owned' => Owned) /\ (Nobody => Nobody')
  BY <1>1 DEF Living, FirstRead, Owned, Nobody
<1>3. DInv'
  BY <1>1, <1>2, DeliveriesStay
<1> QED
  BY <1>2, <1>3

LEMMA NextDeliveries ==
    ASSUME IInv, RInv, Living, DInv, Recorded \/ OneDelivery, Next
    PROVE  DInv'
<1>1. ASSUME NEW r \in Requests, Send(r) \/ Resend(r) \/ RequestStep(r) \/ LoseRequest(r)
      PROVE  DInv'
  BY <1>1, RequestKeepsDeliveries
<1>2. ASSUME NEW e \in Events,
             StoreRefunds(e) \/ EventStep(e) \/ Redeliver(e) \/ LoseDelivery(e)
      PROVE  DInv'
  BY <1>2, EventFindsFirst, EventFindsShare, OtherDeliverySteps, LostDelivery DEF EventStep
<1>3. ASSUME NEW e \in Events, RevocationStep(e) PROVE DInv'
  BY <1>3, CallGetKeepsDeliveries, CallInsertKeepsDeliveries, CallReadBackKeepsDeliveries,
     CallReadSharesKeepsDeliveries, CallReadFirstKeepsDeliveries,
     CallReadReversedKeepsDeliveries, CallRecordHolderKeepsDeliveries,
     CallHolderReadBackKeepsDeliveries DEF RevocationStep, CallStep
<1>4. ASSUME NEW c \in Callers, RevocationStep(c) PROVE DInv'
  BY <1>3, <1>4, ClosingKeepsDeliveries, RequestAssumption
<1>5. ASSUME NEW g \in grants, AdminRevokes(g) PROVE DInv'
  BY <1>5, AdminKeepsDeliveries
<1> QED
  BY <1>1, <1>2, <1>4, <1>5 DEF Next

(* An event the handler acknowledges without a revocation leaves no holder *)
(* behind (app-store-server-notifications.ts 368), when the purchase's first *)
(* grant was on the ledger before the refund, or the refund has one event    *)
(* and no delivery of it is lost.                                           *)
THEOREM AcknowledgedHolds ==
    ASSUME Recorded \/ OneDelivery
    PROVE  Spec => []AcknowledgedEventsMissNothing
<1>1. Init => Living /\ DInv
  BY InitDeliveries
<1>2. IInv /\ RInv /\ Living /\ DInv /\ [Next]_vars => Living' /\ DInv'
  BY NextLiving, NextDeliveries, StutterDeliveries
<1>3. DInv => AcknowledgedEventsMissNothing
  BY DEF DInv, DeliverySound, Nobody, AcknowledgedEventsMissNothing, Active
<1> QED
  BY <1>1, <1>2, <1>3, RefundInvariantHolds, PTL DEF Spec

=============================================================================
