------------------------ MODULE RetainedPurchasesProofs ------------------------
(***************************************************************************)
(* Theorems about RetainedPurchases: the purchase's ledger while accounts  *)
(* are deleted and the retention purge runs, for every set of players,     *)
(* requests, events and old grants and every bound on faults.              *)
(*                                                                         *)
(* A batch renames the holders a request has read and a purge takes a row   *)
(* from under it, so what RestoreSharingProofs says of the handlers holds   *)
(* only while neither overtakes one.  What always holds is weaker on the    *)
(* slots and carries the erasers: the ledger keeps its integrity           *)
(* (LedgerOK), the handlers' locals stay in their types (Control), and what *)
(* an eraser has read is still there and its player's, all of it once the   *)
(* final pass has begun (ErasuresOK).  A handler's step lets the ledger     *)
(* rest, adds one row or adds one entry (Works); only Batch and Purge take  *)
(* anything away.  The last part carries the invariant of RefundProofs past *)
(* every batch and purge that finds the ledger unused (Beside).            *)
(***************************************************************************)
EXTENDS RetainedPurchases, RefundProofs

Bounded(S) == \E b \in Nat : \A g \in S : g.slot < b

(* What the locals q of request r are worth on a ledger that rows may leave. *)
SoundRequest(r, q) ==
    /\ q.at \in {"first", "reversed", "wide"} => q.tries < Attempts
    /\ q.at \in {"check", "insert", "back"} =>
         \E s \in Nat, a \in BOOLEAN :
            q.mine = {Row(r, s, a)} /\ (s > 0 \/ a => q.tries < Attempts)
    /\ Bounded(q.seen)

(* An entry of a call names the owner of the grant it is for.              *)
SoundCall(k) ==
    /\ k.at \in {"first", "reversed", "record", "holderBack"} => k.pass < FanOutPasses
    /\ \A v \in k.entry : v.player = v.of[1]

RequestsOK ==
    /\ req \in [Requests -> Request]
    /\ \A r \in Requests : SoundRequest(r, req[r])

CallsOK == CallTypeOK /\ \A c \in Callers : SoundCall(call[c])

OthersOK ==
    /\ refunded \in BOOLEAN
    /\ event \in [Events -> EventState]
    /\ orphans \subseteq Nat
    /\ admins \in 0..MaxAdmins /\ faults \in 0..MaxFaults
    /\ resends \in 0..MaxResends

Control == RequestsOK /\ CallsOK /\ OthersOK

(* A kept grant is keyed by its slot, so two deletions of one player, and  *)
(* two passes of one deletion, never meet under one id.                    *)
KeptBySlot == \A g \in grants : IsKept(g) => g.key = g.slot

EntriesName == \A v \in revocations : v.player \in Players => v.of[1] = v.player

LedgerOK == LedgerTypeOK /\ LedgerIntegrity /\ Bounded(grants) /\ KeptBySlot /\ EntriesName

Base == LedgerOK /\ Control

Idle(r) == req[r].at \in {"idle", "done"}

(* What the eraser of p holds, and what its final pass may rely on.        *)
EraserSound(p, x) ==
    /\ x.took \subseteq grants /\ \A g \in x.took : g.player = p
    /\ x.entries \subseteq revocations /\ \A v \in x.entries : v.of[1] = p
    /\ x.at = "erased" => x.final
    /\ x.final => x.at # "none" /\ \A r \in Requests : RequestPlayer[r] = p => Idle(r)
    /\ x.final /\ x.at \in {"revocations", "batch"} =>
         \A g \in grants : g.player = p => g \in x.took
    /\ x.at = "erased" => \A g \in grants : g.player # p

ErasuresOK ==
    /\ erasure \in [Players -> Erasure]
    /\ \A p \in Players : EraserSound(p, erasure[p])

RetainedInv ==
    /\ Base
    /\ ErasuresOK
    /\ expired \subseteq Nat
    /\ overtaken \in BOOLEAN

(* How the ledger changes while requests, events and calls run.            *)
TakesRow ==
    \E r \in Requests, g \in Grant :
        /\ ~Idle(r) /\ g.player = RequestPlayer[r]
        /\ GrantInserts(g) /\ grants' = grants \cup {g}
        /\ UNCHANGED <<revocations, tombstones>>

TakesEntry ==
    \E v \in Revocation :
        /\ v.player = v.of[1] /\ ById(v.of) # {} /\ InsertRevocation(v)
        /\ UNCHANGED <<grants, tombstones>>

LedgerTurns == UNCHANGED ledgerVars \/ TakesRow \/ TakesEntry

NobodyWakes == \A r \in Requests : Idle(r) /\ ~Authenticated(r) => Idle(r)'

Works == Control' /\ LedgerTurns /\ NobodyWakes

-----------------------------------------------------------------------------
(* Sets of slots with a bound. *)

LEMMA BoundedUnion ==
    ASSUME NEW S \in SUBSET Grant, NEW T \in SUBSET Grant, Bounded(S), Bounded(T)
    PROVE  Bounded(S \cup T)
<1>1. PICK b \in Nat : \A g \in S : g.slot < b
  BY DEF Bounded
<1>2. PICK c \in Nat : \A g \in T : g.slot < c
  BY DEF Bounded
<1>3. \A g \in S \cup T : g.slot \in Nat /\ g.slot < b + c
  BY <1>1, <1>2 DEF Grant
<1>4. b + c \in Nat
  BY <1>1, <1>2
<1> QED
  BY <1>3, <1>4 DEF Bounded

LEMMA BoundedSubset ==
    ASSUME NEW T, Bounded(T), NEW S \in SUBSET T PROVE Bounded(S)
BY DEF Bounded

LEMMA BoundedEmpty == Bounded({})
<1>1. 0 \in Nat /\ \A g \in {} : g.slot < 0
  OBVIOUS
<1> QED
  BY <1>1 DEF Bounded

LEMMA BoundedOne ==
    ASSUME NEW g \in Grant PROVE Bounded({g})
<1>1. g.slot + 1 \in Nat /\ \A h \in {g} : h.slot < g.slot + 1
  BY DEF Grant
<1> QED
  BY <1>1 DEF Bounded

(* Without the no-gap fact the next slot is still one past the highest.    *)
LEMMA NextSlotIsNat ==
    ASSUME NEW S \in SUBSET Grant, Bounded(S)
    PROVE  NextSlot(S) \in Nat
<1> DEFINE less == OpToRel(<, Nat)
           bounds == {b \in Nat : \A g \in S : g.slot < b}
           Free(n) == n \in {1} \cup {g.slot + 1 : g \in S} /\ \A g \in S : g.slot < n
<1>1. bounds \subseteq Nat /\ bounds # {}
  BY DEF Bounded
<1>2. IsWellFoundedOn(less, Nat)
  BY NatLessThanWellFounded
<1>3. PICK n \in bounds : \A m \in bounds : ~(<<m, n>> \in less)
  <2> HIDE DEF less, bounds
  <2> QED
    BY <1>1, <1>2, WFMin
<1>4. n \in Nat /\ \A g \in S : g.slot < n /\ g.slot \in Nat
  BY <1>3 DEF Grant
<1>5. \A m \in Nat : m < n => \E g \in S : ~(g.slot < m)
  BY <1>3, <1>4 DEF OpToRel
<1>6. \E k \in Nat : Free(k)
  <2>1. CASE n = 0
    <3>1. Free(1)
      BY <1>4, <2>1
    <3> QED
      BY <3>1
  <2>2. CASE n # 0
    <3>1. n - 1 \in Nat /\ n - 1 < n
      BY <1>4, <2>2
    <3>2. PICK g \in S : ~(g.slot < n - 1)
      BY <1>5, <3>1
    <3>3. g.slot + 1 = n
      BY <1>4, <3>1, <3>2
    <3>4. Free(n)
      BY <1>4, <3>3
    <3> QED
      BY <1>4, <3>4
  <2> QED
    BY <2>1, <2>2
<1>7. \A k : Free(k) => k \in Nat
  BY <1>4
<1> HIDE DEF Free
<1>8. NextSlot(S) = CHOOSE k : Free(k)
  BY DEF NextSlot, Free
<1> QED
  BY <1>6, <1>7, <1>8

-----------------------------------------------------------------------------
(* Steps of one request. *)

LEMMA BaseFacts ==
    ASSUME Base, NEW r \in Requests
    PROVE  /\ req[r] \in Request /\ SoundRequest(r, req[r])
           /\ grants \subseteq Grant /\ revocations \subseteq Revocation
           /\ Bounded(grants)
BY DEF Base, LedgerOK, LedgerTypeOK, Control, RequestsOK

LEMMA RequestTakes ==
    ASSUME Base, NEW r \in Requests, NEW q \in Request, SoundRequest(r, q),
           req' = [req EXCEPT ![r] = q],
           ~Idle(r) \/ Authenticated(r)
    PROVE  RequestsOK' /\ NobodyWakes
<1>1. req \in [Requests -> Request] /\ \A x \in Requests : SoundRequest(x, req[x])
  BY DEF Base, Control, RequestsOK
<1>2. \A x \in Requests : req'[x] = IF x = r THEN q ELSE req[x]
  BY <1>1
<1>3. \A x \in Requests : SoundRequest(x, req'[x])
  BY <1>1, <1>2
<1>4. \A x \in Requests : x # r => (Idle(x) => Idle(x)')
  BY <1>2 DEF Idle
<1>5. SoundRequest(r, q)' <=> SoundRequest(r, q)
  OBVIOUS
<1> QED
  BY <1>1, <1>3, <1>4 DEF RequestsOK, NobodyWakes

LEMMA RequestWorks ==
    ASSUME Base, NEW r \in Requests, NEW q \in Request, SoundRequest(r, q),
           req' = [req EXCEPT ![r] = q], OnlyRequest,
           ~Idle(r) \/ Authenticated(r)
    PROVE  Works
<1>1. RequestsOK' /\ NobodyWakes
  BY RequestTakes
<1>2. CallsOK' /\ OthersOK'
  BY DEF OnlyRequest, Base, Control, CallsOK, OthersOK, CallTypeOK
<1>3. UNCHANGED ledgerVars
  BY DEF OnlyRequest
<1> QED
  BY <1>1, <1>2, <1>3 DEF Works, Control, LedgerTurns

LEMMA BlankIsSound ==
    ASSUME NEW r \in Requests, NEW step \in {"idle", "lookup", "done"}, NEW a \in Answers
    PROVE  Blank(step, a) \in Request /\ SoundRequest(r, Blank(step, a))
<1>1. step \in RequestSteps /\ 0 \in 0..Attempts
  BY RequestAssumption DEF RequestSteps
<1>2. Blank(step, a) \in Request
  BY <1>1 DEF Blank, Request
<1>3. Blank(step, a).at = step /\ Blank(step, a).seen = {}
  BY DEF Blank
<1> QED
  BY <1>2, <1>3, BoundedEmpty DEF SoundRequest

LEMMA AnswerWorks ==
    ASSUME Base, NEW r \in Requests, ~Idle(r), NEW a \in Answers,
           Answer(r, a), OnlyRequest
    PROVE  Works
BY BlankIsSound, RequestWorks DEF Answer

LEMMA GoesWorks ==
    ASSUME Base, NEW r \in Requests, ~Idle(r) \/ Authenticated(r),
           NEW step \in RequestSteps \ {"first", "reversed", "wide", "check", "insert", "back"},
           Goes(r, step), OnlyRequest
    PROVE  Works
<1> DEFINE q == [req[r] EXCEPT !.at = step]
<1>1. req[r] \in Request /\ Bounded(req[r].seen)
  BY BaseFacts DEF SoundRequest
<1>2. q \in Request /\ q.at = step /\ q.seen = req[r].seen
  BY <1>1 DEF Request
<1>3. req' = [req EXCEPT ![r] = q]
  BY DEF Goes
<1> HIDE DEF q
<1>4. SoundRequest(r, q)
  BY <1>1, <1>2 DEF SoundRequest
<1> QED
  BY <1>2, <1>3, <1>4, RequestWorks

(* A step of r that changes what it has read, and writes nothing yet.      *)
LEMMA ReadsWork ==
    ASSUME Base, NEW r \in Requests, ~Idle(r),
           NEW step \in RequestSteps \ {"check", "insert", "back"},
           NEW seen \in SUBSET Grant, Bounded(seen), NEW gone \in SUBSET Ids,
           NEW mine \in SUBSET Grant, NEW ended \in SUBSET Revocation,
           step \in {"first", "reversed", "wide"} => req[r].tries < Attempts,
           req' = [req EXCEPT ![r] = [req[r] EXCEPT !.at = step, !.seen = seen,
                        !.gone = gone, !.mine = mine, !.ended = ended]],
           OnlyRequest
    PROVE  Works
<1> DEFINE q == [req[r] EXCEPT !.at = step, !.seen = seen, !.gone = gone,
                               !.mine = mine, !.ended = ended]
<1>1. req[r] \in Request
  BY BaseFacts
<1>2. q \in Request /\ q.at = step /\ q.seen = seen /\ q.tries = req[r].tries
  BY <1>1 DEF Request
<1> HIDE DEF q
<1>3. SoundRequest(r, q)
  BY <1>2 DEF SoundRequest
<1> QED
  BY <1>2, <1>3, RequestWorks DEF q

(* A step of r that has chosen the row to write.                           *)
LEMMA WritesWork ==
    ASSUME Base, NEW r \in Requests, ~Idle(r),
           NEW step \in RequestSteps \ {"first", "reversed", "wide"},
           NEW seen \in SUBSET Grant, Bounded(seen),
           NEW s \in Nat, NEW a \in BOOLEAN, s > 0 \/ a => req[r].tries < Attempts,
           req' = [req EXCEPT ![r] = [req[r] EXCEPT !.at = step, !.seen = seen,
                        !.mine = {Row(r, s, a)}]],
           OnlyRequest
    PROVE  Works
<1> DEFINE q == [req[r] EXCEPT !.at = step, !.seen = seen, !.mine = {Row(r, s, a)}]
<1>1. req[r] \in Request /\ Row(r, s, a) \in Grant
  BY BaseFacts, RowIsGrant
<1>2. /\ q \in Request /\ q.at = step /\ q.seen = seen /\ q.tries = req[r].tries
      /\ q.mine = {Row(r, s, a)}
  BY <1>1 DEF Request
<1> HIDE DEF q
<1>3. SoundRequest(r, q)
  BY <1>2 DEF SoundRequest
<1> QED
  BY <1>2, <1>3, RequestWorks DEF q

LEMMA PathsWork ==
    ASSUME Base, NEW r \in Requests,
           \/ (Send(r) /\ Authenticated(r)) \/ Lookup(r) \/ Replay(r) \/ Verify(r)
           \/ BoundReadFirst(r) \/ BoundOwnReversed(r)
           \/ Keyed(r) \/ KeyedReversed(r)
    PROVE  Works
<1> USE DEF RequestSteps, Answers
<1>1. ASSUME ~Idle(r), OnlyRequest, NEW a \in Answers, Answer(r, a) PROVE Works
  BY <1>1, AnswerWorks
<1>2. CASE Send(r) /\ Authenticated(r)
  BY <1>2, GoesWorks DEF Send
<1>3. CASE Lookup(r)
  <2>1. /\ ~Idle(r) /\ OnlyRequest
        /\ \/ \E a \in Answers : Answer(r, a)
           \/ \E step \in {"replay", "verify"} : Goes(r, step)
    BY <1>3 DEF Lookup, Idle
  <2> QED
    BY <1>1, <2>1, GoesWorks
<1>4. CASE Replay(r)
  <2>1. ~Idle(r) /\ OnlyRequest /\ \E a \in Answers : Answer(r, a)
    BY <1>4 DEF Replay, Idle
  <2> QED
    BY <1>1, <2>1
<1>5. CASE Verify(r)
  <2>1. /\ ~Idle(r) /\ OnlyRequest
        /\ \E step \in {"raced", "boundShares", "shares"} : Goes(r, step)
    BY <1>5 DEF Verify, Idle
  <2> QED
    BY <2>1, GoesWorks
<1>6. CASE BoundReadFirst(r)
  <2>1. /\ ~Idle(r) /\ OnlyRequest
        /\ \E step \in {"shares", "evidence"} : Goes(r, step)
    BY <1>6 DEF BoundReadFirst, Idle
  <2> QED
    BY <2>1, GoesWorks
<1>7. CASE BoundOwnReversed(r)
  <2>1. ~Idle(r) /\ OnlyRequest /\ \E a \in Answers : Answer(r, a)
    BY <1>7 DEF BoundOwnReversed, Idle
  <2> QED
    BY <1>1, <2>1
<1>8. CASE Keyed(r)
  <2>1. /\ ~Idle(r) /\ OnlyRequest
        /\ \/ \E a \in Answers : Answer(r, a)
           \/ Goes(r, "keyedReversed")
    BY <1>8 DEF Keyed, Idle
  <2> QED
    BY <1>1, <2>1, GoesWorks
<1>9. CASE KeyedReversed(r)
  <2>1. ~Idle(r) /\ OnlyRequest /\ \E a \in Answers : Answer(r, a)
    BY <1>9 DEF KeyedReversed, Idle
  <2> QED
    BY <1>1, <2>1
<1> QED
  BY <1>2, <1>3, <1>4, <1>5, <1>6, <1>7, <1>8, <1>9

LEMMA BoundReadSharesWorks ==
    ASSUME Base, NEW r \in Requests, BoundReadShares(r) PROVE Works
<1>1. req[r] \in Request /\ SharesRead \subseteq Grant /\ Bounded(SharesRead)
  BY BaseFacts, BoundedSubset DEF SharesRead
<1>2. ~Idle(r) /\ OnlyRequest
  BY DEF BoundReadShares, Idle
<1>3. req' = [req EXCEPT ![r] = [req[r] EXCEPT !.at = "boundFirst", !.seen = SharesRead,
                !.gone = req[r].gone, !.mine = req[r].mine, !.ended = req[r].ended]]
  BY <1>1 DEF BoundReadShares, Request
<1>4. /\ "boundFirst" \in RequestSteps \ {"first", "reversed", "wide", "check", "insert", "back"}
      /\ SharesRead \in SUBSET Grant /\ req[r].gone \in SUBSET Ids
      /\ req[r].mine \in SUBSET Grant /\ req[r].ended \in SUBSET Revocation
  BY <1>1 DEF RequestSteps, Request
<1> QED
  BY <1>1, <1>2, <1>3, <1>4, ReadsWork

LEMMA BoundEvidenceWorks ==
    ASSUME Base, NEW r \in Requests, BoundEvidence(r) PROVE Works
<1>1. PICK step \in {"check", "keyed", "other"} :
        req' = [req EXCEPT ![r].mine = {Row(r, 0, FALSE)}, ![r].at = step]
  BY DEF BoundEvidence
<1>2. ~Idle(r) /\ OnlyRequest /\ req[r] \in Request /\ Bounded(req[r].seen)
  BY BaseFacts DEF BoundEvidence, Idle, SoundRequest
<1>3. req' = [req EXCEPT ![r] = [req[r] EXCEPT !.at = step, !.seen = req[r].seen,
                                    !.mine = {Row(r, 0, FALSE)}]]
  BY <1>1, <1>2 DEF Request
<1>4. 0 \in Nat /\ FALSE \in BOOLEAN /\ ~(0 > 0 \/ FALSE)
  OBVIOUS
<1>5. step \in RequestSteps \ {"first", "reversed", "wide"} /\ req[r].seen \in SUBSET Grant
  BY <1>2 DEF RequestSteps, Request
<1> QED
  BY <1>2, <1>3, <1>4, <1>5, WritesWork

LEMMA BoundOtherWorks ==
    ASSUME Base, NEW r \in Requests, BoundOther(r) PROVE Works
<1>1. ~Idle(r) /\ OnlyRequest /\ req[r] \in Request /\ Bounded(req[r].seen)
  BY BaseFacts DEF BoundOther, Idle, SoundRequest
<1>2. CASE Answer(r, "refused")
  BY <1>1, <1>2, AnswerWorks DEF Answers
<1>3. CASE Goes(r, "shares")
  BY <1>1, <1>3, GoesWorks DEF RequestSteps
<1>4. ASSUME NEW g \in FirstRead,
             req' = [req EXCEPT ![r].at = "ownReversed", ![r].mine = {g}]
      PROVE  Works
  <2>1. g \in Grant
    BY BaseFacts DEF FirstRead
  <2>2. req' = [req EXCEPT ![r] = [req[r] EXCEPT !.at = "ownReversed",
                  !.seen = req[r].seen, !.gone = req[r].gone, !.mine = {g},
                  !.ended = req[r].ended]]
    BY <1>1, <1>4 DEF Request
  <2>3. /\ "ownReversed" \in RequestSteps \ {"check", "insert", "back"}
        /\ req[r].seen \in SUBSET Grant /\ req[r].gone \in SUBSET Ids
        /\ {g} \in SUBSET Grant /\ req[r].ended \in SUBSET Revocation
    BY <1>1, <2>1 DEF RequestSteps, Request
  <2> QED
    BY <1>1, <2>2, <2>3, ReadsWork
<1> QED
  BY <1>2, <1>3, <1>4 DEF BoundOther

LEMMA ShareReadSharesWorks ==
    ASSUME Base, NEW r \in Requests, ShareReadShares(r) PROVE Works
<1>1. ~Idle(r) /\ OnlyRequest /\ req[r] \in Request
  BY BaseFacts DEF ShareReadShares, Idle
<1>2. CASE req[r].tries = Attempts
  BY <1>1, <1>2, AnswerWorks DEF ShareReadShares, Answers
<1>3. CASE req[r].tries # Attempts
  <2>1. SharesRead \in SUBSET Grant /\ Bounded(SharesRead)
    BY BaseFacts, BoundedSubset DEF SharesRead
  <2>2. req[r].tries < Attempts
    BY <1>1, <1>3, RequestAssumption DEF Request
  <2>3. req' = [req EXCEPT ![r] = [req[r] EXCEPT !.at = "first", !.seen = SharesRead,
                  !.gone = req[r].gone, !.mine = req[r].mine, !.ended = req[r].ended]]
    BY <1>1, <1>3 DEF ShareReadShares, Request
  <2>4. /\ "first" \in RequestSteps \ {"check", "insert", "back"}
        /\ req[r].gone \in SUBSET Ids
        /\ req[r].mine \in SUBSET Grant /\ req[r].ended \in SUBSET Revocation
    BY <1>1 DEF RequestSteps, Request
  <2> QED
    BY <1>1, <2>1, <2>2, <2>3, <2>4, ReadsWork
<1> QED
  BY <1>2, <1>3

LEMMA ShareReadFirstWorks ==
    ASSUME Base, NEW r \in Requests, ShareReadFirst(r) PROVE Works
<1> DEFINE holders == req[r].seen \cup FirstRead
<1>1. ~Idle(r) /\ OnlyRequest /\ req[r] \in Request /\ req[r].tries < Attempts
  BY BaseFacts DEF ShareReadFirst, Idle, SoundRequest
<1>2. holders \in SUBSET Grant /\ Bounded(holders)
  <2>1. FirstRead \in SUBSET grants
    BY DEF FirstRead
  <2>2. req[r].seen \in SUBSET Grant /\ Bounded(req[r].seen)
    BY <1>1, BaseFacts DEF SoundRequest, Request
  <2>3. FirstRead \in SUBSET Grant /\ Bounded(FirstRead)
    BY <2>1, BaseFacts, BoundedSubset
  <2> QED
    BY <2>2, <2>3, BoundedUnion
<1>3. CASE holders = {}
  <2>1. req' = [req EXCEPT ![r].seen = holders, ![r].at = "check",
                           ![r].mine = {Row(r, 0, TRUE)}]
    BY <1>3 DEF ShareReadFirst
  <2> HIDE DEF holders
  <2>2. req' = [req EXCEPT ![r] = [req[r] EXCEPT !.at = "check", !.seen = holders,
                                                 !.mine = {Row(r, 0, TRUE)}]]
    BY <1>1, <2>1 DEF Request
  <2>3. 0 \in Nat /\ TRUE \in BOOLEAN
    OBVIOUS
  <2>4. "check" \in RequestSteps \ {"first", "reversed", "wide"}
    BY DEF RequestSteps
  <2> QED
    BY <1>1, <1>2, <2>2, <2>3, <2>4, WritesWork
<1>4. CASE holders # {}
  <2>1. req' = [req EXCEPT ![r].seen = holders, ![r].at = "reversed", ![r].mine = {}]
    BY <1>4 DEF ShareReadFirst
  <2> HIDE DEF holders
  <2>2. req' = [req EXCEPT ![r] = [req[r] EXCEPT !.at = "reversed", !.seen = holders,
                  !.gone = req[r].gone, !.mine = {}, !.ended = req[r].ended]]
    BY <1>1, <2>1 DEF Request
  <2>3. /\ "reversed" \in RequestSteps \ {"check", "insert", "back"}
        /\ req[r].gone \in SUBSET Ids
        /\ {} \in SUBSET Grant /\ req[r].ended \in SUBSET Revocation
    BY <1>1 DEF RequestSteps, Request
  <2> QED
    BY <1>1, <1>2, <2>2, <2>3, ReadsWork
<1> QED
  BY <1>3, <1>4

LEMMA ShareReadReversedWorks ==
    ASSUME Base, NEW r \in Requests, ShareReadReversed(r) PROVE Works
<1>1. /\ ~Idle(r) /\ OnlyRequest /\ req[r] \in Request /\ req[r].tries < Attempts
      /\ Bounded(req[r].seen)
  BY BaseFacts DEF ShareReadReversed, Idle, SoundRequest
<1> DEFINE gone == ReversedIds(IdsOf(req[r].seen))
<1>2. gone \in SUBSET Ids
  BY BaseFacts DEF ReversedIds, RevocationsOf, Revocation
<1>3. req' = [req EXCEPT ![r].at = "wide", ![r].gone = gone]
  BY DEF ShareReadReversed
<1> HIDE DEF gone
<1>4. req' = [req EXCEPT ![r] = [req[r] EXCEPT !.at = "wide", !.seen = req[r].seen,
                !.gone = gone, !.mine = req[r].mine, !.ended = req[r].ended]]
  BY <1>1, <1>3 DEF Request
<1>5. /\ "wide" \in RequestSteps \ {"check", "insert", "back"}
      /\ req[r].seen \in SUBSET Grant
      /\ req[r].mine \in SUBSET Grant /\ req[r].ended \in SUBSET Revocation
  BY <1>1 DEF RequestSteps, Request
<1> QED
  BY <1>1, <1>2, <1>4, <1>5, ReadsWork

LEMMA ShareDecideWorks ==
    ASSUME Base, NEW r \in Requests, ShareDecide(r) PROVE Works
<1>1. /\ ~Idle(r) /\ OnlyRequest /\ req[r] \in Request /\ req[r].tries < Attempts
      /\ Bounded(req[r].seen)
  BY BaseFacts DEF ShareDecide, Idle, SoundRequest
<1> DEFINE slot == NextSlot({g \in req[r].seen : g.slot > 0})
<1>2. slot \in Nat
  <2>1. {g \in req[r].seen : g.slot > 0} \in SUBSET Grant
    BY <1>1 DEF Request
  <2>2. {g \in req[r].seen : g.slot > 0} \in SUBSET req[r].seen
    OBVIOUS
  <2> QED
    BY <1>1, <2>1, <2>2, BoundedSubset, NextSlotIsNat
<1>3. \/ \E a \in Answers : Answer(r, a)
      \/ req' = [req EXCEPT ![r].at = "check", ![r].mine = {Row(r, slot, FALSE)}]
  BY DEF ShareDecide, Answers
<1> HIDE DEF slot
<1>4. ASSUME req' = [req EXCEPT ![r].at = "check", ![r].mine = {Row(r, slot, FALSE)}]
      PROVE  Works
  <2>1. req' = [req EXCEPT ![r] = [req[r] EXCEPT !.at = "check", !.seen = req[r].seen,
                                                 !.mine = {Row(r, slot, FALSE)}]]
    BY <1>1, <1>4 DEF Request
  <2>2. "check" \in RequestSteps \ {"first", "reversed", "wide"} /\ FALSE \in BOOLEAN
    BY DEF RequestSteps
  <2>3. req[r].seen \in SUBSET Grant
    BY <1>1 DEF Request
  <2> QED
    BY <1>1, <1>2, <2>1, <2>2, <2>3, WritesWork
<1> QED
  BY <1>1, <1>3, <1>4, AnswerWorks

LEMMA CheckTombstoneWorks ==
    ASSUME Base, NEW r \in Requests, CheckTombstone(r) PROVE Works
<1>1. ~Idle(r) /\ OnlyRequest /\ req[r] \in Request /\ SoundRequest(r, req[r])
  BY BaseFacts DEF CheckTombstone, Idle
<1>2. CASE Answer(r, "error")
  BY <1>1, <1>2, AnswerWorks DEF Answers
<1>3. CASE Goes(r, "insert")
  <2> DEFINE q == [req[r] EXCEPT !.at = "insert"]
  <2>1. /\ q \in Request /\ q.at = "insert" /\ q.seen = req[r].seen
        /\ q.mine = req[r].mine /\ q.tries = req[r].tries
    BY <1>1 DEF Request, RequestSteps
  <2>2. req' = [req EXCEPT ![r] = q]
    BY <1>3 DEF Goes
  <2> HIDE DEF q
  <2>3. SoundRequest(r, q)
    BY <1>1, <2>1 DEF SoundRequest, CheckTombstone
  <2> QED
    BY <1>1, <2>1, <2>2, <2>3, RequestWorks
<1> QED
  BY <1>2, <1>3 DEF CheckTombstone

(* The insert: the row goes in or the ledger stays.                        *)
LEMMA InsertWorks ==
    ASSUME Base, NEW r \in Requests, Insert(r) PROVE Works
<1>1. /\ req[r] \in Request /\ SoundRequest(r, req[r]) /\ req[r].at = "insert"
      /\ UNCHANGED <<revocations, tombstones, call, refunded, event, orphans,
                     admins, faults, resends>>
  BY BaseFacts DEF Insert
<1>2. PICK s \in Nat, a \in BOOLEAN :
        req[r].mine = {Row(r, s, a)} /\ (s > 0 \/ a => req[r].tries < Attempts)
  BY <1>1 DEF SoundRequest
<1> DEFINE g == Row(r, s, a)
           fits == GrantInserts(g)
           q == [req[r] EXCEPT !.at = "back", !.inserted = fits]
<1>3. g \in Grant /\ g.player = RequestPlayer[r]
  BY RowIsGrant
<1>4. InsertGrant(g) /\ req' = [req EXCEPT ![r].at = "back", ![r].inserted = fits]
  BY <1>2 DEF Insert
<1>5. fits \in BOOLEAN
  BY DEF GrantInserts
<1> HIDE DEF fits
<1>6. /\ q \in Request /\ q.at = "back" /\ q.seen = req[r].seen
      /\ q.mine = req[r].mine /\ q.tries = req[r].tries
  BY <1>1, <1>5 DEF Request, RequestSteps
<1>7. req' = [req EXCEPT ![r] = q]
  BY <1>4
<1> HIDE DEF q
<1>8. SoundRequest(r, q)
  BY <1>1, <1>6 DEF SoundRequest
<1>9. ~Idle(r)
  BY <1>1 DEF Idle
<1>10. RequestsOK' /\ NobodyWakes
  BY <1>6, <1>7, <1>8, <1>9, RequestTakes
<1>11. CallsOK' /\ OthersOK'
  BY <1>1 DEF Base, Control, CallsOK, OthersOK, CallTypeOK
<1>12. LedgerTurns
  <2>1. CASE GrantInserts(g)
    BY <1>1, <1>3, <1>4, <1>9, <2>1 DEF InsertGrant, LedgerTurns, TakesRow
  <2>2. CASE ~GrantInserts(g)
    BY <1>1, <1>4, <2>2 DEF InsertGrant, LedgerTurns, ledgerVars
  <2> QED
    BY <2>1, <2>2
<1> QED
  BY <1>10, <1>11, <1>12 DEF Works, Control

LEMMA InsertBackWorks ==
    ASSUME Base, NEW r \in Requests, InsertBack(r) PROVE Works
<1>1. /\ ~Idle(r) /\ OnlyRequest /\ req[r] \in Request /\ SoundRequest(r, req[r])
      /\ req[r].at = "back"
  BY BaseFacts DEF InsertBack, Idle
<1>2. PICK s \in Nat, a \in BOOLEAN :
        req[r].mine = {Row(r, s, a)} /\ (s > 0 \/ a => req[r].tries < Attempts)
  BY <1>1 DEF SoundRequest
<1>3. Row(r, s, a).slot = s /\ Row(r, s, a).across = a
  BY RowIsGrant
<1>4. ASSUME NEW b \in Answers, Answer(r, b) PROVE Works
  BY <1>1, <1>4, AnswerWorks
<1>5. ASSUME NEW step \in {"other", "keyed", "reread"}, Goes(r, step) PROVE Works
  <2>1. step \in RequestSteps \ {"first", "reversed", "wide", "check", "insert", "back"}
    BY DEF RequestSteps
  <2> QED
    BY <1>1, <1>5, <2>1, GoesWorks
<1>6. ASSUME s > 0 \/ a,
             req' = [req EXCEPT ![r].at = "shares", ![r].mine = {},
                                ![r].gone = {}, ![r].seen = {}, ![r].tries = @ + 1]
      PROVE  Works
  <2> DEFINE q == [req[r] EXCEPT !.at = "shares", !.mine = {}, !.gone = {},
                                 !.seen = {}, !.tries = req[r].tries + 1]
  <2>1. req[r].tries + 1 \in 0..Attempts
    BY <1>1, <1>2, <1>6, RequestAssumption DEF Request
  <2>2. q \in Request /\ q.at = "shares" /\ q.seen = {}
    BY <1>1, <2>1 DEF Request, RequestSteps
  <2>3. req' = [req EXCEPT ![r] = q]
    BY <1>6
  <2> HIDE DEF q
  <2>4. SoundRequest(r, q)
    BY <2>2, BoundedEmpty DEF SoundRequest
  <2> QED
    BY <1>1, <2>2, <2>3, <2>4, RequestWorks
<1> QED
  BY <1>2, <1>3, <1>4, <1>5, <1>6 DEF InsertBack, Answers

LEMMA RereadWorks ==
    ASSUME Base, NEW r \in Requests, Reread(r) PROVE Works
<1>1. /\ ~Idle(r) /\ OnlyRequest /\ req[r] \in Request /\ Bounded(req[r].seen)
      /\ Own(r) \in SUBSET Grant
  BY BaseFacts DEF Reread, Idle, SoundRequest, Own, ByKey
<1>2. req' = [req EXCEPT ![r].at = "ended", ![r].mine = Own(r)]
  BY DEF Reread
<1>3. req' = [req EXCEPT ![r] = [req[r] EXCEPT !.at = "ended", !.seen = req[r].seen,
                !.gone = req[r].gone, !.mine = Own(r), !.ended = req[r].ended]]
  BY <1>1, <1>2 DEF Request
<1>4. /\ "ended" \in RequestSteps \ {"check", "insert", "back"}
      /\ req[r].seen \in SUBSET Grant /\ req[r].gone \in SUBSET Ids
      /\ req[r].ended \in SUBSET Revocation
  BY <1>1 DEF RequestSteps, Request
<1> QED
  BY <1>1, <1>3, <1>4, ReadsWork

LEMMA ReadEndedWorks ==
    ASSUME Base, NEW r \in Requests, ReadEnded(r) PROVE Works
<1> DEFINE ended == FirstEnding(req[r].seen \cup req[r].mine)
<1>1. /\ ~Idle(r) /\ OnlyRequest /\ req[r] \in Request /\ Bounded(req[r].seen)
      /\ ended \in SUBSET Revocation
  BY BaseFacts DEF ReadEnded, Idle, SoundRequest, FirstEnding, WideOn, RevocationsOf
<1>2. req' = [req EXCEPT ![r].at = "prior", ![r].ended = ended]
  BY DEF ReadEnded
<1> HIDE DEF ended
<1>3. req' = [req EXCEPT ![r] = [req[r] EXCEPT !.at = "prior", !.seen = req[r].seen,
                !.gone = req[r].gone, !.mine = req[r].mine, !.ended = ended]]
  BY <1>1, <1>2 DEF Request
<1>4. /\ "prior" \in RequestSteps \ {"check", "insert", "back"}
      /\ req[r].seen \in SUBSET Grant /\ req[r].gone \in SUBSET Ids
      /\ req[r].mine \in SUBSET Grant
  BY <1>1 DEF RequestSteps, Request
<1> QED
  BY <1>1, <1>3, <1>4, ReadsWork

-----------------------------------------------------------------------------
(* Steps of a request and its revocation call, of events and of calls.     *)

LEMMA CallTakes ==
    ASSUME Base, NEW c \in Callers, NEW k \in Call, SoundCall(k),
           call' = [call EXCEPT ![c] = k]
    PROVE  CallsOK'
<1>1. call \in [Callers -> Call] /\ \A x \in Callers : SoundCall(call[x])
  BY DEF Base, Control, CallsOK, CallTypeOK
<1>2. \A x \in Callers : call'[x] = IF x = c THEN k ELSE call[x]
  BY <1>1
<1>3. \A x \in Callers : SoundCall(call'[x])
  BY <1>1, <1>2
<1> QED
  BY <1>1, <1>3 DEF CallsOK, CallTypeOK

LEMMA BlankCallIsSound ==
    ASSUME NEW step \in {"idle", "end"}, NEW result \in Results
    PROVE  BlankCall(step, {}, result) \in Call /\ SoundCall(BlankCall(step, {}, result))
<1>1. BlankCall(step, {}, result) \in Call /\ BlankCall(step, {}, result).at = step
  BY BlankCallIsTyped
<1>2. BlankCall(step, {}, result).entry = {}
  BY DEF BlankCall
<1> QED
  BY <1>1, <1>2 DEF SoundCall

LEMMA IdleCallIsSound == IdleCall \in Call /\ SoundCall(IdleCall)
BY BlankCallIsSound DEF IdleCall, Results

(* A call asked to file an entry on the player the entry's id names.       *)
LEMMA CalledIsSound ==
    ASSUME NEW v \in Revocation, v.player = v.of[1]
    PROVE  CalledWith(v) \in Call /\ SoundCall(CalledWith(v))
<1>1. CalledWith(v) \in Call /\ CalledWith(v).at = "get"
  BY BlankCallIsTyped DEF CalledWith, Results
<1>2. CalledWith(v).entry = {v}
  BY DEF CalledWith, BlankCall
<1> QED
  BY <1>1, <1>2 DEF SoundCall

(* Entries are filed on the owner of the grant they name.                  *)
LEMMA EntryNamesOwner ==
    ASSUME NEW g \in Grant, NEW v, v.of = IdOf(g), v.player = g.player
    PROVE  v.player = v.of[1]
BY DEF IdOf

LEMMA HolderEntryNamesOwner ==
    ASSUME NEW v \in Revocation, NEW g \in Grant
    PROVE  /\ HolderEntry(v, g) \in Revocation /\ HolderEntry(v, g).of = IdOf(g)
           /\ HolderEntry(v, g).player = HolderEntry(v, g).of[1]
<1>1. HolderEntry(v, g) \in Revocation /\ HolderEntry(v, g).of = IdOf(g)
  BY HolderEntryIsTyped
<1>2. HolderEntry(v, g).player = g.player
  BY DEF HolderEntry, Revocation
<1> QED
  BY <1>1, <1>2, EntryNamesOwner

LEMMA DecidePriorWorks ==
    ASSUME Base, NEW r \in Requests, DecidePrior(r) PROVE Works
<1>1. /\ ~Idle(r) /\ req[r] \in Request /\ SoundRequest(r, req[r])
      /\ UNCHANGED <<ledgerVars, refunded, event, orphans, admins, faults, resends>>
  BY BaseFacts DEF DecidePrior, Idle
<1>2. ASSUME NEW a \in {"verified", "rejected"}, Answer(r, a), UNCHANGED call
      PROVE  Works
  <2>1. OnlyRequest
    BY <1>1, <1>2 DEF OnlyRequest
  <2> QED
    BY <1>1, <1>2, <2>1, AnswerWorks DEF Answers
<1>3. ASSUME NEW g \in req[r].mine, Goes(r, "closing"),
             call' = [call EXCEPT ![r] = CalledWith(Closing(r, g))]
      PROVE  Works
  <2>1. g \in Grant /\ IdOf(g) \in Ids /\ g.player \in Owners
    BY <1>1, IdOfGrant DEF Request, Grant
  <2>2. Closing(r, g) \in Revocation /\ Closing(r, g).player = Closing(r, g).of[1]
    <3>1. CASE req[r].ended = {}
      <4>1. Closing(r, g) = [of |-> IdOf(g), player |-> g.player, key |-> ClosedKey,
                             by |-> ClosedKey, reason |-> "admin", ev |-> {}]
        BY <3>1 DEF Closing
      <4>2. Closing(r, g) \in Revocation
        BY <2>1, <4>1 DEF Revocation, RevocationKeys, Reasons
      <4> QED
        BY <2>1, <4>1, <4>2, EntryNamesOwner
    <3>2. CASE req[r].ended # {}
      <4>1. (CHOOSE v \in req[r].ended : TRUE) \in Revocation
        BY <1>1, <3>2 DEF Request
      <4> QED
        BY <2>1, <3>2, <4>1, HolderEntryNamesOwner DEF Closing
    <3> QED
      BY <3>1, <3>2
  <2>3. CallsOK'
    BY <1>3, <2>2, CalledIsSound, CallTakes, RequestAssumption
  <2> DEFINE q == [req[r] EXCEPT !.at = "closing"]
  <2>4. q \in Request /\ q.at = "closing" /\ q.seen = req[r].seen
    BY <1>1 DEF Request, RequestSteps
  <2>5. req' = [req EXCEPT ![r] = q]
    BY <1>3 DEF Goes
  <2> HIDE DEF q
  <2>6. SoundRequest(r, q)
    BY <1>1, <2>4 DEF SoundRequest
  <2>7. RequestsOK' /\ NobodyWakes
    BY <1>1, <2>4, <2>5, <2>6, RequestTakes
  <2>8. OthersOK' /\ LedgerTurns
    BY <1>1 DEF Base, Control, OthersOK, LedgerTurns
  <2> QED
    BY <2>3, <2>7, <2>8 DEF Works, Control
<1> QED
  BY <1>2, <1>3 DEF DecidePrior

(* An answer of a request whose call has ended or was lost.                *)
LEMMA AnswerEndsCall ==
    ASSUME Base, NEW r \in Requests, ~Idle(r), NEW a \in {"error", "rejected"},
           Answer(r, a), call' = [call EXCEPT ![r] = IdleCall]
    PROVE  RequestsOK' /\ CallsOK' /\ NobodyWakes
<1>1. a \in Answers
  BY DEF Answers
<1>2. RequestsOK' /\ NobodyWakes
  BY <1>1, BlankIsSound, RequestTakes DEF Answer
<1>3. CallsOK'
  BY IdleCallIsSound, CallTakes, RequestAssumption
<1> QED
  BY <1>2, <1>3

LEMMA ClosedWorks ==
    ASSUME Base, NEW r \in Requests, Closed(r) PROVE Works
<1>1. /\ ~Idle(r) /\ req[r] \in Request
      /\ call' = [call EXCEPT ![r] = IdleCall]
      /\ UNCHANGED <<ledgerVars, refunded, event, admins, faults, resends>>
  BY BaseFacts DEF Closed, Idle
<1>2. PICK a \in {"error", "rejected"} : Answer(r, a)
  BY DEF Closed
<1>3. {g.slot : g \in req[r].mine} \subseteq Nat
  BY <1>1 DEF Request, Grant
<1>4. OthersOK'
  BY <1>1, <1>3 DEF Closed, Base, Control, OthersOK
<1> QED
  BY <1>1, <1>2, <1>4, AnswerEndsCall DEF Works, Control, LedgerTurns

LEMMA LoseRequestWorks ==
    ASSUME Base, NEW r \in Requests, LoseRequest(r) PROVE Works
<1>1. /\ ~Idle(r) /\ req[r] \in Request /\ Answer(r, "error")
      /\ call' = [call EXCEPT ![r] = IdleCall]
      /\ UNCHANGED <<ledgerVars, refunded, event, admins, resends>>
      /\ faults < MaxFaults /\ faults' = faults + 1
  BY BaseFacts DEF LoseRequest, Idle
<1>2. {g.slot : g \in req[r].mine} \subseteq Nat
  BY <1>1 DEF Request, Grant
<1>3. (orphans \subseteq Nat)'
  BY <1>2 DEF LoseRequest, Base, Control, OthersOK
<1>4. (faults \in 0..MaxFaults)'
  BY <1>1, RequestAssumption DEF Base, Control, OthersOK
<1>5. OthersOK'
  BY <1>1, <1>3, <1>4 DEF Base, Control, OthersOK
<1> QED
  BY <1>1, <1>5, AnswerEndsCall DEF Works, Control, LedgerTurns

LEMMA ResendWorks ==
    ASSUME Base, NEW r \in Requests, Resend(r), Authenticated(r) PROVE Works
<1>1. /\ req' = [req EXCEPT ![r] = Blank("lookup", "none")]
      /\ resends < MaxResends /\ resends' = resends + 1
      /\ UNCHANGED <<ledgerVars, call, refunded, event, orphans, admins, faults>>
  BY DEF Resend
<1>2. "none" \in Answers
  BY DEF Answers
<1>3. RequestsOK' /\ NobodyWakes
  BY <1>1, <1>2, BlankIsSound, RequestTakes
<1>4. (resends \in 0..MaxResends)'
  BY <1>1, RequestAssumption DEF Base, Control, OthersOK
<1>5. OthersOK' /\ CallsOK'
  BY <1>1, <1>4 DEF Base, Control, OthersOK, CallsOK, CallTypeOK
<1> QED
  BY <1>1, <1>3, <1>5 DEF Works, Control, LedgerTurns

(* Requests that a step leaves alone.                                      *)
LEMMA RequestsRest ==
    ASSUME Base, UNCHANGED req PROVE RequestsOK' /\ NobodyWakes
BY DEF Base, Control, RequestsOK, NobodyWakes, Idle

(* A step of a delivery.                                                   *)
LEMMA EventWorks ==
    ASSUME Base, NEW e \in Events, NEW s \in EventState,
           event' = [event EXCEPT ![e] = s],
           UNCHANGED call \/ \E k \in Call : SoundCall(k) /\ call' = [call EXCEPT ![e] = k],
           (refunded \in BOOLEAN)', (faults \in 0..MaxFaults)',
           (resends \in 0..MaxResends)',
           UNCHANGED <<ledgerVars, req, orphans, admins>>
    PROVE  Works
<1>1. CASE UNCHANGED call
  BY <1>1, RequestsRest DEF Base, Control, CallsOK, CallTypeOK, OthersOK, Works, LedgerTurns
<1>2. ASSUME NEW k \in Call, SoundCall(k), call' = [call EXCEPT ![e] = k] PROVE Works
  <2>1. CallsOK'
    BY <1>2, CallTakes, RequestAssumption
  <2> QED
    BY <2>1, RequestsRest DEF Base, Control, OthersOK, Works, LedgerTurns
<1> QED
  BY <1>1, <1>2

LEMMA EventGoesOn ==
    ASSUME Base, NEW e \in Events, NEW step \in EventSteps, EventGoes(e, step)
    PROVE  \E s \in EventState : event' = [event EXCEPT ![e] = s]
<1>1. [event[e] EXCEPT !.at = step] \in EventState
  BY DEF Base, Control, OthersOK, EventState
<1> QED
  BY <1>1 DEF EventGoes

LEMMA OthersFacts ==
    ASSUME Base
    PROVE  /\ refunded \in BOOLEAN /\ faults \in 0..MaxFaults
           /\ resends \in 0..MaxResends /\ admins \in 0..MaxAdmins
BY DEF Base, Control, OthersOK

LEMMA EventCallsWorks ==
    ASSUME Base, NEW e \in Events, NEW g \in grants, EventCalls(e, g),
           UNCHANGED <<ledgerVars, refunded, req, orphans, admins, faults, resends>>
    PROVE  Works
<1>1. g \in Grant /\ IdOf(g) \in Ids /\ g.player \in Owners
  BY IdOfGrant DEF Base, LedgerOK, LedgerTypeOK, Grant
<1>2. <<>> \in Seq(Nat)
  OBVIOUS
<1>3. EventEntry(e, g) \in Revocation
  BY <1>1, <1>2 DEF EventEntry, Revocation, RevocationKeys, Reasons, Events
<1>4. EventEntry(e, g).of = IdOf(g) /\ EventEntry(e, g).player = g.player
  BY DEF EventEntry
<1>5. CalledWith(EventEntry(e, g)) \in Call /\ SoundCall(CalledWith(EventEntry(e, g)))
  BY <1>1, <1>3, <1>4, EntryNamesOwner, CalledIsSound
<1>6. PICK s \in EventState : event' = [event EXCEPT ![e] = s]
  BY EventGoesOn DEF EventCalls, EventSteps
<1> QED
  BY <1>5, <1>6, EventWorks, OthersFacts DEF EventCalls

LEMMA EventsWork ==
    ASSUME Base, NEW e \in Events,
           StoreRefunds(e) \/ EventStep(e) \/ Redeliver(e) \/ LoseDelivery(e)
    PROVE  Works
<1>1. CASE StoreRefunds(e)
  <2>1. /\ EventGoes(e, "sent") /\ refunded' = TRUE
        /\ UNCHANGED <<ledgerVars, call, req, orphans, admins, faults, resends>>
    BY <1>1 DEF StoreRefunds
  <2>2. PICK s \in EventState : event' = [event EXCEPT ![e] = s]
    BY <2>1, EventGoesOn DEF EventSteps
  <2> QED
    BY <2>1, <2>2, EventWorks, OthersFacts
<1>2. CASE EventFindFirst(e)
  <2>1. UNCHANGED <<ledgerVars, refunded, req, orphans, admins, faults, resends>>
    BY <1>2 DEF EventFindFirst
  <2>2. ASSUME NEW step \in {"findShare", "findLast"}, EventGoes(e, step), UNCHANGED call
        PROVE  Works
    <3>1. PICK s \in EventState : event' = [event EXCEPT ![e] = s]
      BY <2>2, EventGoesOn DEF EventSteps
    <3> QED
      BY <2>1, <2>2, <3>1, EventWorks, OthersFacts
  <2>3. ASSUME NEW g \in FirstRead, EventCalls(e, g) PROVE Works
    BY <2>1, <2>3, EventCallsWorks DEF FirstRead
  <2> QED
    BY <1>2, <2>2, <2>3 DEF EventFindFirst
<1>3. CASE EventFindShare(e)
  <2>1. UNCHANGED <<ledgerVars, refunded, req, orphans, admins, faults, resends>>
    BY <1>3 DEF EventFindShare
  <2>2. ASSUME NEW g \in Foremost(SharesRead), EventCalls(e, g) PROVE Works
    BY <2>1, <2>2, EventCallsWorks DEF Foremost, SharesRead
  <2>3. ASSUME NEW s \in {[at |-> "settled", outcome |-> "ignored"],
                          [at |-> "sent", outcome |-> "none"]},
               event' = [event EXCEPT ![e] = s], UNCHANGED call
        PROVE  Works
    <3>1. s \in EventState
      BY DEF EventState, EventSteps, Outcomes
    <3> QED
      BY <2>1, <2>3, <3>1, EventWorks, OthersFacts
  <2> QED
    BY <1>3, <2>2, <2>3 DEF EventFindShare
<1>4. CASE EventSettles(e)
  <2> DEFINE settled == [at |-> "settled", outcome |-> OutcomeOf(call[e].result)]
             again == [at |-> "sent", outcome |-> "none"]
  <2>1. /\ call' = [call EXCEPT ![e] = IdleCall]
        /\ UNCHANGED <<ledgerVars, refunded, req, orphans, admins, faults, resends>>
    BY <1>4 DEF EventSettles
  <2>2. OutcomeOf(call[e].result) \in Outcomes
    BY DEF OutcomeOf, Outcomes
  <2>3. settled \in EventState /\ again \in EventState
    BY <2>2 DEF EventState, EventSteps, Outcomes
  <2>4. \/ event' = [event EXCEPT ![e] = settled]
        \/ event' = [event EXCEPT ![e] = again]
    BY <1>4 DEF EventSettles
  <2> HIDE DEF settled, again
  <2>5. PICK s \in EventState : event' = [event EXCEPT ![e] = s]
    BY <2>3, <2>4
  <2> QED
    BY <2>1, <2>5, IdleCallIsSound, EventWorks, OthersFacts
<1>5. CASE Redeliver(e)
  <2>1. /\ event' = [event EXCEPT ![e] = [at |-> "sent", outcome |-> "none"]]
        /\ resends < MaxResends /\ resends' = resends + 1
        /\ UNCHANGED <<ledgerVars, call, refunded, req, orphans, admins, faults>>
    BY <1>5 DEF Redeliver
  <2>2. [at |-> "sent", outcome |-> "none"] \in EventState
    BY DEF EventState, EventSteps, Outcomes
  <2>3. (resends \in 0..MaxResends)'
    BY <2>1, OthersFacts, RequestAssumption
  <2> QED
    BY <2>1, <2>2, <2>3, EventWorks, OthersFacts
<1>6. CASE LoseDelivery(e)
  <2>1. /\ EventGoes(e, "sent") /\ call' = [call EXCEPT ![e] = IdleCall]
        /\ faults < MaxFaults /\ faults' = faults + 1
        /\ UNCHANGED <<ledgerVars, refunded, req, orphans, admins, resends>>
    BY <1>6 DEF LoseDelivery
  <2>2. PICK s \in EventState : event' = [event EXCEPT ![e] = s]
    BY <2>1, EventGoesOn DEF EventSteps
  <2>3. (faults \in 0..MaxFaults)'
    BY <2>1, OthersFacts, RequestAssumption
  <2> QED
    BY <2>1, <2>2, <2>3, IdleCallIsSound, EventWorks, OthersFacts
<1> QED
  BY <1>1, <1>2, <1>3, <1>4, <1>5, <1>6 DEF EventStep

-----------------------------------------------------------------------------
(* revokeEntitlementGrant and the support tool.                            *)

LEMMA CallFactsKept ==
    ASSUME Base, NEW c \in Callers
    PROVE  /\ call[c] \in Call /\ SoundCall(call[c])
           /\ grants \subseteq Grant
BY DEF Base, Control, CallsOK, CallTypeOK, LedgerOK, LedgerTypeOK

(* A step of a call that reads the ledger, or appends an entry to it.      *)
LEMMA CallWorks ==
    ASSUME Base, NEW c \in Callers, NEW k \in Call, SoundCall(k),
           call' = [call EXCEPT ![c] = k], LedgerTurns, UNCHANGED requestVars
    PROVE  Works
<1>1. CallsOK'
  BY CallTakes
<1>2. RequestsOK' /\ NobodyWakes
  BY RequestsRest DEF requestVars
<1>3. OthersOK'
  BY DEF Base, Control, OthersOK, requestVars
<1> QED
  BY <1>1, <1>2, <1>3 DEF Works, Control

LEMMA CallEndWorks ==
    ASSUME Base, NEW c \in Callers, NEW result \in Results, CallEnds(c, result),
           UNCHANGED <<ledgerVars, requestVars>>
    PROVE  Works
<1>1. BlankCall("end", {}, result) \in Call /\ SoundCall(BlankCall("end", {}, result))
  BY BlankCallIsSound
<1> QED
  BY <1>1, CallWorks DEF CallEnds, LedgerTurns

LEMMA CallGoesWorks ==
    ASSUME Base, NEW c \in Callers, NEW step \in CallSteps,
           step \in {"first", "reversed", "record", "holderBack"}
             => call[c].pass < FanOutPasses,
           CallGoes(c, step), LedgerTurns, UNCHANGED requestVars
    PROVE  Works
<1> DEFINE k == [call[c] EXCEPT !.at = step]
<1>1. /\ k \in Call /\ k.at = step /\ k.pass = call[c].pass
      /\ k.entry = call[c].entry
  BY CallFactsKept DEF Call
<1>2. call' = [call EXCEPT ![c] = k]
  BY DEF CallGoes
<1> HIDE DEF k
<1>3. SoundCall(k)
  BY <1>1, CallFactsKept DEF SoundCall
<1> QED
  BY <1>1, <1>2, <1>3, CallWorks

LEMMA CallGetWorks ==
    ASSUME Base, NEW c \in Callers, CallGet(c), UNCHANGED requestVars PROVE Works
<1>1. UNCHANGED <<ledgerVars, requestVars>> /\ LedgerTurns
  BY DEF CallGet, LedgerTurns
<1>2. ASSUME NEW result \in {"grant_not_found", "grant_mismatch"}, CallEnds(c, result)
      PROVE  Works
  BY <1>1, <1>2, CallEndWorks DEF Results
<1>3. CASE CallGoes(c, "insert")
  BY <1>1, <1>3, CallGoesWorks DEF CallSteps
<1> QED
  BY <1>2, <1>3 DEF CallGet

(* An entry the foreign key accepts is taken, or skipped.                  *)
LEMMA AcceptedTurns ==
    ASSUME NEW v \in Revocation, v.player = v.of[1], ~Refused(v), InsertRevocation(v),
           UNCHANGED <<grants, tombstones>>
    PROVE  LedgerTurns
BY DEF Refused, InsertRevocation, LedgerTurns, TakesEntry, ledgerVars

LEMMA CallInsertWorks ==
    ASSUME Base, NEW c \in Callers, CallInsert(c), UNCHANGED requestVars PROVE Works
<1>1. PICK v \in call[c].entry :
        IF Refused(v)
        THEN CallEnds(c, "throw") /\ UNCHANGED revocations
        ELSE InsertRevocation(v) /\ CallGoes(c, "back")
  BY DEF CallInsert
<1>2. UNCHANGED <<grants, tombstones, requestVars>>
  BY DEF CallInsert
<1>3. v \in Revocation /\ v.player = v.of[1]
  BY CallFactsKept DEF Call, SoundCall
<1>4. CASE Refused(v)
  BY <1>1, <1>2, <1>4, CallEndWorks DEF Results, ledgerVars
<1>5. CASE ~Refused(v)
  <2>1. LedgerTurns
    BY <1>1, <1>2, <1>3, <1>5, AcceptedTurns
  <2> QED
    BY <1>1, <1>2, <1>5, <2>1, CallGoesWorks DEF CallSteps
<1> QED
  BY <1>4, <1>5

LEMMA CallReadBackWorks ==
    ASSUME Base, NEW c \in Callers, CallReadBack(c), UNCHANGED requestVars PROVE Works
<1>1. UNCHANGED <<ledgerVars, requestVars>> /\ LedgerTurns
  BY DEF CallReadBack, LedgerTurns
<1>2. ASSUME NEW result \in {"key_conflict", "evidence_already_processed", "revoked"},
             CallEnds(c, result)
      PROVE  Works
  BY <1>1, <1>2, CallEndWorks DEF Results
<1>3. CASE CallGoes(c, "shares")
  BY <1>1, <1>3, CallGoesWorks DEF CallSteps
<1> QED
  BY <1>2, <1>3 DEF CallReadBack

LEMMA CallReadSharesWorks ==
    ASSUME Base, NEW c \in Callers, CallReadShares(c), UNCHANGED requestVars PROVE Works
<1>1. UNCHANGED <<ledgerVars, requestVars>> /\ LedgerTurns
  BY DEF CallReadShares, LedgerTurns
<1>2. CASE call[c].pass = FanOutPasses
  BY <1>1, <1>2, CallEndWorks DEF CallReadShares, Results
<1>3. CASE call[c].pass # FanOutPasses
  <2> DEFINE k == [call[c] EXCEPT !.at = "first", !.seen = SharesRead]
  <2>1. call[c] \in Call /\ SoundCall(call[c]) /\ SharesRead \subseteq Grant
    BY CallFactsKept DEF SharesRead
  <2>2. k \in Call /\ k.at = "first" /\ k.pass = call[c].pass /\ k.entry = call[c].entry
    BY <2>1 DEF Call, CallSteps
  <2>3. call[c].pass < FanOutPasses
    BY <1>3, <2>1, FanOutPassesPositive DEF Call
  <2>4. call' = [call EXCEPT ![c] = k]
    BY <1>3 DEF CallReadShares
  <2> HIDE DEF k
  <2>5. SoundCall(k)
    BY <2>1, <2>2, <2>3 DEF SoundCall
  <2> QED
    BY <1>1, <2>2, <2>4, <2>5, CallWorks
<1> QED
  BY <1>2, <1>3

LEMMA CallReadFirstWorks ==
    ASSUME Base, NEW c \in Callers, CallReadFirst(c), UNCHANGED requestVars PROVE Works
<1> DEFINE k == [call[c] EXCEPT !.at = "reversed", !.seen = call[c].seen \cup FirstRead]
<1>1. /\ call[c] \in Call /\ SoundCall(call[c]) /\ FirstRead \subseteq Grant
      /\ call[c].pass < FanOutPasses
  BY CallFactsKept DEF CallReadFirst, FirstRead, SoundCall
<1>2. k \in Call /\ k.at = "reversed" /\ k.pass = call[c].pass /\ k.entry = call[c].entry
  BY <1>1 DEF Call, CallSteps
<1>3. call' = [call EXCEPT ![c] = k] /\ UNCHANGED requestVars /\ LedgerTurns
  BY DEF CallReadFirst, LedgerTurns
<1> HIDE DEF k
<1>4. SoundCall(k)
  BY <1>1, <1>2 DEF SoundCall
<1> QED
  BY <1>2, <1>3, <1>4, CallWorks

LEMMA CallReadReversedWorks ==
    ASSUME Base, NEW c \in Callers, CallReadReversed(c), UNCHANGED requestVars PROVE Works
<1>1. UNCHANGED <<ledgerVars, requestVars>> /\ LedgerTurns
  BY DEF CallReadReversed, LedgerTurns
<1>2. CASE CallEnds(c, "revoked")
  BY <1>1, <1>2, CallEndWorks DEF Results
<1>3. ASSUME NEW active \in SUBSET call[c].seen,
             call' = [call EXCEPT ![c].at = "record", ![c].todo = active]
      PROVE  Works
  <2> DEFINE k == [call[c] EXCEPT !.at = "record", !.todo = active]
  <2>1. call[c] \in Call /\ SoundCall(call[c]) /\ call[c].pass < FanOutPasses
    BY CallFactsKept DEF CallReadReversed, SoundCall
  <2>2. k \in Call /\ k.at = "record" /\ k.pass = call[c].pass /\ k.entry = call[c].entry
    BY <2>1 DEF Call, CallSteps
  <2>3. call' = [call EXCEPT ![c] = k]
    BY <1>3
  <2> HIDE DEF k
  <2>4. SoundCall(k)
    BY <2>1, <2>2 DEF SoundCall
  <2> QED
    BY <1>1, <2>2, <2>3, <2>4, CallWorks
<1>4. PICK v \in call[c].entry, active \in SUBSET call[c].seen :
        \/ CallEnds(c, "revoked")
        \/ call' = [call EXCEPT ![c].at = "record", ![c].todo = active]
  BY DEF CallReadReversed
<1> QED
  BY <1>2, <1>3, <1>4

LEMMA CallRecordHolderWorks ==
    ASSUME Base, NEW c \in Callers, CallRecordHolder(c), UNCHANGED requestVars PROVE Works
<1>1. PICK v \in call[c].entry, holder \in Foremost(call[c].todo) :
        IF Refused(HolderEntry(v, holder))
        THEN CallEnds(c, "throw") /\ UNCHANGED revocations
        ELSE InsertRevocation(HolderEntry(v, holder)) /\ CallGoes(c, "holderBack")
  BY DEF CallRecordHolder
<1>2. /\ UNCHANGED <<grants, tombstones, requestVars>>
      /\ call[c] \in Call /\ call[c].pass < FanOutPasses
  BY CallFactsKept DEF CallRecordHolder, SoundCall
<1>3. v \in Revocation /\ holder \in Grant
  BY <1>2 DEF Call, Foremost
<1>4. CASE Refused(HolderEntry(v, holder))
  BY <1>1, <1>2, <1>4, CallEndWorks DEF Results, ledgerVars
<1>5. CASE ~Refused(HolderEntry(v, holder))
  <2>1. LedgerTurns
    BY <1>1, <1>2, <1>3, <1>5, HolderEntryNamesOwner, AcceptedTurns
  <2> QED
    BY <1>1, <1>2, <1>5, <2>1, CallGoesWorks DEF CallSteps
<1> QED
  BY <1>4, <1>5

LEMMA CallHolderReadBackWorks ==
    ASSUME Base, NEW c \in Callers, CallHolderReadBack(c), UNCHANGED requestVars
    PROVE  Works
<1>1. UNCHANGED <<ledgerVars, requestVars>> /\ LedgerTurns
  BY DEF CallHolderReadBack, LedgerTurns
<1>2. /\ call[c] \in Call /\ SoundCall(call[c])
      /\ call[c].pass < FanOutPasses /\ call[c].pass + 1 \in 0..FanOutPasses
  <2>1. call[c] \in Call /\ SoundCall(call[c]) /\ call[c].pass < FanOutPasses
    BY CallFactsKept DEF CallHolderReadBack, SoundCall
  <2>2. call[c].pass \in Nat
    BY <2>1 DEF Call
  <2> QED
    BY <2>1, <2>2, FanOutPassesPositive
<1>3. CASE CallEnds(c, "throw")
  BY <1>1, <1>3, CallEndWorks DEF Results
<1>4. ASSUME NEW left \in SUBSET call[c].todo,
             call' = [call EXCEPT
                    ![c].todo = left,
                    ![c].at = IF left = {} THEN "shares" ELSE "record",
                    ![c].pass = IF left = {} THEN @ + 1 ELSE @]
      PROVE  Works
  <2> DEFINE step == IF left = {} THEN "shares" ELSE "record"
             pass == IF left = {} THEN call[c].pass + 1 ELSE call[c].pass
             k == [call[c] EXCEPT !.todo = left, !.at = step, !.pass = pass]
  <2>1. left \subseteq Grant /\ step \in CallSteps /\ pass \in 0..FanOutPasses
    BY <1>2 DEF Call, CallSteps
  <2>2. step \in {"first", "reversed", "record", "holderBack"} => pass < FanOutPasses
    BY <1>2
  <2>3. call' = [call EXCEPT ![c] = [call[c] EXCEPT !.todo = left, !.at = step, !.pass = pass]]
    BY <1>4
  <2> HIDE DEF step, pass
  <2>4. k \in Call /\ k.at = step /\ k.pass = pass /\ k.entry = call[c].entry
    BY <1>2, <2>1 DEF Call
  <2>5. call' = [call EXCEPT ![c] = k]
    BY <2>3
  <2> HIDE DEF k
  <2>6. SoundCall(k)
    BY <1>2, <2>2, <2>4 DEF SoundCall
  <2> QED
    BY <1>1, <2>4, <2>5, <2>6, CallWorks
<1>5. PICK v \in call[c].entry, holder \in Foremost(call[c].todo) :
        IF ReadBack(holder.player, v.key, IdOf(holder)) # "recorded"
        THEN CallEnds(c, "throw")
        ELSE call' = [call EXCEPT
                ![c].todo = call[c].todo \ {holder},
                ![c].at = IF call[c].todo \ {holder} = {} THEN "shares" ELSE "record",
                ![c].pass = IF call[c].todo \ {holder} = {} THEN @ + 1 ELSE @]
  BY DEF CallHolderReadBack
<1>6. call[c].todo \ {holder} \in SUBSET call[c].todo
  OBVIOUS
<1> QED
  BY <1>3, <1>4, <1>5, <1>6

LEMMA AdminWorks ==
    ASSUME Base, NEW g \in grants, AdminRevokes(g) PROVE Works
<1> DEFINE v == [of |-> IdOf(g), player |-> g.player, key |-> AdminKey,
                 by |-> AdminKey, reason |-> "admin", ev |-> {}]
<1>1. g \in Grant /\ IdOf(g) \in Ids /\ g.player \in Owners
  BY IdOfGrant DEF Base, LedgerOK, LedgerTypeOK, Grant
<1>2. v \in Revocation /\ v.of = IdOf(g) /\ v.player = v.of[1]
  <2>1. v \in Revocation
    BY <1>1 DEF Revocation, RevocationKeys, Reasons
  <2> QED
    BY <1>1, <2>1, EntryNamesOwner
<1>3. /\ InsertRevocation(v) /\ admins < MaxAdmins /\ admins' = admins + 1
      /\ UNCHANGED <<grants, tombstones, call, refunded, req, event, orphans,
                     faults, resends>>
  BY DEF AdminRevokes
<1>4. ById(IdOf(g)) # {}
  BY DEF ById
<1> HIDE DEF v
<1>5. LedgerTurns
  BY <1>2, <1>3, <1>4 DEF LedgerTurns, TakesEntry
<1>6. (admins \in 0..MaxAdmins)'
  BY <1>3, OthersFacts, RequestAssumption
<1>7. CallsOK' /\ OthersOK'
  BY <1>3, <1>6 DEF Base, Control, CallsOK, CallTypeOK, OthersOK
<1> QED
  BY <1>3, <1>5, <1>7, RequestsRest DEF Works, Control

(* Whatever requests, events, calls and the support tool do: their locals  *)
(* stay sound, the ledger takes one row or one entry or neither, and no     *)
(* request of a deleted player begins again.                               *)
LEMMA LedgerWorks == Base /\ LedgerWork => Works
<1> SUFFICES ASSUME Base, LedgerWork PROVE Works
  OBVIOUS
<1>1. ASSUME NEW r \in Requests, Authenticate(r) PROVE Works
  BY <1>1, PathsWork, ResendWorks DEF Authenticate
<1>2. ASSUME NEW r \in Requests, RequestStep(r) PROVE Works
  BY <1>2, PathsWork, BoundReadSharesWorks, BoundEvidenceWorks, BoundOtherWorks,
     ShareReadSharesWorks, ShareReadFirstWorks, ShareReadReversedWorks,
     ShareDecideWorks, CheckTombstoneWorks, InsertWorks, InsertBackWorks,
     RereadWorks, ReadEndedWorks, DecidePriorWorks, ClosedWorks DEF RequestStep
<1>3. ASSUME NEW r \in Requests, LoseRequest(r) PROVE Works
  BY <1>3, LoseRequestWorks
<1>4. ASSUME NEW e \in Events,
             StoreRefunds(e) \/ EventStep(e) \/ Redeliver(e) \/ LoseDelivery(e)
      PROVE  Works
  BY <1>4, EventsWork
<1>5. ASSUME NEW c \in Callers, RevocationStep(c) PROVE Works
  BY <1>5, CallGetWorks, CallInsertWorks, CallReadBackWorks, CallReadSharesWorks,
     CallReadFirstWorks, CallReadReversedWorks, CallRecordHolderWorks,
     CallHolderReadBackWorks DEF RevocationStep, CallStep
<1>6. ASSUME NEW g \in grants, AdminRevokes(g) PROVE Works
  BY <1>6, AdminWorks
<1> QED
  BY <1>1, <1>2, <1>3, <1>4, <1>5, <1>6 DEF LedgerWork

-----------------------------------------------------------------------------
(* The ledger and the erasures while the handlers work.                    *)

LEMMA LedgerFacts ==
    ASSUME Base
    PROVE  /\ grants \subseteq Grant /\ revocations \subseteq Revocation
           /\ tombstones \subseteq Players /\ LedgerIntegrity
           /\ Bounded(grants) /\ KeptBySlot /\ EntriesName
BY DEF Base, LedgerOK, LedgerTypeOK

LEMMA RowKeepsLedger ==
    ASSUME Base, TakesRow
    PROVE  LedgerOK'
<1>1. PICK r \in Requests, g \in Grant :
        /\ ~Idle(r) /\ g.player = RequestPlayer[r]
        /\ GrantInserts(g) /\ grants' = grants \cup {g}
        /\ UNCHANGED <<revocations, tombstones>>
  BY DEF TakesRow
<1>2. LedgerTypeOK'
  BY <1>1, LedgerFacts DEF LedgerTypeOK
<1>3. LedgerIntegrity'
  <2>1. \A h \in grants : IdOf(h) # IdOf(g) /\ h.slot # g.slot
    BY <1>1 DEF GrantInserts, ByKey, AtSlot, IdOf
  <2>2. \A x, y \in grants' : (IdOf(x) = IdOf(y) \/ x.slot = y.slot) => x = y
    BY <1>1, <2>1, LedgerFacts DEF LedgerIntegrity
  <2>3. \A v \in revocations' : v.of \in IdsOf(grants)'
    BY <1>1, LedgerFacts DEF LedgerIntegrity, IdsOf
  <2>4. \A v, w \in revocations' : v.of = w.of => v = w
    BY <1>1, LedgerFacts DEF LedgerIntegrity
  <2> QED
    BY <2>2, <2>3, <2>4 DEF LedgerIntegrity
<1>4. Bounded(grants)'
  BY <1>1, LedgerFacts, BoundedOne, BoundedUnion
<1>5. KeptBySlot'
  <2>1. g.player \notin Kept
    BY <1>1, RequestAssumption
  <2> QED
    BY <1>1, <2>1, LedgerFacts DEF KeptBySlot, IsKept
<1>6. EntriesName'
  BY <1>1, LedgerFacts DEF EntriesName
<1> QED
  BY <1>2, <1>3, <1>4, <1>5, <1>6 DEF LedgerOK

LEMMA EntryKeepsLedger ==
    ASSUME Base, TakesEntry
    PROVE  LedgerOK'
<1>1. PICK v \in Revocation :
        /\ v.player = v.of[1] /\ ById(v.of) # {} /\ InsertRevocation(v)
        /\ UNCHANGED <<grants, tombstones>>
  BY DEF TakesEntry
<1>2. revocations' \subseteq revocations \cup {v}
  BY <1>1 DEF InsertRevocation
<1>3. LedgerTypeOK'
  BY <1>1, <1>2, LedgerFacts DEF LedgerTypeOK
<1>4. LedgerIntegrity'
  <2>1. \A x, y \in revocations' : x.of = y.of => x = y
    BY <1>1, LedgerFacts DEF InsertRevocation, RevocationInserts, LedgerIntegrity
  <2>2. v.of \in IdsOf(grants)
    BY <1>1 DEF ById, IdsOf
  <2>3. \A x \in revocations' : x.of \in IdsOf(grants)
    BY <1>2, <2>2, LedgerFacts DEF LedgerIntegrity
  <2>4. IdsOf(grants)' = IdsOf(grants)
    BY <1>1 DEF IdsOf
  <2>5. \A x, y \in grants' : (IdOf(x) = IdOf(y) \/ x.slot = y.slot) => x = y
    BY <1>1, LedgerFacts DEF LedgerIntegrity
  <2> QED
    BY <2>1, <2>3, <2>4, <2>5 DEF LedgerIntegrity
<1>5. Bounded(grants)' /\ KeptBySlot'
  BY <1>1, LedgerFacts DEF Bounded, KeptBySlot
<1>6. EntriesName'
  BY <1>1, <1>2, LedgerFacts DEF EntriesName
<1> QED
  BY <1>3, <1>4, <1>5, <1>6 DEF LedgerOK

LEMMA RestKeepsLedger ==
    ASSUME Base, UNCHANGED <<grants, revocations>>, (tombstones \subseteq Players)'
    PROVE  LedgerOK'
<1>1. LedgerIntegrity'
  BY LedgerFacts DEF LedgerIntegrity, IdsOf
<1> QED
  BY <1>1, LedgerFacts DEF LedgerOK, LedgerTypeOK, Bounded, KeptBySlot, EntriesName

LEMMA WorksKeepsBase == Base /\ Works => Base'
<1> SUFFICES ASSUME Base, Works PROVE Base'
  OBVIOUS
<1>1. CASE UNCHANGED ledgerVars
  BY <1>1, RestKeepsLedger, LedgerFacts DEF ledgerVars, Base, Works
<1>2. CASE TakesRow
  BY <1>2, RowKeepsLedger DEF Base, Works
<1>3. CASE TakesEntry
  BY <1>3, EntryKeepsLedger DEF Base, Works
<1> QED
  BY <1>1, <1>2, <1>3 DEF Works, LedgerTurns

(* The ledger only grows, by no row of a player whose erasure is final.    *)
LEMMA LedgerGrows ==
    ASSUME Works
    PROVE  /\ grants \subseteq grants' /\ revocations \subseteq revocations'
           /\ \A g \in grants' \ grants : \E r \in Requests : ~Idle(r) /\ g.player = RequestPlayer[r]
BY DEF Works, LedgerTurns, ledgerVars, TakesRow, TakesEntry, InsertRevocation

LEMMA EraserFacts ==
    ASSUME RetainedInv, NEW p \in Players
    PROVE  erasure[p] \in Erasure /\ EraserSound(p, erasure[p])
BY DEF RetainedInv, ErasuresOK

LEMMA WorksKeepsErasures ==
    ASSUME RetainedInv, Works, UNCHANGED retainVars
    PROVE  ErasuresOK'
<1>1. erasure' = erasure
  BY DEF retainVars
<1>2. ASSUME NEW p \in Players PROVE EraserSound(p, erasure[p])'
  <2> DEFINE x == erasure[p]
  <2>1. EraserSound(p, x)
    BY EraserFacts
  <2>2. x' = x
    BY <1>1
  <2> HIDE DEF x
  <2>3. x.took \subseteq grants' /\ x.entries \subseteq revocations'
    BY <2>1, LedgerGrows DEF EraserSound
  <2>4. ASSUME x.final
        PROVE  /\ \A g \in grants' \ grants : g.player # p
               /\ \A r \in Requests : RequestPlayer[r] = p => Idle(r)'
    <3>1. x.at # "none" /\ \A r \in Requests : RequestPlayer[r] = p => Idle(r)
      BY <2>1, <2>4 DEF EraserSound
    <3>2. \A r \in Requests : RequestPlayer[r] = p => ~Authenticated(r)
      BY <3>1 DEF Authenticated, x
    <3> QED
      BY <3>1, <3>2, LedgerGrows DEF Works, NobodyWakes
  <2> QED
    BY <2>1, <2>2, <2>3, <2>4 DEF EraserSound, x
<1> QED
  BY <1>1, <1>2 DEF ErasuresOK, RetainedInv

LEMMA WorkKeeps ==
    ASSUME RetainedInv, LedgerWork, UNCHANGED retainVars
    PROVE  RetainedInv'
<1>1. Base /\ Works
  BY LedgerWorks DEF RetainedInv
<1>2. Base'
  BY <1>1, WorksKeepsBase
<1>3. ErasuresOK'
  BY <1>1, WorksKeepsErasures
<1> QED
  BY <1>2, <1>3 DEF RetainedInv, retainVars

-----------------------------------------------------------------------------
(* The eraser's reads, and the isolate it loses.                           *)

(* One eraser goes on, the handlers and the ledger's rows rest.            *)
LEMMA EraserMoves ==
    ASSUME RetainedInv, NEW p \in Players, NEW x \in Erasure, EraserSound(p, x),
           erasure' = [erasure EXCEPT ![p] = x],
           UNCHANGED <<grants, revocations, call, refunded, req, event, orphans,
                       admins, resends, expired, overtaken>>,
           (tombstones \subseteq Players)', (faults \in 0..MaxFaults)'
    PROVE  RetainedInv'
<1>1. LedgerOK'
  BY RestKeepsLedger DEF RetainedInv
<1>2. RequestsOK'
  BY DEF RetainedInv, Base, Control, RequestsOK
<1>3. CallsOK' /\ OthersOK'
  BY DEF RetainedInv, Base, Control, CallsOK, CallTypeOK, OthersOK
<1>4. erasure \in [Players -> Erasure]
  BY DEF RetainedInv, ErasuresOK
<1>5. \A q \in Players : erasure'[q] = IF q = p THEN x ELSE erasure[q]
  BY <1>4
<1>6. \A q \in Players : EraserSound(q, erasure'[q])
  BY <1>5, EraserFacts
<1>7. \A q \in Players : EraserSound(q, erasure[q])'
  BY <1>6 DEF EraserSound, Idle
<1> QED
  BY <1>1, <1>2, <1>3, <1>4, <1>7 DEF RetainedInv, Base, Control, ErasuresOK

LEMMA RetainedFacts ==
    ASSUME RetainedInv
    PROVE  /\ grants \subseteq Grant /\ revocations \subseteq Revocation
           /\ tombstones \subseteq Players /\ faults \in 0..MaxFaults
           /\ expired \subseteq Nat
BY LedgerFacts, OthersFacts DEF RetainedInv

(* A step of the eraser that leaves what it holds and which pass it is.    *)
LEMMA EraserProceeds ==
    ASSUME RetainedInv, NEW p \in Players,
           NEW step \in {"tombstone", "grants", "waiting"},
           erasure' = [erasure EXCEPT ![p].at = step],
           UNCHANGED <<grants, revocations, call, refunded, req, event, orphans,
                       admins, faults, resends, expired, overtaken>>,
           (tombstones \subseteq Players)'
    PROVE  RetainedInv'
<1> DEFINE x == [erasure[p] EXCEPT !.at = step]
<1>1. erasure[p] \in Erasure /\ EraserSound(p, erasure[p])
  BY EraserFacts
<1>2. /\ x \in Erasure /\ x.at = step /\ x.took = erasure[p].took
      /\ x.entries = erasure[p].entries /\ x.final = erasure[p].final
  BY <1>1 DEF Erasure, ErasureSteps
<1>3. erasure' = [erasure EXCEPT ![p] = x]
  OBVIOUS
<1> HIDE DEF x
<1>4. EraserSound(p, x)
  BY <1>1, <1>2 DEF EraserSound
<1> QED
  BY <1>2, <1>3, <1>4, EraserMoves, RetainedFacts

LEMMA DeleteAccountKeeps ==
    ASSUME RetainedInv, NEW p \in Players, DeleteAccount(p) PROVE RetainedInv'
BY EraserProceeds, RetainedFacts DEF DeleteAccount, Proceeds, vars, ledgerVars, requestVars

LEMMA AddTombstoneKeeps ==
    ASSUME RetainedInv, NEW p \in Players, AddTombstone(p) PROVE RetainedInv'
BY EraserProceeds, RetainedFacts DEF AddTombstone, Proceeds, requestVars

LEMMA ReadGrantsKeeps ==
    ASSUME RetainedInv, NEW p \in Players, ReadGrants(p) PROVE RetainedInv'
<1> DEFINE took == {g \in grants : g.player = p}
           x == [erasure[p] EXCEPT !.at = "revocations", !.took = took]
<1>1. erasure[p] \in Erasure /\ EraserSound(p, erasure[p]) /\ erasure[p].at = "grants"
  BY EraserFacts DEF ReadGrants
<1>2. took \subseteq grants /\ took \subseteq Grant /\ \A g \in grants : g.player = p <=> g \in took
  BY RetainedFacts
<1>3. erasure' = [erasure EXCEPT ![p] = x]
  BY DEF ReadGrants
<1> HIDE DEF took
<1>4. /\ x \in Erasure /\ x.at = "revocations" /\ x.took = took
      /\ x.entries = erasure[p].entries /\ x.final = erasure[p].final
  BY <1>1, <1>2 DEF Erasure, ErasureSteps
<1> HIDE DEF x
<1>5. EraserSound(p, x)
  BY <1>1, <1>2, <1>4 DEF EraserSound
<1> QED
  BY <1>3, <1>4, <1>5, EraserMoves, RetainedFacts
     DEF ReadGrants, vars, ledgerVars, requestVars

LEMMA ReadRevocationsKeeps ==
    ASSUME RetainedInv, NEW p \in Players, ReadRevocations(p) PROVE RetainedInv'
<1> DEFINE entries == RevocationsOf({id \in IdsOf(grants) : id[1] = p})
           x == [erasure[p] EXCEPT !.at = "batch", !.entries = entries]
<1>1. erasure[p] \in Erasure /\ EraserSound(p, erasure[p]) /\ erasure[p].at = "revocations"
  BY EraserFacts DEF ReadRevocations
<1>2. /\ entries \subseteq revocations /\ entries \subseteq Revocation
      /\ \A v \in entries : v.of[1] = p
  BY RetainedFacts DEF RevocationsOf
<1>3. erasure' = [erasure EXCEPT ![p] = x]
  BY DEF ReadRevocations
<1> HIDE DEF entries
<1>4. /\ x \in Erasure /\ x.at = "batch" /\ x.took = erasure[p].took
      /\ x.entries = entries /\ x.final = erasure[p].final
  BY <1>1, <1>2 DEF Erasure, ErasureSteps
<1> HIDE DEF x
<1>5. EraserSound(p, x)
  BY <1>1, <1>2, <1>4 DEF EraserSound
<1> QED
  BY <1>3, <1>4, <1>5, EraserMoves, RetainedFacts
     DEF ReadRevocations, vars, ledgerVars, requestVars

LEMMA LoseErasureKeeps ==
    ASSUME RetainedInv, NEW p \in Players, LoseErasure(p) PROVE RetainedInv'
<1> DEFINE x == [NoErasure EXCEPT !.at = "waiting"]
<1>1. /\ x \in Erasure /\ x.at = "waiting" /\ x.took = {} /\ x.entries = {}
      /\ x.final = FALSE
  BY DEF NoErasure, Erasure, ErasureSteps
<1>2. erasure' = [erasure EXCEPT ![p] = x]
  BY DEF LoseErasure
<1> HIDE DEF x
<1>3. EraserSound(p, x)
  BY <1>1 DEF EraserSound
<1>4. (faults \in 0..MaxFaults)'
  BY RetainedFacts, RequestAssumption DEF LoseErasure
<1> QED
  BY <1>1, <1>2, <1>3, <1>4, EraserMoves, RetainedFacts DEF LoseErasure, ledgerVars

LEMMA FinalPassKeeps ==
    ASSUME RetainedInv, NEW p \in Players, FinalPass(p) PROVE RetainedInv'
<1> DEFINE x == [erasure[p] EXCEPT !.at = "tombstone", !.final = TRUE]
<1>1. /\ erasure[p] \in Erasure /\ EraserSound(p, erasure[p])
      /\ \A r \in Requests : RequestPlayer[r] = p => Idle(r)
  BY EraserFacts DEF FinalPass, Idle
<1>2. erasure' = [erasure EXCEPT ![p] = x]
  BY DEF FinalPass
<1>3. /\ x \in Erasure /\ x.at = "tombstone" /\ x.took = erasure[p].took
      /\ x.entries = erasure[p].entries
  BY <1>1 DEF Erasure, ErasureSteps
<1> HIDE DEF x
<1>4. EraserSound(p, x)
  BY <1>1, <1>3 DEF EraserSound
<1> QED
  BY <1>2, <1>3, <1>4, EraserMoves, RetainedFacts
     DEF FinalPass, vars, ledgerVars, requestVars

-----------------------------------------------------------------------------
(* The batch. *)

(* The rows the eraser read are still on the ledger, are the player's, and *)
(* go under a kept id that no other kept grant has.                        *)
LEMMA TookFacts ==
    ASSUME RetainedInv, NEW p \in Players, NEW g \in erasure[p].took
    PROVE  /\ g \in grants /\ g \in Grant /\ g.player = p
           /\ Detached(p, g) \in Grant
           /\ Detached(p, g).player = RetainedId[p] /\ Detached(p, g).slot = g.slot
           /\ Detached(p, g).key = g.slot
           /\ IdOf(Detached(p, g)) = <<RetainedId[p], g.slot>>
           /\ RetainedId[p] \in Kept /\ RetainedId[p] \notin Players
<1>1. g \in grants /\ g \in Grant /\ g.player = p
  BY EraserFacts, RetainedFacts DEF EraserSound
<1>2. RetainedId[p] \in Kept /\ RetainedId[p] \notin Players
  BY DeletionAssumption, RequestAssumption
<1>3. /\ Detached(p, g) \in Grant
      /\ Detached(p, g).player = RetainedId[p] /\ Detached(p, g).slot = g.slot
      /\ Detached(p, g).key = g.slot
  BY <1>1, <1>2 DEF Detached, Grant, Owners
<1> QED
  BY <1>1, <1>2, <1>3 DEF IdOf

(* An entry the eraser read is about a grant of the player.                *)
LEMMA EntryFacts ==
    ASSUME RetainedInv, NEW p \in Players, NEW v \in erasure[p].entries
    PROVE  \E a \in grants :
             /\ IdOf(a) = v.of /\ a.player = p /\ a \in Grant
             /\ DetachedEntry(p, v) \in Revocation
             /\ DetachedEntry(p, v).player = RetainedId[p]
             /\ DetachedEntry(p, v).of = IF a \in erasure[p].took
                                         THEN <<RetainedId[p], a.slot>> ELSE v.of
<1>1. v \in revocations /\ v \in Revocation /\ v.of[1] = p
  BY EraserFacts, RetainedFacts DEF EraserSound
<1>2. \E a \in grants : IdOf(a) = v.of
  BY <1>1, LedgerFacts DEF RetainedInv, LedgerIntegrity, IdsOf
<1> DEFINE a == CHOOSE g \in grants : IdOf(g) = v.of
<1>3. a \in grants /\ IdOf(a) = v.of
  BY <1>2
<1>4. DetachedEntry(p, v) =
        [v EXCEPT !.player = RetainedId[p], !.key = a.slot,
                  !.of = IF a \in erasure[p].took
                         THEN IdOf(Detached(p, a)) ELSE v.of]
  BY DEF DetachedEntry
<1> HIDE DEF a
<1>5. a \in Grant /\ a.player = p
  <2>1. a \in Grant /\ a.player = IdOf(a)[1]
    BY <1>3, RetainedFacts DEF IdOf
  <2> QED
    BY <1>1, <1>3, <2>1
<1>6. a \in erasure[p].took =>
        IdOf(Detached(p, a)) = <<RetainedId[p], a.slot>> /\ IdOf(Detached(p, a)) \in Ids
  BY TookFacts, IdOfGrant
<1>7. RetainedId[p] \in Owners /\ a.slot \in RevocationKeys /\ v.of \in Ids
  BY <1>1, <1>5, DeletionAssumption DEF Owners, RevocationKeys, Grant, Revocation
<1>8. /\ DetachedEntry(p, v) \in Revocation
      /\ DetachedEntry(p, v).player = RetainedId[p]
      /\ DetachedEntry(p, v).of = IF a \in erasure[p].took
                                  THEN <<RetainedId[p], a.slot>> ELSE v.of
  BY <1>1, <1>4, <1>6, <1>7 DEF Revocation
<1> QED
  BY <1>3, <1>5, <1>8

(* The rows after the batch: each took slot is held by the detached row.   *)
Renames(p) ==
    /\ BatchCommits(p)
    /\ grants' = (grants \ erasure[p].took)
                    \cup {Detached(p, g) : g \in erasure[p].took}
    /\ revocations' = (revocations \ erasure[p].entries)
                    \cup {DetachedEntry(p, v) : v \in erasure[p].entries}

LEMMA RenamesSlots ==
    ASSUME RetainedInv, NEW p \in Players, Renames(p), NEW h \in grants'
    PROVE  \E g \in grants :
             /\ h.slot = g.slot
             /\ \/ h = g /\ g \notin erasure[p].took
                \/ h = Detached(p, g) /\ g \in erasure[p].took
<1>1. CASE h \in grants \ erasure[p].took
  BY <1>1
<1>2. CASE \E g \in erasure[p].took : h = Detached(p, g)
  BY <1>2, TookFacts
<1> QED
  BY <1>1, <1>2 DEF Renames

LEMMA RenamesKeepsGrants ==
    ASSUME RetainedInv, NEW p \in Players, Renames(p)
    PROVE  /\ (grants \subseteq Grant)' /\ Bounded(grants)' /\ KeptBySlot'
           /\ \A x, y \in grants' : (IdOf(x) = IdOf(y) \/ x.slot = y.slot) => x = y
<1>1. \A g \in erasure[p].took : Detached(p, g) \in Grant
  BY TookFacts
<1>2. (grants \subseteq Grant)'
  BY <1>1, RetainedFacts DEF Renames
<1>3. Bounded(grants)'
  <2>1. PICK b \in Nat : \A g \in grants : g.slot < b
    BY LedgerFacts DEF RetainedInv, Bounded
  <2>2. \A h \in grants' : h.slot < b
    BY <2>1, RenamesSlots
  <2> QED
    BY <2>2 DEF Bounded
<1>4. KeptBySlot'
  <2>1. \A g \in erasure[p].took : Detached(p, g).key = Detached(p, g).slot
    BY TookFacts
  <2>2. \A g \in grants : IsKept(g) => g.key = g.slot
    BY LedgerFacts DEF RetainedInv, KeptBySlot
  <2> QED
    BY <2>1, <2>2 DEF KeptBySlot, IsKept, Renames
<1>5. \A g, h \in grants : (IdOf(g) = IdOf(h) \/ g.slot = h.slot) => g = h
  BY LedgerFacts DEF RetainedInv, LedgerIntegrity
<1>6. ASSUME NEW x \in grants', NEW y \in grants', x.slot = y.slot PROVE x = y
  <2>1. PICK g \in grants :
          /\ x.slot = g.slot
          /\ \/ x = g /\ g \notin erasure[p].took
             \/ x = Detached(p, g) /\ g \in erasure[p].took
    BY RenamesSlots
  <2>2. PICK h \in grants :
          /\ y.slot = h.slot
          /\ \/ y = h /\ h \notin erasure[p].took
             \/ y = Detached(p, h) /\ h \in erasure[p].took
    BY RenamesSlots
  <2>3. g = h
    BY <1>5, <1>6, <2>1, <2>2
  <2> QED
    BY <2>1, <2>2, <2>3
<1>7. ASSUME NEW x \in grants', NEW y \in grants', IdOf(x) = IdOf(y) PROVE x.slot = y.slot
  <2>1. x.player = y.player /\ x.key = y.key
    BY <1>7 DEF IdOf
  <2>2. CASE IsKept(x)
    BY <1>4, <2>1, <2>2 DEF KeptBySlot, IsKept
  <2>3. CASE ~IsKept(x)
    <3>1. \A g \in erasure[p].took : IsKept(Detached(p, g))
      BY TookFacts DEF IsKept
    <3>2. ~IsKept(y)
      BY <2>1, <2>3 DEF IsKept
    <3>3. x \in grants /\ y \in grants
      BY <2>3, <3>1, <3>2 DEF Renames
    <3> QED
      BY <1>5, <1>7, <3>3
  <2> QED
    BY <2>2, <2>3
<1> QED
  BY <1>2, <1>3, <1>4, <1>6, <1>7

(* Every entry after the batch names a grant after the batch, at the slot  *)
(* of the grant it named before.                                           *)
LEMMA RenamesEntries ==
    ASSUME RetainedInv, NEW p \in Players, Renames(p),
           NEW a \in grants, NEW v \in revocations, v.of = IdOf(a)
    PROVE  LET w == IF v \in erasure[p].entries THEN DetachedEntry(p, v) ELSE v
               b == IF a \in erasure[p].took THEN Detached(p, a) ELSE a
           IN  w \in revocations' /\ b \in grants' /\ w.of = IdOf(b)
<1>1. CASE v \in erasure[p].entries
  <2>1. PICK c \in grants :
          /\ IdOf(c) = v.of
          /\ DetachedEntry(p, v).of = IF c \in erasure[p].took
                                      THEN <<RetainedId[p], c.slot>> ELSE v.of
    BY <1>1, EntryFacts
  <2>2. c = a
    BY <2>1, LedgerFacts DEF RetainedInv, LedgerIntegrity
  <2> QED
    BY <1>1, <2>1, <2>2, TookFacts DEF Renames
<1>2. CASE v \notin erasure[p].entries
  <2>1. a \notin erasure[p].took
    BY <1>2 DEF Renames, BatchCommits, IdsOf
  <2> QED
    BY <1>2, <2>1 DEF Renames
<1> QED
  BY <1>1, <1>2

LEMMA EntryIsAbout ==
    ASSUME RetainedInv, NEW v \in revocations
    PROVE  \E a \in grants : v.of = IdOf(a)
BY LedgerFacts DEF RetainedInv, LedgerIntegrity, IdsOf

LEMMA RenamesFrom ==
    ASSUME RetainedInv, NEW p \in Players, Renames(p), NEW w \in revocations'
    PROVE  \E v \in revocations, a \in grants :
             /\ v.of = IdOf(a)
             /\ w = IF v \in erasure[p].entries THEN DetachedEntry(p, v) ELSE v
             /\ w.of = IdOf(IF a \in erasure[p].took THEN Detached(p, a) ELSE a)
<1>1. erasure[p].entries \subseteq revocations
  BY EraserFacts DEF EraserSound
<1>2. PICK v \in revocations :
        w = IF v \in erasure[p].entries THEN DetachedEntry(p, v) ELSE v
  BY <1>1 DEF Renames
<1>3. PICK a \in grants : v.of = IdOf(a)
  BY EntryIsAbout
<1>4. w.of = IdOf(IF a \in erasure[p].took THEN Detached(p, a) ELSE a)
  BY <1>2, <1>3, RenamesEntries
<1> QED
  BY <1>2, <1>3, <1>4

LEMMA RenamesKeepsLedger ==
    ASSUME RetainedInv, NEW p \in Players, Renames(p), UNCHANGED tombstones
    PROVE  LedgerOK'
<1>1. LedgerTypeOK'
  <2>1. \A v \in erasure[p].entries : DetachedEntry(p, v) \in Revocation
    BY EntryFacts
  <2>2. (revocations \subseteq Revocation)'
    BY <2>1, RetainedFacts DEF Renames
  <2> QED
    BY <2>2, RenamesKeepsGrants, RetainedFacts DEF LedgerTypeOK
<1> DEFINE after(a) == IF a \in erasure[p].took THEN Detached(p, a) ELSE a
<1>2. \A a \in grants : after(a) \in grants' /\ after(a).slot = a.slot
  BY TookFacts DEF Renames
<1>3. \A w \in revocations' : w.of \in IdsOf(grants)'
  BY <1>2, RenamesFrom DEF IdsOf
<1>4. \A x, y \in revocations' : x.of = y.of => x = y
  <2> SUFFICES ASSUME NEW x \in revocations', NEW y \in revocations', x.of = y.of
               PROVE  x = y
    OBVIOUS
  <2>1. PICK v \in revocations, a \in grants :
          /\ v.of = IdOf(a)
          /\ x = IF v \in erasure[p].entries THEN DetachedEntry(p, v) ELSE v
          /\ x.of = IdOf(after(a))
    BY RenamesFrom
  <2>2. PICK w \in revocations, b \in grants :
          /\ w.of = IdOf(b)
          /\ y = IF w \in erasure[p].entries THEN DetachedEntry(p, w) ELSE w
          /\ y.of = IdOf(after(b))
    BY RenamesFrom
  <2> HIDE DEF after
  <2>3. after(a) = after(b)
    BY <1>2, <2>1, <2>2, RenamesKeepsGrants
  <2>4. a = b
    BY <1>2, <2>3, LedgerFacts DEF RetainedInv, LedgerIntegrity
  <2>5. v = w
    BY <2>1, <2>2, <2>4, LedgerFacts DEF RetainedInv, LedgerIntegrity
  <2> QED
    BY <2>1, <2>2, <2>5
<1>5. LedgerIntegrity'
  BY <1>3, <1>4, RenamesKeepsGrants DEF LedgerIntegrity
<1>6. EntriesName'
  <2>1. \A v \in erasure[p].entries : DetachedEntry(p, v).player \notin Players
    <3>1. RetainedId[p] \notin Players
      BY DeletionAssumption, RequestAssumption
    <3> QED
      BY <3>1, EntryFacts
  <2> QED
    BY <2>1, LedgerFacts DEF RetainedInv, EntriesName, Renames
<1> QED
  BY <1>1, <1>5, <1>6, RenamesKeepsGrants DEF LedgerOK

LEMMA BatchKeeps ==
    ASSUME RetainedInv, NEW p \in Players, Batch(p) PROVE RetainedInv'
<1>1. /\ UNCHANGED <<tombstones, call, requestVars, expired>> /\ erasure[p].at = "batch"
      /\ erasure[p] \in Erasure /\ EraserSound(p, erasure[p])
  BY EraserFacts DEF Batch
<1>2. CASE ~BatchCommits(p)
  BY <1>1, <1>2, EraserProceeds, RetainedFacts DEF Batch, Proceeds, requestVars
<1>3. CASE BatchCommits(p)
  <2> DEFINE step == IF erasure[p].final THEN "erased" ELSE "waiting"
             x == [erasure[p] EXCEPT !.took = {}, !.entries = {}, !.at = step]
  <2>1. Renames(p) /\ erasure' = [erasure EXCEPT ![p] = x]
    BY <1>1, <1>3 DEF Batch, Renames, Erasure
  <2>2. LedgerOK'
    BY <1>1, <2>1, RenamesKeepsLedger
  <2>3. Control'
    BY <1>1 DEF RetainedInv, Base, Control, RequestsOK, CallsOK, CallTypeOK,
                OthersOK, requestVars
  <2>4. (overtaken \in BOOLEAN)'
    <3> DEFINE more == InUse /\ erasure[p].took # {}
    <3>1. overtaken' = (overtaken \/ more)
      BY <1>3 DEF Batch
    <3>2. more \in BOOLEAN
      OBVIOUS
    <3> HIDE DEF more
    <3> QED
      BY <3>1, <3>2 DEF RetainedInv
  <2>5. /\ x \in Erasure /\ x.took = {} /\ x.entries = {} /\ x.at = step
        /\ x.final = erasure[p].final
    BY <1>1 DEF Erasure, ErasureSteps
  <2> HIDE DEF x
  <2>6. erasure \in [Players -> Erasure]
    BY DEF RetainedInv, ErasuresOK
  <2>7. RetainedId[p] \notin Players
    BY DeletionAssumption, RequestAssumption
  <2>8. \A g \in grants' : g.player \in Players => g \in grants \ erasure[p].took
    BY <2>1, <2>7, TookFacts DEF Renames
  <2>9. EraserSound(p, erasure[p])'
    <3>1. erasure'[p] = x
      BY <2>1, <2>6
    <3>2. ASSUME erasure[p].final
          PROVE  /\ \A g \in grants' : g.player # p
                 /\ \A r \in Requests : RequestPlayer[r] = p => Idle(r)'
      <4>1. \A g \in grants : g.player = p => g \in erasure[p].took
        BY <1>1, <3>2 DEF EraserSound
      <4>2. \A r \in Requests : RequestPlayer[r] = p => Idle(r)'
        BY <1>1, <3>2 DEF EraserSound, Idle, requestVars
      <4> QED
        BY <2>8, <4>1, <4>2
    <3> QED
      BY <2>5, <3>1, <3>2 DEF EraserSound
  <2>10. ASSUME NEW q \in Players, q # p PROVE EraserSound(q, erasure[q])'
    <3>1. erasure'[q] = erasure[q] /\ EraserSound(q, erasure[q])
      BY <2>1, <2>6, <2>10, EraserFacts
    <3>2. erasure[q].took \subseteq grants'
      <4>1. \A g \in erasure[p].took : g.player = p
        BY <1>1 DEF EraserSound
      <4> QED
        BY <2>1, <2>10, <3>1, <4>1 DEF EraserSound, Renames
    <3>3. erasure[q].entries \subseteq revocations'
      <4>1. \A v \in erasure[p].entries : v.of[1] = p
        BY <1>1 DEF EraserSound
      <4> QED
        BY <2>1, <2>10, <3>1, <4>1 DEF EraserSound, Renames
    <3>4. \A r \in Requests : Idle(r)' <=> Idle(r)
      BY <1>1 DEF Idle, requestVars
    <3>5. \A g \in grants' : g.player = q => g \in grants
      BY <2>8
    <3> QED
      BY <3>1, <3>2, <3>3, <3>4, <3>5 DEF EraserSound
  <2>11. ErasuresOK'
    BY <2>1, <2>5, <2>6, <2>9, <2>10 DEF ErasuresOK
  <2> QED
    BY <1>1, <2>2, <2>3, <2>4, <2>11 DEF RetainedInv, Base
<1> QED
  BY <1>2, <1>3

-----------------------------------------------------------------------------
(* The purge, and steps that change nothing.                               *)

LEMMA PurgeKeeps ==
    ASSUME RetainedInv, NEW g \in grants, Purge(g) PROVE RetainedInv'
<1>1. /\ IsKept(g) /\ ~Reversed(g) /\ grants' = grants \ {g}
      /\ expired' = expired \ {g.slot}
      /\ UNCHANGED <<revocations, tombstones, call, requestVars, erasure>>
  BY DEF Purge
<1>2. /\ grants \subseteq Grant /\ revocations \subseteq Revocation
      /\ tombstones \subseteq Players /\ LedgerIntegrity
      /\ Bounded(grants) /\ KeptBySlot /\ EntriesName
  BY LedgerFacts DEF RetainedInv
<1>3. LedgerIntegrity'
  <2>1. \A v \in revocations : v.of # IdOf(g)
    BY <1>1, ReversedBy
  <2>2. \A v \in revocations : v.of \in IdsOf(grants \ {g})
    BY <1>2, <2>1 DEF LedgerIntegrity, IdsOf
  <2>3. IdsOf(grants)' = IdsOf(grants \ {g})
    BY <1>1 DEF IdsOf
  <2> QED
    BY <1>1, <1>2, <2>2, <2>3 DEF LedgerIntegrity
<1>4. LedgerOK'
  BY <1>1, <1>2, <1>3 DEF LedgerOK, LedgerTypeOK, Bounded, KeptBySlot, EntriesName
<1>5. Control'
  BY <1>1 DEF RetainedInv, Base, Control, RequestsOK, CallsOK, CallTypeOK,
              OthersOK, requestVars
<1>6. ASSUME NEW p \in Players PROVE EraserSound(p, erasure[p])'
  <2>1. EraserSound(p, erasure[p]) /\ erasure' = erasure
    BY <1>1, EraserFacts
  <2>2. g.player # p
    BY <1>1, RequestAssumption DEF IsKept
  <2>3. \A r \in Requests : Idle(r)' <=> Idle(r)
    BY <1>1 DEF Idle, requestVars
  <2> QED
    BY <1>1, <2>1, <2>2, <2>3 DEF EraserSound
<1>7. ErasuresOK'
  BY <1>1, <1>6 DEF RetainedInv, ErasuresOK
<1>8. (expired \subseteq Nat)'
  BY <1>1 DEF RetainedInv
<1>9. (overtaken \in BOOLEAN)'
  <2>1. overtaken' = (overtaken \/ InUse)
    BY DEF Purge
  <2>2. InUse \in BOOLEAN
    BY DEF InUse
  <2> QED
    BY <2>1, <2>2 DEF RetainedInv
<1> QED
  BY <1>4, <1>5, <1>7, <1>8, <1>9 DEF RetainedInv, Base

LEMMA RetainedStutters == RetainedInv /\ UNCHANGED allVars => RetainedInv'
<1> SUFFICES ASSUME RetainedInv, UNCHANGED allVars PROVE RetainedInv'
  OBVIOUS
<1> USE DEF allVars, vars, ledgerVars, requestVars, retainVars
<1>1. LedgerOK'
  BY RestKeepsLedger, RetainedFacts DEF RetainedInv
<1>2. Control'
  BY DEF RetainedInv, Base, Control, RequestsOK, CallsOK, CallTypeOK, OthersOK
<1>3. \A p \in Players : EraserSound(p, erasure[p])'
  BY EraserFacts DEF EraserSound, Idle
<1>4. ErasuresOK'
  BY <1>3 DEF RetainedInv, ErasuresOK
<1> QED
  BY <1>1, <1>2, <1>4 DEF RetainedInv, Base

LEMMA RetainedNextKeeps == RetainedInv /\ NextRetained => RetainedInv'
<1> SUFFICES ASSUME RetainedInv, NextRetained PROVE RetainedInv'
  OBVIOUS
<1>1. CASE LedgerWork /\ UNCHANGED retainVars
  BY <1>1, WorkKeeps
<1>2. ASSUME NEW p \in Players, DeleteAccount(p) \/ ErasureStep(p) \/ LoseErasure(p)
      PROVE  RetainedInv'
  BY <1>2, DeleteAccountKeeps, AddTombstoneKeeps, ReadGrantsKeeps,
     ReadRevocationsKeeps, BatchKeeps, FinalPassKeeps, LoseErasureKeeps DEF ErasureStep
<1>3. ASSUME NEW g \in grants, Purge(g) PROVE RetainedInv'
  BY <1>3, PurgeKeeps
<1> QED
  BY <1>1, <1>2, <1>3 DEF NextRetained

LEMMA RetainedStarts == InitRetained => RetainedInv
<1> SUFFICES ASSUME InitRetained PROVE RetainedInv
  OBVIOUS
<1>1. Init /\ erasure = [p \in Players |-> NoErasure] /\ overtaken = FALSE
  BY DEF InitRetained
<1>2. IInv
  BY <1>1, InitHolds
<1>3. /\ LedgerTypeOK /\ LedgerIntegrity /\ OthersOK /\ CallTypeOK
      /\ req \in [Requests -> Request]
  BY <1>2 DEF IInv, TypeOK, LedgerInv, OthersOK
<1>4. grants = {} \/ \E g \in Grant : grants = {g} /\ g.player \in Players
  <2>1. ASSUME NEW p \in Players, NEW k \in Keys,
               grants = {[player |-> p, key |-> k, slot |-> 0, across |-> p # Buyer]}
        PROVE  \E g \in Grant : grants = {g} /\ g.player \in Players
    <3> DEFINE g == [player |-> p, key |-> k, slot |-> 0, across |-> p # Buyer]
    <3>1. (p # Buyer) \in BOOLEAN
      OBVIOUS
    <3>2. g \in Grant /\ g.player \in Players
      BY <3>1 DEF Grant, Owners
    <3> QED
      BY <2>1, <3>2
  <2> QED
    BY <1>1, <2>1, SeedAssumption DEF Init
<1>5. LedgerOK
  <2>1. Bounded(grants)
    BY <1>4, BoundedEmpty, BoundedOne
  <2>2. KeptBySlot
    BY <1>4, RequestAssumption DEF KeptBySlot, IsKept
  <2>3. EntriesName
    BY <1>1 DEF Init, EntriesName
  <2> QED
    BY <1>3, <2>1, <2>2, <2>3 DEF LedgerOK
<1>6. RequestsOK
  <2>1. "none" \in Answers
    BY DEF Answers
  <2>2. \A r \in Requests : SoundRequest(r, Blank("idle", "none"))
    BY <2>1, BlankIsSound
  <2> QED
    BY <1>1, <1>3, <2>2 DEF Init, RequestsOK
<1>7. CallsOK
  BY <1>1, <1>3, IdleCallIsSound DEF Init, CallInit, CallsOK
<1>8. ErasuresOK
  <2>1. /\ NoErasure \in Erasure /\ NoErasure.at = "none" /\ NoErasure.final = FALSE
        /\ NoErasure.took = {} /\ NoErasure.entries = {}
    BY DEF NoErasure, Erasure, ErasureSteps
  <2>2. \A p \in Players : EraserSound(p, NoErasure)
    BY <2>1 DEF EraserSound
  <2> QED
    BY <1>1, <2>1, <2>2 DEF ErasuresOK
<1>9. expired \subseteq Nat
  <2>1. \A g \in grants : g.slot \in Nat
    BY <1>3 DEF LedgerTypeOK, Grant
  <2> QED
    BY <2>1 DEF InitRetained
<1> QED
  BY <1>1, <1>3, <1>5, <1>6, <1>7, <1>8, <1>9 DEF RetainedInv, Base, Control

(* Deletions and the purge keep what the handlers, the erasers and the     *)
(* ledger agree on.                                                        *)
THEOREM RetainedInvariantHolds == SpecRetained => []RetainedInv
<1>1. RetainedInv /\ [NextRetained]_allVars => RetainedInv'
  BY RetainedNextKeeps, RetainedStutters
<1> QED
  BY <1>1, RetainedStarts, PTL DEF SpecRetained

(* Every table, every handler's locals and what every eraser read keep     *)
(* their type beside deletions and the purge.                              *)
THEOREM RetainedTypesHold == SpecRetained => []RetainedTypeOK
<1>1. RetainedInv => RetainedTypeOK
  BY DEF RetainedInv, Base, LedgerOK, Control, RequestsOK, CallsOK, OthersOK,
         ErasuresOK, RetainedTypeOK, TypeOK
<1> QED
  BY <1>1, RetainedInvariantHolds, PTL

(* The batch that renames a deleted player's rows (accountDeletion.ts)     *)
(* keeps ids, slots and entries unique and every entry on a grant, beside  *)
(* whatever was written between its reads and its commit.                  *)
THEOREM RetainedIntegrityHolds == SpecRetained => []LedgerIntegrity
<1>1. RetainedInv => LedgerIntegrity
  BY LedgerFacts DEF RetainedInv
<1> QED
  BY <1>1, RetainedInvariantHolds, PTL

(* After the final pass no row on the ledger names the deleted player, and *)
(* none ever will.                                                         *)
THEOREM ErasedHolds == SpecRetained => []ErasedLeavesNothing
<1>1. ASSUME RetainedInv PROVE ErasedLeavesNothing
  <2> SUFFICES ASSUME NEW p \in Players, erasure[p].at = "erased"
               PROVE  /\ \A g \in grants : g.player # p
                      /\ \A v \in revocations : v.player # p /\ v.of[1] # p
    BY DEF ErasedLeavesNothing
  <2>1. \A g \in grants : g.player # p
    BY <1>1, EraserFacts DEF EraserSound
  <2>2. ASSUME NEW v \in revocations PROVE v.of[1] # p
    <3>1. PICK a \in grants : v.of = IdOf(a)
      BY <1>1, EntryIsAbout
    <3> QED
      BY <2>1, <3>1 DEF IdOf
  <2>3. \A v \in revocations : v.player # p
    BY <1>1, <2>2, LedgerFacts DEF RetainedInv, EntriesName
  <2> QED
    BY <2>1, <2>2, <2>3
<1> QED
  BY <1>1, RetainedInvariantHolds, PTL

-----------------------------------------------------------------------------
(* A slot once reversed stays reversed. *)

Stands == \A g \in grants, h \in grants' : Reversed(g) /\ h.slot = g.slot => Reversed(h)'

LEMMA SameSlot ==
    ASSUME RetainedInv, NEW g \in grants, NEW h \in grants, h.slot = g.slot
    PROVE  g = h
BY LedgerFacts DEF RetainedInv, LedgerIntegrity

LEMMA EntriesStand ==
    ASSUME RetainedInv, revocations \subseteq revocations',
           \A h \in grants' \ grants : \A g \in grants : h.slot # g.slot
    PROVE  Stands
<1> SUFFICES ASSUME NEW g \in grants, NEW h \in grants', Reversed(g), h.slot = g.slot
             PROVE  Reversed(h)'
  BY DEF Stands
<1>1. h = g
  BY SameSlot
<1>2. PICK v \in revocations : v.of = IdOf(g)
  BY ReversedBy
<1>3. v \in revocations' /\ v.of = IdOf(h)
  BY <1>1, <1>2
<1> QED
  BY <1>3 DEF Reversed, ReversedIds, RevocationsOf, IdOf

LEMMA BatchStands ==
    ASSUME RetainedInv, NEW p \in Players, Renames(p)
    PROVE  Stands
<1> SUFFICES ASSUME NEW g \in grants, NEW h \in grants', Reversed(g), h.slot = g.slot
             PROVE  Reversed(h)'
  BY DEF Stands
<1>1. PICK v \in revocations : v.of = IdOf(g)
  BY ReversedBy
<1>2. h = IF g \in erasure[p].took THEN Detached(p, g) ELSE g
  BY RenamesSlots, SameSlot
<1>3. \E w \in revocations' : w.of = IdOf(h)
  BY <1>1, <1>2, RenamesEntries
<1> QED
  BY <1>3 DEF Reversed, ReversedIds, RevocationsOf, IdOf

(* No rewrite drops or misfiles a revocation, though it may be appended    *)
(* between the eraser's reads and its batch.                               *)
THEOREM RevocationStandsHolds == SpecRetained => RevocationStands
<1>1. ASSUME RetainedInv, LedgerWork PROVE Stands
  <2>1. Works
    BY <1>1, LedgerWorks DEF RetainedInv
  <2>2. revocations \subseteq revocations'
    BY <2>1, LedgerGrows
  <2>3. \A h \in grants' \ grants : \A g \in grants : h.slot # g.slot
    BY <2>1 DEF Works, LedgerTurns, ledgerVars, TakesRow, TakesEntry,
                GrantInserts, AtSlot
  <2> QED
    BY <1>1, <2>2, <2>3, EntriesStand
<1>2. ASSUME RetainedInv, NEW p \in Players,
             DeleteAccount(p) \/ ErasureStep(p) \/ LoseErasure(p)
      PROVE  Stands
  <2>1. CASE Batch(p) /\ BatchCommits(p)
    BY <1>2, <2>1, BatchStands DEF Batch, Renames
  <2>2. CASE ~(Batch(p) /\ BatchCommits(p))
    <3>1. UNCHANGED <<grants, revocations>>
      BY <1>2, <2>2 DEF DeleteAccount, ErasureStep, LoseErasure, AddTombstone,
         ReadGrants, ReadRevocations, Batch, FinalPass, vars, ledgerVars
    <3> QED
      BY <1>2, <3>1, EntriesStand
  <2> QED
    BY <2>1, <2>2
<1>3. ASSUME RetainedInv, NEW g \in grants, Purge(g) PROVE Stands
  <2>1. grants' \subseteq grants /\ revocations' = revocations
    BY <1>3 DEF Purge
  <2> QED
    BY <1>3, <2>1, EntriesStand
<1>4. ASSUME RetainedInv, UNCHANGED allVars PROVE Stands
  <2>1. grants' = grants /\ revocations' = revocations
    BY <1>4 DEF allVars, vars, ledgerVars
  <2> QED
    BY <1>4, <2>1, EntriesStand
<1>5. RetainedInv /\ [NextRetained]_allVars => [Stands]_allVars
  BY <1>1, <1>2, <1>3, <1>4 DEF NextRetained
<1>6. [][Stands]_allVars <=> RevocationStands
  BY DEF Stands, RevocationStands
<1> QED
  BY <1>5, <1>6, RetainedInvariantHolds, PTL DEF SpecRetained

-----------------------------------------------------------------------------
(* A refund beside deletions.  As long as no rename and no purge overtook a *)
(* handler, the invariants of RestoreSharingProofs and RefundProofs hold:   *)
(* the ledger's turns are steps of Next, and a batch or a purge that finds  *)
(* the ledger unused (or renames no row) leaves what they say of it.  The   *)
(* purge may take the first grant, which neither asks for: a request that   *)
(* relies on it is in flight.                                              *)

(* The eraser reads the rows after it wrote the player's tombstone.        *)
Marked ==
    \A p \in Players :
        erasure[p].at \in {"grants", "revocations", "batch"} => p \in tombstones

Beside ==
    /\ RetainedInv
    /\ expired \subseteq {0} /\ Marked
    /\ overtaken \/ (IInv /\ RInv)

LEMMA RetainedIsTyped == RetainedInv => TypeOK /\ LedgerIntegrity
BY LedgerFacts DEF RetainedInv, Base, LedgerOK, Control, RequestsOK, CallsOK, OthersOK, TypeOK

LEMMA RetainedIsTypedNext == RetainedInv' => (TypeOK /\ LedgerIntegrity)'
BY RetainedIsTyped, PTL

(* The handlers and the rows rest, more tombstones may be there.           *)
LEMMA HandlersRest ==
    ASSUME IInv, RInv, TypeOK', UNCHANGED <<grants, revocations, call, req, event, orphans>>,
           tombstones \subseteq tombstones'
    PROVE  IInv' /\ RInv'
<1>1. LedgerInv'
  <2>1. LedgerIntegrity'
    BY DEF IInv, LedgerInv, LedgerIntegrity, IdsOf
  <2>2. Contiguous'
    BY DEF IInv, LedgerInv, Contiguous, SharesRead
  <2>3. Active' = Active
    BY DEF Active, Reversed, ReversedIds, RevocationsOf
  <2>4. HolderLimit' /\ OneGrantPerPlayer'
    BY <2>3 DEF IInv, LedgerInv, HolderLimit, OneGrantPerPlayer
  <2> QED
    BY <2>1, <2>2, <2>4 DEF IInv, LedgerInv
<1>2. CallsBounded'
  BY DEF IInv, CallsBounded
<1>3. RequestsSound'
  <2> SUFFICES ASSUME NEW r \in Requests
               PROVE  SoundAt(r, req[r], grants, revocations, tombstones')
    BY DEF RequestsSound
  <2>1. SoundAt(r, req[r], grants, revocations, tombstones)
    BY DEF IInv, RequestsSound
  <2> QED
    BY <2>1, GrowsSame, SoundGrows
<1> QED
  BY <1>1, <1>2, <1>3, RefundRests DEF IInv

-----------------------------------------------------------------------------
(* The ledger that no handler is using. *)

LEMMA UnusedFacts ==
    ASSUME IInv, RInv, ~InUse
    PROVE  /\ \A r \in Requests : Idle(r) /\ ~req[r].inserted
           /\ \A c \in Callers : call[c].at = "idle"
<1>1. ASSUME NEW r \in Requests PROVE Idle(r) /\ ~req[r].inserted /\ call[r].at = "idle"
  <2>1. Idle(r)
    BY DEF InUse, Idle
  <2> QED
    BY <2>1, WriterFacts DEF Idle, Rechecking
<1>2. ASSUME NEW e \in Events PROVE call[e].at = "idle"
  <2>1. EventSound(e)
    BY DEF RInv
  <2> QED
    BY <2>1 DEF EventSound, InUse
<1> QED
  BY <1>1, <1>2, RequestAssumption

(* Idle requests know of the ledger that the players they answered hold it. *)
LEMMA UnusedKeepsRequests ==
    ASSUME IInv, RInv, ~InUse, UNCHANGED <<req, tombstones>>,
           \A r \in Requests : RequestPlayer[r] \notin tombstones /\ HeldBy(r, grants)
                                 => HeldBy(r, grants')
    PROVE  RequestsSound'
<1> SUFFICES ASSUME NEW r \in Requests
             PROVE  SoundAt(r, req[r], grants', revocations', tombstones)
  BY DEF RequestsSound
<1>1. Idle(r)
  BY UnusedFacts
<1>2. req[r].answer = "verified" /\ RequestPlayer[r] \notin tombstones => HeldBy(r, grants)
  BY DEF IInv, RequestsSound, SoundAt
<1> QED
  BY <1>1, <1>2 DEF SoundAt, Idle

(* No call is out and no writer has a recheck to do: a grant stays settled  *)
(* where a reversed slot stays reversed.                                   *)
LEMMA UnusedKeepsRefund ==
    ASSUME IInv, RInv, ~InUse, UNCHANGED <<call, req, event, orphans>>,
           EntriesSound', \A e \in Events : Left(e)' => Left(e),
           \A h \in grants' : \E g \in grants :
              h.slot = g.slot /\ (Reversed(g) => Reversed(h)')
    PROVE  RInv'
<1>1. /\ \A r \in Requests : Idle(r) /\ ~req[r].inserted
      /\ \A c \in Callers : call[c].at = "idle"
  BY UnusedFacts
<1>2. \A c \in Callers : CallSound(c)'
  BY <1>1 DEF CallSound
<1>3. \A r \in Requests : WriterSound(r)'
  <2>1. Requests \subseteq Callers
    BY RequestAssumption
  <2> QED
    BY <1>1, <2>1 DEF WriterSound, Idle, Rechecking
<1>4. ASSUME NEW e \in Events PROVE EventSound(e)' /\ Fence(e)'
  <2>1. EventSound(e) /\ Fence(e) /\ e \in Callers
    BY RequestAssumption DEF RInv
  <2>2. EventSound(e)'
    BY <2>1 DEF EventSound
  <2>3. ASSUME \A g \in grants : Settled(g) PROVE \A h \in grants' : Settled(h)'
    <3> SUFFICES ASSUME NEW h \in grants' PROVE Settled(h)'
      OBVIOUS
    <3>1. PICK g \in grants : h.slot = g.slot /\ (Reversed(g) => Reversed(h)')
      OBVIOUS
    <3>2. Reversed(g) \/ (g.slot > 0 /\ g.slot \in orphans)
      BY <1>1, <2>3 DEF Settled, Late
    <3> QED
      BY <3>1, <3>2 DEF Settled
  <2>4. call[e].at = "idle"
    BY <1>1, <2>1
  <2>5. Left(e)' /\ event'[e].outcome = "revoked" => \A h \in grants' : Settled(h)'
    BY <2>1, <2>3 DEF Fence
  <2> QED
    BY <2>2, <2>4, <2>5 DEF Fence
<1> QED
  BY <1>2, <1>3, <1>4 DEF RInv

-----------------------------------------------------------------------------
(* The batch, on the invariants of a refund. *)

After(p, a) == IF a \in erasure[p].took THEN Detached(p, a) ELSE a

(* Entry w is what the batch of p makes of v, the entry of grant a.        *)
Rewritten(p, v, a, w) ==
    /\ v.of = IdOf(a) /\ w.of = IdOf(After(p, a))
    /\ w.reason = v.reason /\ w.by = v.by /\ w.ev = v.ev
    /\ w.player \in Kept \/ (w.player = v.player /\ w.of = v.of)

LEMMA AfterFacts ==
    ASSUME RetainedInv, NEW p \in Players, Renames(p), NEW a \in grants
    PROVE  After(p, a) \in grants' /\ After(p, a).slot = a.slot
BY TookFacts DEF After, Renames

LEMMA BeforeFacts ==
    ASSUME RetainedInv, NEW p \in Players, Renames(p), NEW h \in grants'
    PROVE  \E a \in grants : h = After(p, a) /\ h.slot = a.slot
BY RenamesSlots DEF After

LEMMA DetachedKeeps ==
    ASSUME RetainedInv, NEW p \in Players, NEW v \in erasure[p].entries
    PROVE  LET w == DetachedEntry(p, v)
           IN  /\ w.player \in Kept
               /\ w.reason = v.reason /\ w.by = v.by /\ w.ev = v.ev
<1>1. v \in Revocation /\ RetainedId[p] \in Kept
  BY EraserFacts, RetainedFacts, DeletionAssumption DEF EraserSound
<1> QED
  BY <1>1 DEF DetachedEntry, Revocation

LEMMA RewrittenBy ==
    ASSUME RetainedInv, NEW p \in Players, Renames(p),
           NEW v \in revocations, NEW a \in grants, v.of = IdOf(a)
    PROVE  \E w \in revocations' : Rewritten(p, v, a, w)
<1> DEFINE w == IF v \in erasure[p].entries THEN DetachedEntry(p, v) ELSE v
<1>1. w \in revocations' /\ w.of = IdOf(After(p, a))
  BY RenamesEntries DEF After
<1>2. CASE v \in erasure[p].entries
  BY <1>1, <1>2, DetachedKeeps DEF Rewritten
<1>3. CASE v \notin erasure[p].entries
  BY <1>1, <1>3 DEF Rewritten
<1> QED
  BY <1>2, <1>3

LEMMA RewrittenFrom ==
    ASSUME RetainedInv, NEW p \in Players, Renames(p), NEW w \in revocations'
    PROVE  \E v \in revocations, a \in grants : Rewritten(p, v, a, w)
<1>1. PICK v \in revocations, a \in grants :
        /\ v.of = IdOf(a)
        /\ w = IF v \in erasure[p].entries THEN DetachedEntry(p, v) ELSE v
        /\ w.of = IdOf(After(p, a))
  BY RenamesFrom DEF After
<1>2. CASE v \in erasure[p].entries
  BY <1>1, <1>2, DetachedKeeps DEF Rewritten
<1>3. CASE v \notin erasure[p].entries
  BY <1>1, <1>3 DEF Rewritten
<1> QED
  BY <1>2, <1>3

LEMMA BatchKeepsLedger ==
    ASSUME RetainedInv, LedgerInv, NEW p \in Players, Renames(p), LedgerIntegrity'
    PROVE  LedgerInv'
<1> DEFINE f == [a \in grants |-> After(p, a)]
<1>1. IsFiniteSet(grants')
  <2>1. f \in [grants -> grants'] /\ \A h \in grants' : \E a \in grants : f[a] = h
    BY AfterFacts, BeforeFacts
  <2> HIDE DEF f
  <2>2. f \in Surjection(grants, grants')
    BY <2>1 DEF Surjection
  <2> QED
    BY <2>2, FS_Surjection DEF LedgerInv
<1>2. Contiguous'
  <2>1. Slots(SharesRead') = Slots(SharesRead)
    BY AfterFacts, BeforeFacts DEF Slots, SharesRead
  <2> QED
    BY <2>1 DEF LedgerInv, Contiguous
<1>3. \A h \in grants' : ~IsKept(h) => h \in grants
  BY TookFacts DEF Renames, IsKept
<1>4. HolderLimit'
  <2>1. Active' \subseteq Active
    BY <1>3, BatchStands DEF Active, Stands
  <2>2. IsFiniteSet(Active)
    BY FS_Subset DEF LedgerInv, Active
  <2>3. Cardinality(Active') <= Cardinality(Active) /\ IsFiniteSet(Active')
    BY <2>1, <2>2, FS_Subset
  <2>4. Cardinality(Active) \in Nat /\ Cardinality(Active') \in Nat /\ MaxHolders \in Nat
    BY <2>2, <2>3, FS_CardinalityType, RequestAssumption
  <2> QED
    BY <2>3, <2>4 DEF LedgerInv, HolderLimit
<1>5. OneGrantPerPlayer'
  <2> SUFFICES ASSUME NEW g \in grants', NEW h \in grants', ~IsKept(g), g.player = h.player
               PROVE  g = h
    BY DEF OneGrantPerPlayer, IsKept
  <2>1. g \in grants /\ h \in grants
    BY <1>3 DEF IsKept
  <2> QED
    BY <2>1 DEF LedgerInv, OneGrantPerPlayer
<1> QED
  BY <1>1, <1>2, <1>4, <1>5 DEF LedgerInv

(* A rewritten entry names the row its grant became, under the kept id.    *)
LEMMA BatchKeepsEntries ==
    ASSUME RetainedInv, EntriesSound, NEW p \in Players, Renames(p)
    PROVE  EntriesSound'
<1> SUFFICES ASSUME NEW w \in revocations' PROVE EntrySound(w)'
  BY DEF EntriesSound
<1>1. PICK v \in revocations, a \in grants : Rewritten(p, v, a, w)
  BY RewrittenFrom
<1>2. PICK g \in grants : Names(v, g)
  BY DEF EntriesSound, EntrySound
<1>3. g = a
  BY <1>1, <1>2, LedgerFacts DEF RetainedInv, LedgerIntegrity, Names, Rewritten
<1>4. Names(w, After(p, a)) /\ After(p, a) \in grants'
  BY <1>1, <1>2, <1>3, AfterFacts DEF Names, Rewritten
<1>5. EntrySound(v)
  BY DEF EntriesSound
<1>6. w.player = w.of[1] \/ w.player \in Kept
  BY <1>1, <1>5 DEF EntrySound, Rewritten
<1>7. w.reason = "refund" => w.by \in Events
  BY <1>1, <1>5 DEF EntrySound, Rewritten
<1> QED
  BY <1>4, <1>6, <1>7 DEF EntrySound, Names, IdOf

LEMMA BatchKeepsLeft ==
    ASSUME RetainedInv, NEW p \in Players, Renames(p)
    PROVE  \A e : Left(e)' <=> Left(e)
<1>1. ASSUME NEW e, Left(e)' PROVE Left(e)
  <2>1. PICK w \in revocations' : w.reason = "refund" /\ w.by = e
    BY <1>1 DEF Left
  <2>2. PICK v \in revocations, a \in grants : Rewritten(p, v, a, w)
    BY RewrittenFrom
  <2> QED
    BY <2>1, <2>2 DEF Left, Rewritten
<1>2. ASSUME NEW e, Left(e) PROVE Left(e)'
  <2>1. PICK v \in revocations : v.reason = "refund" /\ v.by = e
    BY <1>2 DEF Left
  <2>2. PICK a \in grants : v.of = IdOf(a)
    BY EntryIsAbout
  <2>3. PICK w \in revocations' : Rewritten(p, v, a, w)
    BY <2>2, RewrittenBy
  <2> QED
    BY <2>1, <2>3 DEF Left, Rewritten
<1> QED
  BY <1>1, <1>2

(* A batch that renames no row leaves the handlers what they have read.    *)
LEMMA NoRowsKeepRefund ==
    ASSUME RetainedInv, RInv, NEW p \in Players, Renames(p), erasure[p].took = {},
           UNCHANGED <<call, req, event, orphans>>
    PROVE  RInv'
<1>1. grants' = grants
  BY DEF Renames
<1>2. ASSUME NEW v \in revocations
      PROVE  \E w \in revocations' : w.of = v.of /\ w.reason = v.reason /\ w.by = v.by
  <2>1. PICK a \in grants : v.of = IdOf(a)
    BY EntryIsAbout
  <2>2. PICK w \in revocations' : Rewritten(p, v, a, w)
    BY <2>1, RewrittenBy
  <2> QED
    BY <2>1, <2>2 DEF Rewritten, After
<1>3. \A e : Left(e)' <=> Left(e)
  BY BatchKeepsLeft
<1>4. \A g : Reversed(g) => Reversed(g)'
  BY <1>2 DEF Reversed, ReversedIds, RevocationsOf
<1>5. \A g : EndedBelow(g) => EndedBelow(g)'
  <2> SUFFICES ASSUME NEW g, EndedBelow(g) PROVE EndedBelow(g)'
    OBVIOUS
  <2>1. PICK h \in grants, v \in revocations :
          v.of = IdOf(h) /\ v.reason = "refund" /\ h.slot < g.slot
    BY DEF EndedBelow
  <2>2. PICK w \in revocations' : w.of = v.of /\ w.reason = v.reason
    BY <1>2
  <2> QED
    BY <1>1, <2>1, <2>2 DEF EndedBelow
<1>6. \A v : EntryEnds(v) => EntryEnds(v)'
  <2> SUFFICES ASSUME NEW v, v.reason = "refund", NEW w \in revocations, w.of = v.of
               PROVE  \E x \in revocations' : x.of = v.of
    BY DEF EntryEnds
  <2> QED
    BY <1>2
<1>7. EntriesSound'
  BY BatchKeepsEntries DEF RInv
<1>8. ASSUME NEW c \in Callers PROVE CallSound(c)'
  <2>1. CallSound(c)
    BY DEF RInv
  <2>2. \A v : EntryOf(c, v) => EntryOf(c, v)'
    BY <1>1, <1>3, EntrySoundGrows DEF EntryOf
  <2> QED
    BY <1>1, <1>6, <2>1, <2>2 DEF CallSound
<1>9. ASSUME NEW r \in Requests PROVE WriterSound(r)'
  <2>1. WriterSound(r)
    BY DEF RInv
  <2>2. \A g : Wrote(r, g) => Wrote(r, g)'
    BY <1>1, <1>4 DEF Wrote, IdOf
  <2>3. \A v : EntryEnds(v) /\ Left(v.by) => EntryEnds(v)' /\ Left(v.by)'
    BY <1>3, <1>6
  <2> QED
    BY <1>1, <2>1, <2>2, <2>3 DEF WriterSound
<1>10. \A g : Settled(g) => Settled(g)'
  <2>1. \A r \in Requests : \A g : Late(r, g) => Late(r, g)'
    BY DEF Late, IdOf
  <2> QED
    BY <1>4, <1>5, <2>1 DEF Settled
<1>11. ASSUME NEW e \in Events PROVE EventSound(e)' /\ Fence(e)'
  <2>1. EventSound(e) /\ Fence(e)
    BY DEF RInv
  <2>2. EventSound(e)'
    BY <2>1 DEF EventSound
  <2>3. Fence(e)'
    BY <1>1, <1>3, <1>10, <2>1 DEF Fence
  <2> QED
    BY <2>2, <2>3
<1> QED
  BY <1>7, <1>8, <1>9, <1>11 DEF RInv

LEMMA BatchKeepsBoth ==
    ASSUME RetainedInv, IInv, RInv, Marked, NEW p \in Players, Batch(p), ~overtaken'
    PROVE  IInv' /\ RInv'
<1>1. /\ RetainedInv' /\ UNCHANGED <<tombstones, call, requestVars>>
      /\ p \in tombstones
  <2>1. RetainedInv'
    BY BatchKeeps
  <2>2. UNCHANGED <<tombstones, call, requestVars>> /\ erasure[p].at = "batch"
    BY DEF Batch
  <2> QED
    BY <2>1, <2>2 DEF Marked
<1>2. UNCHANGED <<call, req, event, orphans>>
  BY <1>1 DEF requestVars
<1>3. CASE ~BatchCommits(p)
  <2>1. UNCHANGED <<grants, revocations>>
    BY <1>3 DEF Batch
  <2> QED
    BY <1>1, <1>2, <2>1, HandlersRest, RetainedIsTypedNext
<1>4. CASE BatchCommits(p)
  <2>1. Renames(p) /\ overtaken' = (overtaken \/ (InUse /\ erasure[p].took # {}))
    BY <1>4 DEF Batch, Renames
  <2>2. TypeOK' /\ LedgerIntegrity'
    BY <1>1, RetainedIsTypedNext
  <2>3. LedgerInv'
    BY <2>1, <2>2, BatchKeepsLedger DEF IInv
  <2>4. CallsBounded'
    BY <1>2 DEF IInv, CallsBounded
  <2>5. CASE erasure[p].took = {}
    <3>1. RInv'
      BY <1>2, <2>1, <2>5, NoRowsKeepRefund
    <3>2. grants' = grants /\ {v.of : v \in revocations} \subseteq {w.of : w \in revocations'}
      <4>1. grants' = grants
        BY <2>1, <2>5 DEF Renames
      <4>2. ASSUME NEW v \in revocations PROVE \E w \in revocations' : w.of = v.of
        <5>1. PICK a \in grants : v.of = IdOf(a)
          BY EntryIsAbout
        <5>2. PICK w \in revocations' : Rewritten(p, v, a, w)
          BY <2>1, <5>1, RewrittenBy
        <5> QED
          BY <2>5, <5>1, <5>2 DEF Rewritten, After
      <4> QED
        BY <4>1, <4>2
    <3>3. ASSUME NEW r \in Requests
          PROVE  SoundAt(r, req[r], grants', revocations', tombstones)
      <4>1. SoundAt(r, req[r], grants, revocations, tombstones)
        BY DEF IInv, RequestsSound
      <4> QED
        BY <3>2, <4>1, GrowsSame, SoundGrows
    <3>4. RequestsSound'
      BY <1>1, <1>2, <3>3 DEF RequestsSound
    <3> QED
      BY <2>2, <2>3, <2>4, <3>1, <3>4 DEF IInv
  <2>6. CASE erasure[p].took # {}
    <3>1. ~InUse
      BY <2>1, <2>6
    <3>2. \A r \in Requests : RequestPlayer[r] \notin tombstones /\ HeldBy(r, grants)
                                => HeldBy(r, grants')
      BY <1>1, <2>1, TookFacts DEF HeldBy, Renames
    <3>3. RequestsSound'
      BY <1>1, <1>2, <3>1, <3>2, UnusedKeepsRequests
    <3>4. \A h \in grants' : \E g \in grants :
             h.slot = g.slot /\ (Reversed(g) => Reversed(h)')
      BY <2>1, BeforeFacts, BatchStands DEF Stands
    <3>5. RInv'
      BY <1>2, <2>1, <3>1, <3>4, UnusedKeepsRefund, BatchKeepsEntries, BatchKeepsLeft
         DEF RInv
    <3> QED
      BY <2>2, <2>3, <2>4, <3>3, <3>5 DEF IInv
  <2> QED
    BY <2>5, <2>6
<1> QED
  BY <1>3, <1>4

(* The purge takes a first grant that is kept and that no entry names.     *)
LEMMA PurgeKeepsBoth ==
    ASSUME RetainedInv, IInv, RInv, expired \subseteq {0}, NEW g \in grants, Purge(g),
           ~overtaken'
    PROVE  IInv' /\ RInv'
<1>1. /\ IsKept(g) /\ g.slot = 0 /\ ~Reversed(g) /\ grants' = grants \ {g} /\ ~InUse
      /\ UNCHANGED <<revocations, tombstones, call, requestVars>>
  BY DEF Purge
<1>2. UNCHANGED <<call, req, event, orphans>>
  BY <1>1 DEF requestVars
<1>3. TypeOK' /\ LedgerIntegrity'
  BY PurgeKeeps, RetainedIsTypedNext
<1>4. \A h : Reversed(h)' <=> Reversed(h)
  BY <1>1 DEF Reversed, ReversedIds, RevocationsOf, IdOf
<1>5. LedgerInv'
  <2>1. IsFiniteSet(grants')
    BY <1>1, FS_RemoveElement DEF IInv, LedgerInv
  <2>2. Contiguous'
    <3>1. SharesRead' = SharesRead
      BY <1>1 DEF SharesRead
    <3> QED
      BY <3>1 DEF IInv, LedgerInv, Contiguous
  <2>3. HolderLimit'
    <3>1. Active' = Active
      BY <1>1, <1>4 DEF Active, IsKept
    <3> QED
      BY <3>1 DEF IInv, LedgerInv, HolderLimit
  <2>4. OneGrantPerPlayer'
    BY <1>1 DEF IInv, LedgerInv, OneGrantPerPlayer, IsKept
  <2> QED
    BY <1>3, <2>1, <2>2, <2>3, <2>4 DEF LedgerInv
<1>6. CallsBounded'
  BY <1>2 DEF IInv, CallsBounded
<1>7. RequestsSound'
  <2>1. \A r \in Requests : RequestPlayer[r] # g.player
    BY <1>1, RequestAssumption DEF IsKept
  <2>2. \A r \in Requests : HeldBy(r, grants) => HeldBy(r, grants')
    BY <1>1, <2>1 DEF HeldBy
  <2> QED
    BY <1>1, <1>2, <2>2, UnusedKeepsRequests
<1>8. EntriesSound'
  <2> SUFFICES ASSUME NEW v \in revocations PROVE EntrySound(v)'
    BY <1>1 DEF EntriesSound
  <2>1. EntrySound(v)
    BY DEF RInv, EntriesSound
  <2>2. PICK h \in grants : Names(v, h)
    BY <2>1 DEF EntrySound
  <2>3. h # g
    BY <1>1, <2>2, ReversedBy DEF Names
  <2>4. h \in grants' /\ Names(v, h)'
    BY <1>1, <2>2, <2>3 DEF Names, IdOf
  <2> QED
    BY <2>1, <2>4 DEF EntrySound
<1>9. \A e \in Events : Left(e)' => Left(e)
  BY <1>1 DEF Left
<1>10. \A h \in grants' : h \in grants /\ (Reversed(h) => Reversed(h)')
  BY <1>1, <1>4
<1>11. RInv'
  BY <1>1, <1>2, <1>8, <1>9, <1>10, UnusedKeepsRefund
<1> QED
  BY <1>3, <1>5, <1>6, <1>7, <1>11 DEF IInv

-----------------------------------------------------------------------------
(* The refund, beside deletions. *)

LEMMA WorkKeepsBoth ==
    ASSUME IInv, RInv, LedgerWork PROVE IInv' /\ RInv'
<1>1. Next
  BY DEF LedgerWork, Authenticate, Next
<1> QED
  BY <1>1, NextKeeps, NextRefund

(* The steps of an eraser that neither rename nor take a row.              *)
LEMMA EraserReadsKeepBoth ==
    ASSUME RetainedInv, IInv, RInv, NEW p \in Players, RetainedInv',
           \/ DeleteAccount(p) \/ AddTombstone(p) \/ ReadGrants(p)
           \/ ReadRevocations(p) \/ FinalPass(p) \/ LoseErasure(p)
    PROVE  IInv' /\ RInv'
<1>1. /\ UNCHANGED <<grants, revocations, call, req, event, orphans>>
      /\ tombstones \subseteq tombstones'
  BY DEF DeleteAccount, AddTombstone, ReadGrants, ReadRevocations, FinalPass,
         LoseErasure, vars, ledgerVars, requestVars
<1> QED
  BY <1>1, HandlersRest, RetainedIsTypedNext

LEMMA MarkedStays ==
    ASSUME RetainedInv, Marked, NextRetained PROVE Marked'
<1>1. erasure \in [Players -> Erasure]
  BY DEF RetainedInv, ErasuresOK
<1>2. CASE LedgerWork /\ UNCHANGED retainVars
  <2>1. Works
    BY <1>2, LedgerWorks DEF RetainedInv
  <2>2. tombstones' = tombstones
    BY <2>1 DEF Works, LedgerTurns, ledgerVars, TakesRow, TakesEntry
  <2> QED
    BY <1>2, <2>2 DEF Marked, retainVars
<1>3. ASSUME NEW p \in Players, DeleteAccount(p) \/ ErasureStep(p) \/ LoseErasure(p)
      PROVE  Marked'
  <2>1. /\ tombstones \subseteq tombstones'
        /\ \A q \in Players \ {p} : erasure'[q] = erasure[q]
    BY <1>1, <1>3 DEF DeleteAccount, ErasureStep, AddTombstone, ReadGrants,
       ReadRevocations, Batch, FinalPass, LoseErasure, Proceeds, vars, ledgerVars
  <2>2. erasure'[p].at \in {"grants", "revocations", "batch"} => p \in tombstones'
    <3>1. CASE DeleteAccount(p)
      BY <1>1, <3>1 DEF DeleteAccount, Proceeds, Erasure
    <3>2. CASE AddTombstone(p)
      BY <3>2 DEF AddTombstone
    <3>3. CASE ReadGrants(p) \/ ReadRevocations(p)
      BY <1>1, <2>1, <3>3 DEF ReadGrants, ReadRevocations, Marked
    <3>4. CASE Batch(p)
      BY <2>1, <3>4 DEF Batch, Marked
    <3>5. CASE FinalPass(p)
      BY <1>1, <3>5 DEF FinalPass, Erasure
    <3>6. CASE LoseErasure(p)
      BY <1>1, <3>6 DEF LoseErasure, NoErasure
    <3> QED
      BY <1>3, <3>1, <3>2, <3>3, <3>4, <3>5, <3>6 DEF ErasureStep
  <2> QED
    BY <2>1, <2>2 DEF Marked
<1>4. ASSUME NEW g \in grants, Purge(g) PROVE Marked'
  BY <1>4 DEF Purge, Marked
<1> QED
  BY <1>2, <1>3, <1>4 DEF NextRetained

LEMMA OvertakenStays ==
    ASSUME NextRetained, overtaken PROVE overtaken'
BY DEF NextRetained, retainVars, DeleteAccount, ErasureStep, LoseErasure, AddTombstone,
       ReadGrants, ReadRevocations, Batch, FinalPass, Purge

LEMMA BesideStarts == InitRetained => Beside
<1> SUFFICES ASSUME InitRetained PROVE Beside
  OBVIOUS
<1>1. Init /\ erasure = [p \in Players |-> NoErasure]
  BY DEF InitRetained
<1>2. \A g \in grants : g.slot = 0
  BY <1>1, SeedAssumption DEF Init
<1>3. expired \subseteq {0}
  BY <1>2 DEF InitRetained
<1>4. Marked
  BY <1>1 DEF Marked, NoErasure
<1> QED
  BY <1>1, <1>3, <1>4, RetainedStarts, InitHolds, InitRefund DEF Beside

LEMMA BesideStutters == Beside /\ UNCHANGED allVars => Beside'
<1> SUFFICES ASSUME Beside, UNCHANGED allVars PROVE Beside'
  OBVIOUS
<1>1. RetainedInv'
  BY RetainedStutters DEF Beside
<1>2. expired' \subseteq {0} /\ Marked'
  BY DEF Beside, Marked, allVars, retainVars, vars, ledgerVars
<1>3. overtaken' \/ (IInv' /\ RInv')
  BY StutterKeeps, StutterRefund DEF Beside, allVars, retainVars
<1> QED
  BY <1>1, <1>2, <1>3 DEF Beside

LEMMA BesideNext == Beside /\ NextRetained => Beside'
<1> SUFFICES ASSUME Beside, NextRetained PROVE Beside'
  OBVIOUS
<1>1. RetainedInv /\ RetainedInv' /\ Marked'
  BY RetainedNextKeeps, MarkedStays DEF Beside
<1>2. expired' \subseteq {0}
  BY DEF Beside, NextRetained, retainVars, DeleteAccount, ErasureStep, LoseErasure,
         AddTombstone, ReadGrants, ReadRevocations, Batch, FinalPass, Purge
<1>3. ASSUME ~overtaken' PROVE IInv' /\ RInv'
  <2>1. IInv /\ RInv
    BY <1>3, OvertakenStays DEF Beside
  <2>2. CASE LedgerWork /\ UNCHANGED retainVars
    BY <2>1, <2>2, WorkKeepsBoth
  <2>3. ASSUME NEW p \in Players, DeleteAccount(p) \/ ErasureStep(p) \/ LoseErasure(p)
        PROVE  IInv' /\ RInv'
    <3>1. CASE Batch(p)
      BY <1>1, <1>3, <2>1, <3>1, BatchKeepsBoth DEF Beside
    <3>2. CASE ~Batch(p)
      BY <1>1, <2>1, <2>3, <3>2, EraserReadsKeepBoth DEF ErasureStep
    <3> QED
      BY <3>1, <3>2
  <2>4. ASSUME NEW g \in grants, Purge(g) PROVE IInv' /\ RInv'
    BY <1>1, <1>3, <2>1, <2>4, PurgeKeepsBoth DEF Beside
  <2> QED
    BY <2>2, <2>3, <2>4 DEF NextRetained
<1> QED
  BY <1>1, <1>2, <1>3 DEF Beside

(* What handlers know of the ledger, and what a refund has ended, survives  *)
(* every deletion and every purge that overtakes no handler.               *)
THEOREM BesideHolds == SpecRetained => []Beside
<1>1. Beside /\ [NextRetained]_allVars => Beside'
  BY BesideNext, BesideStutters
<1> QED
  BY <1>1, BesideStarts, PTL DEF SpecRetained

(* An event reported revoked ends every holder and the kept record, unless  *)
(* a batch renamed, or the purge took, rows a handler was using.           *)
THEOREM RefundEndsHoldersHolds == SpecRetained => []RefundEndsHoldersUnlessOvertaken
<1>1. Beside => RefundEndsHoldersUnlessOvertaken
  BY EveryHolderEnds DEF Beside, RefundEndsHoldersUnlessOvertaken
<1> QED
  BY <1>1, BesideHolds, PTL
=============================================================================
