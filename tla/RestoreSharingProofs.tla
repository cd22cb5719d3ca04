----------------------- MODULE RestoreSharingProofs -----------------------
(***************************************************************************)
(* Proofs about RestoreSharing, for every set of players, requests, keys   *)
(* and events, every holder limit and every number of attempts.            *)
(*                                                                         *)
(* The argument rests on the slots.  The shares on the ledger are the      *)
(* slots 1..k, and a writer of slot s has read every holder of a lower     *)
(* slot.  Its insert goes through only while slot s is free, so the ledger *)
(* then holds exactly the grants it read: its count of holders, and its    *)
(* search for a grant of its own player, are current when they are used.   *)
(*                                                                         *)
(* Nothing here asks for the first grant: RetainedPurchasesProofs keeps the *)
(* invariant where account deletions rename grants and the purge takes the *)
(* first one.                                                              *)
(***************************************************************************)
EXTENDS RestoreSharing, FiniteSetTheorems, TLAPS

Slots(S) == {g.slot : g \in S}

Shares(S) == {g \in S : g.slot > 0}

(* The shares on the ledger have no gap.                                   *)
Contiguous == \E k \in Nat : Slots(SharesRead) = 1..k

(* A ledger with holders has the first grant.                              *)
Headed(G) == G = {} \/ \E g \in G : g.slot = 0

(* S holds the grants of G of the lower slots.                             *)
Lower(S, G) == S \subseteq G /\ \A h \in S, g \in G \ S : h.slot < g.slot

(* H adds to G on the slots above, and the first grant to no other.        *)
Grows(G, H) ==
    /\ G \subseteq H
    /\ \A h \in H \ G : (\A g \in G : g.slot < h.slot) /\ (G = {} => h.slot = 0)

HeldBy(r, G) == \E g \in G : g.player = RequestPlayer[r]

OwnIn(r, G) == \E g \in G : g.player = RequestPlayer[r] /\ g.key = RequestKey[r]

(* What a writer of slot s knows: it read the holders of the lower slots,  *)
(* none of them its player's, and fewer than the limit were active.        *)
MayWrite(r, q, G, V, s) ==
    /\ q.seen # {} /\ Lower(q.seen, G)
    /\ Slots(Shares(q.seen)) = 1..(s - 1)
    /\ q.gone \subseteq {v.of : v \in V}
    /\ ~HeldBy(r, q.seen)
    /\ Cardinality({g \in q.seen : IdOf(g) \notin q.gone /\ ~IsKept(g)}) < MaxHolders

(* The locals q of request r agree with the grants G, the entries V and    *)
(* the tombstones D.                                                       *)
SoundAt(r, q, G, V, D) ==
    /\ q.at \in {"first", "reversed", "wide"} => q.tries < Attempts
    /\ q.at \in {"check", "insert", "back"} =>
         \E s \in Nat, a \in BOOLEAN :
            q.mine = {Row(r, s, a)} /\ (s > 0 \/ a => q.tries < Attempts)
    /\ q.at = "evidence" => Headed(G)
    /\ q.at \in {"boundFirst", "first"} /\ q.seen = {} => Headed(G)
    /\ q.at = "first" =>
         q.seen \subseteq G /\ \E k \in Nat : Slots(q.seen) = 1..k
    /\ q.at \in {"reversed", "wide"} =>
         /\ q.seen # {} /\ Lower(q.seen, G)
         /\ \E k \in Nat : Slots(Shares(q.seen)) = 1..k
    /\ q.at = "wide" => q.gone \subseteq {v.of : v \in V}
    /\ q.at \in {"check", "insert"} =>
         \A g \in q.mine : IF g.slot > 0 THEN MayWrite(r, q, G, V, g.slot) ELSE Headed(G)
    /\ q.at \in {"replay", "keyedReversed", "reread", "ended", "prior"} => OwnIn(r, G)
    /\ q.at = "ownReversed" => HeldBy(r, G)
    /\ q.answer = "verified" /\ RequestPlayer[r] \notin D => HeldBy(r, G)

LedgerInv ==
    /\ LedgerIntegrity
    /\ IsFiniteSet(grants)
    /\ Contiguous
    /\ HolderLimit
    /\ OneGrantPerPlayer

CallsBounded ==
    \A c \in Callers :
        call[c].at \in {"first", "reversed", "record", "holderBack"} =>
            call[c].pass < FanOutPasses

RequestsSound == \A r \in Requests : SoundAt(r, req[r], grants, revocations, tombstones)

IInv == TypeOK /\ LedgerInv /\ CallsBounded /\ RequestsSound

-----------------------------------------------------------------------------
(* The helpers of the ledger. *)

(* The slot chosen is one past the shares read, when they have no gap.     *)
LEMMA NextSlotOf ==
    ASSUME NEW S \in SUBSET Grant, NEW m \in Nat, Slots(S) = 1..m
    PROVE  NextSlot(S) = m + 1
<1> DEFINE Free(n) == n \in {1} \cup {g.slot + 1 : g \in S} /\ \A g \in S : g.slot < n
<1>1. \A g \in S : g.slot \in 1..m
  BY DEF Slots
<1>2. Free(m + 1)
  <2>1. \A g \in S : g.slot < m + 1
    BY <1>1
  <2>2. m + 1 \in {1} \cup {g.slot + 1 : g \in S}
    <3>1. CASE m = 0
      BY <3>1
    <3>2. CASE m # 0
      <4>1. m \in Slots(S)
        BY <3>2
      <4>2. PICK g \in S : g.slot = m
        BY <4>1 DEF Slots
      <4> QED
        BY <4>2
    <3> QED
      BY <3>1, <3>2
  <2> QED
    BY <2>1, <2>2
<1>3. ASSUME NEW n, Free(n) PROVE n = m + 1
  <2>1. n \in Nat /\ n <= m + 1
    BY <1>1, <1>3
  <2>2. CASE m = 0
    BY <1>1, <1>3, <2>2
  <2>3. CASE m # 0
    <3>1. m \in Slots(S)
      BY <2>3
    <3>2. PICK g \in S : g.slot = m
      BY <3>1 DEF Slots
    <3> QED
      BY <1>3, <2>1, <3>2
  <2> QED
    BY <2>2, <2>3
<1> QED
  BY <1>2, <1>3 DEF NextSlot

(* A grant is reversed when an entry names it.                             *)
LEMMA ReversedBy ==
    \A g : Reversed(g) <=> \E v \in revocations : v.of = IdOf(g)
BY DEF Reversed, ReversedIds, RevocationsOf

LEMMA ReversedIdsAreNamed ==
    \A S : ReversedIds(S) \subseteq {v.of : v \in revocations}
BY DEF ReversedIds, RevocationsOf

(* Rows are grants, and ids of grants are ids.                             *)
LEMMA RowIsGrant ==
    ASSUME NEW r \in Requests, NEW s \in Nat, NEW a \in BOOLEAN
    PROVE  /\ Row(r, s, a) \in Grant
           /\ Row(r, s, a).player = RequestPlayer[r]
           /\ Row(r, s, a).key = RequestKey[r]
           /\ Row(r, s, a).slot = s
           /\ Row(r, s, a).across = a
BY RequestAssumption DEF Row, Grant, Owners

LEMMA IdOfGrant ==
    ASSUME NEW g \in Grant
    PROVE  IdOf(g) \in Ids
BY DEF IdOf, Ids, Grant

LEMMA HeadedGrows ==
    ASSUME NEW G, NEW H, Grows(G, H), Headed(G)
    PROVE  Headed(H)
<1>1. CASE G = {}
  BY <1>1 DEF Grows, Headed
<1>2. CASE G # {}
  BY <1>2 DEF Grows, Headed
<1> QED
  BY <1>1, <1>2

LEMMA LowerGrows ==
    ASSUME NEW G, NEW H, Grows(G, H), NEW S, Lower(S, G)
    PROVE  Lower(S, H)
BY DEF Grows, Lower

(* What a request knows stays true while the ledger grows on top.          *)
LEMMA SoundGrows ==
    ASSUME NEW r \in Requests, NEW q, NEW G, NEW H, NEW V, NEW W, NEW D, NEW E,
           Grows(G, H), {v.of : v \in V} \subseteq {v.of : v \in W}, D \subseteq E,
           SoundAt(r, q, G, V, D)
    PROVE  SoundAt(r, q, H, W, E)
<1>1. Headed(G) => Headed(H)
  BY HeadedGrows
<1>2. HeldBy(r, G) => HeldBy(r, H)
  BY DEF HeldBy, Grows
<1>3. OwnIn(r, G) => OwnIn(r, H)
  BY DEF OwnIn, Grows
<1>4. G \subseteq H /\ (Lower(q.seen, G) => Lower(q.seen, H))
  BY LowerGrows DEF Grows
<1>5. \A s : MayWrite(r, q, G, V, s) => MayWrite(r, q, H, W, s)
  BY <1>4 DEF MayWrite
<1> QED
  BY <1>1, <1>2, <1>3, <1>4, <1>5 DEF SoundAt

LEMMA GrowsSame == \A G : Grows(G, G)
BY DEF Grows

-----------------------------------------------------------------------------
(* Steps that leave the ledger alone. *)

LEMMA LedgerStays ==
    ASSUME LedgerTypeOK, LedgerInv, UNCHANGED ledgerVars
    PROVE  LedgerTypeOK' /\ LedgerInv'
<1>1. grants' = grants /\ revocations' = revocations /\ tombstones' = tombstones
  BY DEF ledgerVars
<1>2. LedgerTypeOK'
  BY <1>1 DEF LedgerTypeOK
<1>3. LedgerIntegrity'
  BY <1>1 DEF LedgerInv, LedgerIntegrity, IdsOf
<1>4. Contiguous'
  BY <1>1 DEF LedgerInv, Contiguous, SharesRead
<1>5. Active' = Active
  BY <1>1 DEF Active, Reversed, ReversedIds, RevocationsOf
<1>6. HolderLimit'
  BY <1>5 DEF LedgerInv, HolderLimit
<1>7. OneGrantPerPlayer'
  BY <1>1 DEF LedgerInv, OneGrantPerPlayer
<1> QED
  BY <1>1, <1>2, <1>3, <1>4, <1>6, <1>7 DEF LedgerInv

(* A request whose new locals agree with the ledger, which may have grown.  *)
LEMMA RequestMovesOn ==
    ASSUME IInv, NEW r \in Requests, NEW q \in Request,
           SoundAt(r, q, grants, revocations, tombstones),
           req' = [req EXCEPT ![r] = q],
           grants' = grants \/ Grows(grants, grants'), revocations \subseteq revocations',
           tombstones' = tombstones
    PROVE  (req \in [Requests -> Request])' /\ RequestsSound'
<1>1. req \in [Requests -> Request]
  BY DEF IInv, TypeOK
<1>2. \A x \in Requests : req'[x] = IF x = r THEN q ELSE req[x]
  BY <1>1
<1>3. \A x \in Requests : SoundAt(x, req'[x], grants, revocations, tombstones)
  BY <1>2 DEF IInv, RequestsSound
<1>4. \A x \in Requests : SoundAt(x, req'[x], grants', revocations', tombstones')
  <2>1. Grows(grants, grants') /\ {v.of : v \in revocations} \subseteq {v.of : v \in revocations'}
    BY GrowsSame
  <2> QED
    BY <1>3, <2>1, SoundGrows
<1> QED
  BY <1>1, <1>4 DEF RequestsSound

LEMMA RequestAlone ==
    ASSUME IInv, NEW r \in Requests, NEW q \in Request,
           SoundAt(r, q, grants, revocations, tombstones),
           req' = [req EXCEPT ![r] = q], OnlyRequest
    PROVE  IInv'
<1>1. UNCHANGED ledgerVars
  BY DEF OnlyRequest
<1>2. (req \in [Requests -> Request])' /\ RequestsSound'
  BY <1>1, RequestMovesOn DEF ledgerVars
<1>3. LedgerTypeOK' /\ LedgerInv'
  BY <1>1, LedgerStays DEF IInv, TypeOK
<1>4. CallTypeOK' /\ CallsBounded'
  BY DEF IInv, TypeOK, OnlyRequest, CallTypeOK, CallsBounded
<1> QED
  BY <1>2, <1>3, <1>4 DEF IInv, TypeOK, OnlyRequest

(* The answers: only "verified" promises something.                        *)
LEMMA AnsweredIsSound ==
    ASSUME NEW r \in Requests, NEW a \in Answers,
           a = "verified" => HeldBy(r, grants)
    PROVE  /\ Blank("done", a) \in Request
           /\ SoundAt(r, Blank("done", a), grants, revocations, tombstones)
<1>1. "done" \in RequestSteps /\ 0 \in 0..Attempts
  BY RequestAssumption DEF RequestSteps
<1>2. Blank("done", a) \in Request
  BY <1>1 DEF Blank, Request
<1>3. Blank("done", a).at = "done" /\ Blank("done", a).answer = a
  BY DEF Blank
<1> QED
  BY <1>2, <1>3 DEF SoundAt

LEMMA AnswerAlone ==
    ASSUME IInv, NEW r \in Requests, NEW a \in Answers,
           a = "verified" => HeldBy(r, grants), Answer(r, a), OnlyRequest
    PROVE  IInv'
BY AnsweredIsSound, RequestAlone DEF Answer

(* A step that only moves the request on.                                  *)
At(r, step) == [req[r] EXCEPT !.at = step]

LEMMA AtIsTyped ==
    ASSUME IInv, NEW r \in Requests, NEW step \in RequestSteps
    PROVE  /\ At(r, step) \in Request
           /\ At(r, step).at = step
           /\ At(r, step).seen = req[r].seen
           /\ At(r, step).gone = req[r].gone
           /\ At(r, step).mine = req[r].mine
           /\ At(r, step).tries = req[r].tries
           /\ At(r, step).answer = req[r].answer
BY DEF IInv, TypeOK, At, Request

LEMMA GoesAlone ==
    ASSUME IInv, NEW r \in Requests, NEW step \in RequestSteps,
           SoundAt(r, At(r, step), grants, revocations, tombstones),
           Goes(r, step), OnlyRequest
    PROVE  IInv'
<1>1. req' = [req EXCEPT ![r] = At(r, step)]
  BY DEF Goes, At
<1> QED
  BY <1>1, AtIsTyped, RequestAlone

(* Moves to a step at which nothing is promised.                           *)
LEMMA GoesFreely ==
    ASSUME IInv, NEW r \in Requests,
           NEW step \in {"lookup", "verify", "raced", "boundShares", "other",
                         "shares", "keyed"},
           Goes(r, step), OnlyRequest
    PROVE  IInv'
<1>1. step \in RequestSteps
  BY DEF RequestSteps
<1>2. SoundAt(r, req[r], grants, revocations, tombstones)
  BY DEF IInv, RequestsSound
<1>3. /\ At(r, step).at = step
      /\ At(r, step).answer = req[r].answer
  BY <1>1, AtIsTyped
<1>4. SoundAt(r, At(r, step), grants, revocations, tombstones)
  BY <1>2, <1>3 DEF SoundAt
<1> QED
  BY <1>1, <1>4, GoesAlone

(* What IInv says of one request. *)
LEMMA RequestFacts ==
    ASSUME IInv, NEW r \in Requests
    PROVE  /\ req[r] \in Request
           /\ SoundAt(r, req[r], grants, revocations, tombstones)
           /\ grants \subseteq Grant /\ revocations \subseteq Revocation
BY DEF IInv, TypeOK, LedgerTypeOK, RequestsSound

(* The row under a request's key is its player's.                          *)
LEMMA OwnIsHeld ==
    ASSUME NEW r \in Requests
    PROVE  /\ Own(r) # {} <=> OwnIn(r, grants)
           /\ OwnIn(r, grants) => HeldBy(r, grants)
BY DEF Own, ByKey, OwnIn, HeldBy

LEMMA SendKeeps ==
    ASSUME IInv, NEW r \in Requests, Send(r) PROVE IInv'
BY GoesFreely DEF Send

LEMMA LookupKeeps ==
    ASSUME IInv, NEW r \in Requests, Lookup(r) PROVE IInv'
<1>1. CASE Own(r) # {}
  <2>1. Goes(r, "replay") /\ OnlyRequest /\ OwnIn(r, grants)
    BY <1>1, OwnIsHeld DEF Lookup
  <2>2. "replay" \in RequestSteps
    BY DEF RequestSteps
  <2>3. /\ At(r, "replay").at = "replay"
        /\ At(r, "replay").answer = req[r].answer
    BY <2>2, AtIsTyped
  <2>4. SoundAt(r, At(r, "replay"), grants, revocations, tombstones)
    BY <2>1, <2>3, RequestFacts DEF SoundAt
  <2> QED
    BY <2>1, <2>2, <2>4, GoesAlone
<1>2. CASE Own(r) = {} /\ req[r].at = "lookup"
  BY <1>2, GoesFreely DEF Lookup
<1>3. CASE Own(r) = {} /\ req[r].at # "lookup"
  BY <1>3, AnswerAlone DEF Lookup, Answers
<1> QED
  BY <1>1, <1>2, <1>3

LEMMA ReplayKeeps ==
    ASSUME IInv, NEW r \in Requests, Replay(r) PROVE IInv'
<1>1. HeldBy(r, grants)
  BY RequestFacts, OwnIsHeld DEF Replay, SoundAt
<1>2. PICK a \in {"rejected", "verified"} : Answer(r, a) /\ OnlyRequest
  BY DEF Replay
<1> QED
  BY <1>1, <1>2, AnswerAlone DEF Answers

LEMMA VerifyKeeps ==
    ASSUME IInv, NEW r \in Requests, Verify(r) PROVE IInv'
<1>1. PICK step \in {"raced", "boundShares", "shares"} : Goes(r, step) /\ OnlyRequest
  BY DEF Verify
<1> QED
  BY <1>1, GoesFreely

(* A step of r that sets its locals to q.                                  *)
LEMMA ReadAlone ==
    ASSUME IInv, NEW r \in Requests, NEW q \in Request,
           q.at \in RequestSteps \ {"replay", "keyedReversed", "reread", "ended",
                                    "prior", "ownReversed"},
           q.answer = req[r].answer,
           q.at \in {"first", "reversed", "wide"} => q.tries < Attempts,
           q.at = "evidence" => Headed(grants),
           q.at \in {"boundFirst", "first"} /\ q.seen = {} => Headed(grants),
           q.at = "first" => q.seen \subseteq grants /\ \E k \in Nat : Slots(q.seen) = 1..k,
           q.at \in {"reversed", "wide"} =>
               /\ q.seen # {} /\ Lower(q.seen, grants)
               /\ \E k \in Nat : Slots(Shares(q.seen)) = 1..k,
           q.at = "wide" => q.gone \subseteq {v.of : v \in revocations},
           q.at \in {"check", "insert", "back"} =>
               \E s \in Nat, a \in BOOLEAN :
                  q.mine = {Row(r, s, a)} /\ (s > 0 \/ a => q.tries < Attempts),
           q.at \in {"check", "insert"} =>
               \A g \in q.mine : IF g.slot > 0
                                THEN MayWrite(r, q, grants, revocations, g.slot)
                                ELSE Headed(grants),
           req' = [req EXCEPT ![r] = q], OnlyRequest
    PROVE  IInv'
<1>1. SoundAt(r, q, grants, revocations, tombstones)
  BY RequestFacts DEF SoundAt
<1> QED
  BY <1>1, RequestAlone

(* No share: at most the first grant.                                      *)
LEMMA NoShareIsHeaded ==
    ASSUME grants \subseteq Grant, SharesRead = {}
    PROVE  Headed(grants)
<1>1. \A g \in grants : g.slot \in Nat /\ ~(g.slot > 0)
  BY DEF SharesRead, Grant
<1> QED
  BY <1>1 DEF Headed

LEMMA BoundReadSharesKeeps ==
    ASSUME IInv, NEW r \in Requests, BoundReadShares(r) PROVE IInv'
<1> DEFINE q == [req[r] EXCEPT !.at = "boundFirst", !.seen = SharesRead]
<1>1. req[r] \in Request /\ SharesRead \subseteq Grant /\ grants \subseteq Grant
  BY RequestFacts DEF SharesRead
<1>2. /\ q \in Request /\ q.at = "boundFirst" /\ q.answer = req[r].answer
      /\ q.seen = SharesRead
  BY <1>1 DEF Request, RequestSteps
<1>3. req' = [req EXCEPT ![r] = q] /\ OnlyRequest
  BY DEF BoundReadShares
<1> HIDE DEF q
<1>4. q.at \in RequestSteps
  BY <1>2 DEF RequestSteps
<1>5. q.seen = {} => Headed(grants)
  BY <1>1, <1>2, NoShareIsHeaded
<1> QED
  BY <1>2, <1>3, <1>4, <1>5, ReadAlone

(* The first grant is looked for on a ledger that has it, or has no holder. *)
LEMMA BoundReadFirstKeeps ==
    ASSUME IInv, NEW r \in Requests, BoundReadFirst(r) PROVE IInv'
<1>1. OnlyRequest
  BY DEF BoundReadFirst
<1>2. CASE Goes(r, "shares")
  BY <1>1, <1>2, GoesFreely
<1>3. CASE Goes(r, "evidence") /\ ~(FirstRead = {} /\ req[r].seen # {})
  <2>1. Headed(grants)
    <3>1. CASE FirstRead # {}
      BY <3>1 DEF FirstRead, Headed
    <3>2. CASE req[r].seen = {}
      BY <3>2, RequestFacts DEF SoundAt, BoundReadFirst
    <3> QED
      BY <1>3, <3>1, <3>2
  <2>2. "evidence" \in RequestSteps
    BY DEF RequestSteps
  <2>3. /\ At(r, "evidence").at = "evidence"
        /\ At(r, "evidence").answer = req[r].answer
    BY <2>2, AtIsTyped
  <2>4. SoundAt(r, At(r, "evidence"), grants, revocations, tombstones)
    BY <2>1, <2>3, RequestFacts DEF SoundAt
  <2> QED
    BY <1>1, <1>3, <2>2, <2>4, GoesAlone
<1> QED
  BY <1>2, <1>3 DEF BoundReadFirst

LEMMA BoundEvidenceKeeps ==
    ASSUME IInv, NEW r \in Requests, BoundEvidence(r) PROVE IInv'
<1>1. PICK step \in {"check", "keyed", "other"} :
        /\ req' = [req EXCEPT ![r].mine = {Row(r, 0, FALSE)}, ![r].at = step]
        /\ OnlyRequest
  BY DEF BoundEvidence
<1> DEFINE q == [req[r] EXCEPT !.mine = {Row(r, 0, FALSE)}, !.at = step]
<1>2. Row(r, 0, FALSE) \in Grant /\ Row(r, 0, FALSE).slot = 0
  <2>1. 0 \in Nat /\ FALSE \in BOOLEAN
    OBVIOUS
  <2> QED
    BY <2>1, RowIsGrant, Zenon
<1>3. req[r] \in Request
  BY RequestFacts
<1>4. /\ q \in Request /\ q.at = step /\ q.answer = req[r].answer
      /\ q.mine = {Row(r, 0, FALSE)}
  BY <1>2, <1>3 DEF Request, RequestSteps
<1>5. req' = [req EXCEPT ![r] = q]
  BY <1>1
<1> HIDE DEF q
<1>6. q.at \in RequestSteps
  BY <1>4 DEF RequestSteps
<1>7. q.mine = {Row(r, 0, FALSE)} /\ (0 > 0 \/ FALSE => q.tries < Attempts)
  BY <1>4
<1>8. \E s \in Nat, a \in BOOLEAN :
         q.mine = {Row(r, s, a)} /\ (s > 0 \/ a => q.tries < Attempts)
  BY <1>7
<1>9. \A g \in q.mine : ~(g.slot > 0)
  <2>1. \A g \in q.mine : g.slot = 0
    BY <1>2, <1>4
  <2> QED
    BY <2>1
<1>10. Headed(grants)
  BY RequestFacts DEF SoundAt, BoundEvidence
<1> QED
  BY <1>1, <1>4, <1>5, <1>6, <1>8, <1>9, <1>10, ReadAlone

LEMMA BoundOtherKeeps ==
    ASSUME IInv, NEW r \in Requests, BoundOther(r) PROVE IInv'
<1>1. CASE Answer(r, "refused") /\ OnlyRequest
  BY <1>1, AnswerAlone DEF Answers
<1>2. CASE Goes(r, "shares") /\ OnlyRequest
  BY <1>2, GoesFreely
<1>3. ASSUME NEW g \in FirstRead, g.player = RequestPlayer[r], OnlyRequest,
             req' = [req EXCEPT ![r].at = "ownReversed", ![r].mine = {g}]
      PROVE  IInv'
  <2> DEFINE q == [req[r] EXCEPT !.at = "ownReversed", !.mine = {g}]
  <2>1. g \in grants /\ g \in Grant /\ req[r] \in Request
    BY RequestFacts DEF FirstRead
  <2>2. q \in Request /\ q.at = "ownReversed" /\ q.answer = req[r].answer
    BY <2>1 DEF Request, RequestSteps
  <2>3. req' = [req EXCEPT ![r] = q]
    BY <1>3
  <2> HIDE DEF q
  <2>4. HeldBy(r, grants)
    BY <1>3, <2>1 DEF HeldBy
  <2>5. SoundAt(r, q, grants, revocations, tombstones)
    BY <2>2, <2>4 DEF SoundAt
  <2> QED
    BY <1>3, <2>2, <2>3, <2>5, RequestAlone
<1> QED
  BY <1>1, <1>2, <1>3 DEF BoundOther

LEMMA BoundOwnReversedKeeps ==
    ASSUME IInv, NEW r \in Requests, BoundOwnReversed(r) PROVE IInv'
<1>1. HeldBy(r, grants)
  BY RequestFacts DEF BoundOwnReversed, SoundAt
<1>2. PICK a \in {"rejected", "verified", "refused"} : Answer(r, a) /\ OnlyRequest
  BY DEF BoundOwnReversed
<1> QED
  BY <1>1, <1>2, AnswerAlone DEF Answers

-----------------------------------------------------------------------------
(* shareRestoredPurchase's reads. *)

(* Shares read earlier and the first grant read now are the grants of the  *)
(* lower slots.                                                            *)
LEMMA HoldersAreLower ==
    ASSUME grants \subseteq Grant, LedgerIntegrity, NEW S, S \subseteq grants,
           NEW k \in Nat, Slots(S) = 1..k
    PROVE  /\ Lower(S \cup FirstRead, grants)
           /\ Slots(Shares(S \cup FirstRead)) = 1..k
<1>1. \A g \in S : g.slot \in 1..k
  BY DEF Slots
<1>2. Shares(S \cup FirstRead) = S
  BY <1>1 DEF Shares, FirstRead
<1>3. S \cup FirstRead \subseteq grants
  BY DEF FirstRead
<1>4. ASSUME NEW h \in S \cup FirstRead, NEW g \in grants \ (S \cup FirstRead)
      PROVE  h.slot < g.slot
  <2>1. g.slot \in Nat /\ g.slot # 0
    BY DEF FirstRead, Grant
  <2>2. g.slot \notin 1..k
    <3> SUFFICES ASSUME g.slot \in 1..k PROVE FALSE
      OBVIOUS
    <3>1. PICK x \in S : x.slot = g.slot
      BY DEF Slots
    <3> QED
      BY <3>1 DEF LedgerIntegrity
  <2>3. h.slot \in 0..k
    BY <1>1 DEF FirstRead
  <2> QED
    BY <2>1, <2>2, <2>3
<1> QED
  BY <1>2, <1>3, <1>4 DEF Lower

LEMMA ShareReadSharesKeeps ==
    ASSUME IInv, NEW r \in Requests, ShareReadShares(r) PROVE IInv'
<1>1. CASE req[r].tries = Attempts
  BY <1>1, AnswerAlone DEF ShareReadShares, Answers
<1>2. CASE req[r].tries # Attempts
  <2> DEFINE q == [req[r] EXCEPT !.at = "first", !.seen = SharesRead]
  <2>1. /\ req[r] \in Request /\ SharesRead \subseteq Grant
        /\ grants \subseteq Grant /\ SharesRead \subseteq grants
    BY RequestFacts DEF SharesRead
  <2>2. /\ q \in Request /\ q.at = "first" /\ q.answer = req[r].answer
        /\ q.seen = SharesRead /\ q.tries = req[r].tries
    BY <2>1 DEF Request, RequestSteps
  <2>3. req' = [req EXCEPT ![r] = q] /\ OnlyRequest
    BY <1>2 DEF ShareReadShares
  <2>4. req[r].tries < Attempts
    BY <1>2, <2>1, RequestAssumption DEF Request
  <2>5. \E k \in Nat : Slots(SharesRead) = 1..k
    BY DEF IInv, LedgerInv, Contiguous
  <2>6. SharesRead = {} => Headed(grants)
    BY <2>1, NoShareIsHeaded
  <2> HIDE DEF q
  <2>7. q.at \in RequestSteps
    BY <2>2 DEF RequestSteps
  <2> QED
    BY <2>1, <2>2, <2>3, <2>4, <2>5, <2>6, <2>7, ReadAlone
<1> QED
  BY <1>1, <1>2

LEMMA ShareReadFirstKeeps ==
    ASSUME IInv, NEW r \in Requests, ShareReadFirst(r) PROVE IInv'
<1> DEFINE holders == req[r].seen \cup FirstRead
<1>1. /\ req[r] \in Request /\ grants \subseteq Grant
      /\ req[r].seen \subseteq grants /\ req[r].tries < Attempts
      /\ req[r].seen = {} => Headed(grants)
  BY RequestFacts DEF ShareReadFirst, SoundAt
<1>2. PICK k \in Nat : Slots(req[r].seen) = 1..k
  BY RequestFacts DEF ShareReadFirst, SoundAt
<1>3. FirstRead \subseteq grants /\ holders \subseteq grants
  BY <1>1 DEF FirstRead
<1>4. OnlyRequest
  BY DEF ShareReadFirst
<1>5. CASE holders = {}
  <2> DEFINE q == [req[r] EXCEPT !.seen = holders, !.at = "check",
                                 !.mine = {Row(r, 0, TRUE)}]
  <2>1. Row(r, 0, TRUE) \in Grant /\ Row(r, 0, TRUE).slot = 0
    <3>1. 0 \in Nat /\ TRUE \in BOOLEAN
      OBVIOUS
    <3> QED
      BY <3>1, RowIsGrant, Zenon
  <2>2. /\ q \in Request /\ q.at = "check" /\ q.answer = req[r].answer
        /\ q.mine = {Row(r, 0, TRUE)} /\ q.tries = req[r].tries
    BY <1>1, <1>3, <2>1 DEF Request, RequestSteps
  <2>3. req' = [req EXCEPT ![r] = q]
    BY <1>5 DEF ShareReadFirst
  <2> HIDE DEF q
  <2>4. q.at \in RequestSteps
    BY <2>2 DEF RequestSteps
  <2>5. \E s \in Nat, a \in BOOLEAN :
           q.mine = {Row(r, s, a)} /\ (s > 0 \/ a => q.tries < Attempts)
    BY <1>1, <2>2
  <2>6. \A g \in q.mine : ~(g.slot > 0)
    <3>1. \A g \in q.mine : g.slot = 0
      BY <2>1, <2>2
    <3> QED
      BY <3>1
  <2>7. Headed(grants)
    BY <1>1, <1>5
  <2> QED
    BY <1>4, <2>2, <2>3, <2>4, <2>5, <2>6, <2>7, ReadAlone
<1>6. CASE holders # {}
  <2> DEFINE q == [req[r] EXCEPT !.seen = holders, !.at = "reversed", !.mine = {}]
  <2>1. /\ q \in Request /\ q.at = "reversed" /\ q.answer = req[r].answer
        /\ q.seen = holders /\ q.tries = req[r].tries
    BY <1>1, <1>3 DEF Request, RequestSteps
  <2>2. req' = [req EXCEPT ![r] = q]
    BY <1>6 DEF ShareReadFirst
  <2>3. Lower(holders, grants) /\ Slots(Shares(holders)) = 1..k
    BY <1>1, <1>2, HoldersAreLower DEF IInv, LedgerInv
  <2> HIDE DEF q, holders
  <2>4. q.at \in RequestSteps
    BY <2>1 DEF RequestSteps
  <2>5. /\ q.seen # {} /\ Lower(q.seen, grants)
        /\ \E n \in Nat : Slots(Shares(q.seen)) = 1..n
    BY <1>6, <2>1, <2>3
  <2> QED
    BY <1>1, <1>4, <2>1, <2>2, <2>4, <2>5, ReadAlone
<1> QED
  BY <1>5, <1>6

LEMMA ShareReadReversedKeeps ==
    ASSUME IInv, NEW r \in Requests, ShareReadReversed(r) PROVE IInv'
<1> DEFINE gone == ReversedIds(IdsOf(req[r].seen))
           q == [req[r] EXCEPT !.at = "wide", !.gone = gone]
<1>1. /\ req[r] \in Request /\ revocations \subseteq Revocation
      /\ req[r].seen # {} /\ Lower(req[r].seen, grants) /\ req[r].tries < Attempts
      /\ \E k \in Nat : Slots(Shares(req[r].seen)) = 1..k
  BY RequestFacts DEF ShareReadReversed, SoundAt
<1>2. gone \subseteq {v.of : v \in revocations}
  BY ReversedIdsAreNamed
<1>3. \A v \in revocations : v.of \in Ids
  BY <1>1 DEF Revocation
<1>4. gone \subseteq Ids
  BY <1>2, <1>3
<1> HIDE DEF gone
<1>5. /\ q \in Request /\ q.at = "wide" /\ q.answer = req[r].answer
      /\ q.seen = req[r].seen /\ q.gone = gone /\ q.tries = req[r].tries
  BY <1>1, <1>4 DEF Request, RequestSteps
<1>6. req' = [req EXCEPT ![r] = q] /\ OnlyRequest
  BY DEF ShareReadReversed, gone
<1> HIDE DEF q
<1>7. q.at \in RequestSteps
  BY <1>5 DEF RequestSteps
<1> QED
  BY <1>1, <1>2, <1>5, <1>6, <1>7, ReadAlone

(* The decision writes at the slot past the holders it read, for a player  *)
(* that is none of them, while fewer than the limit are active.            *)
LEMMA ShareDecideKeeps ==
    ASSUME IInv, NEW r \in Requests, ShareDecide(r) PROVE IInv'
<1> DEFINE holders == req[r].seen
           gone == req[r].gone
           own == {g \in holders : g.player = RequestPlayer[r]}
           active == {g \in holders : IdOf(g) \notin gone /\ ~IsKept(g)}
           shares == {g \in holders : g.slot > 0}
           slot == NextSlot(shares)
<1>1. /\ req[r] \in Request /\ grants \subseteq Grant
      /\ holders # {} /\ Lower(holders, grants) /\ req[r].tries < Attempts
      /\ holders \subseteq grants
      /\ gone \subseteq {v.of : v \in revocations}
  BY RequestFacts DEF ShareDecide, SoundAt, Lower
<1>2. PICK k \in Nat : Slots(Shares(holders)) = 1..k
  BY RequestFacts DEF ShareDecide, SoundAt
<1>3. OnlyRequest
  BY DEF ShareDecide
<1>4. ASSUME NEW a \in {"rejected", "pending"}, Answer(r, a) PROVE IInv'
  BY <1>3, <1>4, AnswerAlone DEF Answers
<1>5. ASSUME own # {}, NEW a \in {"rejected", "verified"}, Answer(r, a) PROVE IInv'
  <2>1. HeldBy(r, grants)
    BY <1>1, <1>5 DEF HeldBy
  <2> QED
    BY <1>3, <1>5, <2>1, AnswerAlone DEF Answers
<1>6. ASSUME own = {}, ~(Cardinality(active) >= MaxHolders),
             req' = [req EXCEPT ![r].at = "check", ![r].mine = {Row(r, slot, FALSE)}]
      PROVE  IInv'
  <2>1. Slots(shares) = 1..k
    BY <1>2 DEF Shares
  <2>2. slot = k + 1
    <3>1. shares \in SUBSET Grant
      BY <1>1
    <3> QED
      BY <2>1, <3>1, NextSlotOf
  <2> DEFINE q == [req[r] EXCEPT !.at = "check", !.mine = {Row(r, k + 1, FALSE)}]
  <2>3. Row(r, k + 1, FALSE) \in Grant /\ Row(r, k + 1, FALSE).slot = k + 1
    <3>1. k + 1 \in Nat /\ FALSE \in BOOLEAN
      OBVIOUS
    <3> QED
      BY <3>1, RowIsGrant, Zenon
  <2>4. /\ q \in Request /\ q.at = "check" /\ q.answer = req[r].answer
        /\ q.mine = {Row(r, k + 1, FALSE)} /\ q.tries = req[r].tries
        /\ q.seen = holders /\ q.gone = gone
    BY <1>1, <2>3 DEF Request, RequestSteps
  <2>5. req' = [req EXCEPT ![r] = q]
    BY <1>6, <2>2
  <2> HIDE DEF q
  <2>6. Cardinality({g \in q.seen : IdOf(g) \notin q.gone /\ ~IsKept(g)}) < MaxHolders
    <3>1. IsFiniteSet(active)
      <4>1. IsFiniteSet(grants) /\ active \subseteq grants
        BY <1>1 DEF IInv, LedgerInv
      <4> QED
        BY <4>1, FS_Subset
    <3>2. Cardinality(active) \in Nat
      BY <3>1, FS_CardinalityType
    <3>3. Cardinality(active) < MaxHolders
      BY <1>6, <3>2, RequestAssumption
    <3> QED
      BY <2>4, <3>3
  <2>7. MayWrite(r, q, grants, revocations, k + 1)
    <3>1. ~HeldBy(r, q.seen)
      BY <1>6, <2>4 DEF HeldBy
    <3>2. Slots(Shares(q.seen)) = 1..((k + 1) - 1)
      BY <1>2, <2>4
    <3> QED
      BY <1>1, <2>4, <2>6, <3>1, <3>2 DEF MayWrite
  <2>8. \A g \in q.mine : g.slot > 0 /\ MayWrite(r, q, grants, revocations, g.slot)
    <3>1. k + 1 > 0
      OBVIOUS
    <3>2. \A g \in q.mine : g.slot = k + 1
      BY <2>3, <2>4, Zenon
    <3> QED
      BY <2>7, <3>1, <3>2, Zenon
  <2>9. \E s \in Nat, a \in BOOLEAN :
           q.mine = {Row(r, s, a)} /\ (s > 0 \/ a => q.tries < Attempts)
    <3>1. k + 1 \in Nat /\ FALSE \in BOOLEAN /\ q.tries < Attempts
      BY <1>1, <2>4
    <3> QED
      BY <2>4, <3>1, Zenon
  <2>10. q.at \in RequestSteps
    BY <2>4 DEF RequestSteps
  <2> QED
    BY <1>3, <2>4, <2>5, <2>8, <2>9, <2>10, ReadAlone
<1> QED
  BY <1>4, <1>5, <1>6 DEF ShareDecide

-----------------------------------------------------------------------------
(* recordEntitlementGrant. *)

LEMMA CheckTombstoneKeeps ==
    ASSUME IInv, NEW r \in Requests, CheckTombstone(r) PROVE IInv'
<1>1. CASE RequestPlayer[r] \in tombstones
  BY <1>1, AnswerAlone DEF CheckTombstone, Answers
<1>2. CASE RequestPlayer[r] \notin tombstones
  <2> DEFINE q == At(r, "insert")
  <2>1. "insert" \in RequestSteps
    BY DEF RequestSteps
  <2>2. /\ q \in Request /\ q.at = "insert" /\ q.answer = req[r].answer
        /\ q.mine = req[r].mine /\ q.tries = req[r].tries
        /\ q.seen = req[r].seen /\ q.gone = req[r].gone
    BY <2>1, AtIsTyped
  <2>3. Goes(r, "insert") /\ OnlyRequest
    BY <1>2 DEF CheckTombstone
  <2> HIDE DEF q
  <2>4. \A s : MayWrite(r, req[r], grants, revocations, s)
                 => MayWrite(r, q, grants, revocations, s)
    BY <2>2 DEF MayWrite
  <2>5. req[r].at = "check" /\ SoundAt(r, req[r], grants, revocations, tombstones)
    BY RequestFacts DEF CheckTombstone
  <2>6. SoundAt(r, q, grants, revocations, tombstones)
    BY <2>2, <2>4, <2>5 DEF SoundAt
  <2> USE DEF q
  <2> QED
    BY <2>1, <2>3, <2>6, GoesAlone
<1> QED
  BY <1>1, <1>2

(* A share goes in only on the holders its writer read; a first grant only *)
(* on an empty ledger.                                                     *)
LEMMA InsertFinds ==
    ASSUME IInv, NEW r \in Requests, req[r].at = "insert",
           NEW g \in req[r].mine, GrantInserts(g)
    PROVE  \/ g.slot > 0 /\ grants = req[r].seen
                         /\ MayWrite(r, req[r], grants, revocations, g.slot)
           \/ g.slot = 0 /\ grants = {}
<1>1. /\ SoundAt(r, req[r], grants, revocations, tombstones)
      /\ grants \subseteq Grant
  BY RequestFacts
<1>2. PICK s \in Nat, a \in BOOLEAN : req[r].mine = {Row(r, s, a)}
  BY <1>1 DEF SoundAt
<1>3. g.slot = s /\ g.slot \in Nat
  BY <1>2, RowIsGrant
<1>4. \A h \in grants : h.slot # g.slot
  BY DEF GrantInserts, AtSlot
<1>5. CASE g.slot > 0
  <2>1. MayWrite(r, req[r], grants, revocations, g.slot)
    BY <1>1, <1>5 DEF SoundAt
  <2>2. /\ req[r].seen # {} /\ Lower(req[r].seen, grants)
        /\ Slots(Shares(req[r].seen)) = 1..(g.slot - 1)
    BY <2>1 DEF MayWrite
  <2>3. PICK k \in Nat : Slots(SharesRead) = 1..k
    BY DEF IInv, LedgerInv, Contiguous
  <2>4. g.slot > k
    <3>1. g.slot \notin Slots(SharesRead)
      BY <1>4 DEF Slots, SharesRead
    <3> QED
      BY <1>3, <1>5, <2>3, <3>1
  <2>5. ASSUME NEW h \in grants PROVE h \in req[r].seen
    <3>1. h.slot \in Nat
      BY <1>1 DEF Grant
    <3>2. PICK x \in req[r].seen : x \in grants /\ x.slot \in Nat
      BY <1>1, <2>2 DEF Lower, Grant
    <3>3. CASE h.slot = 0
      BY <2>2, <3>2, <3>3 DEF Lower
    <3>4. CASE h.slot > 0
      <4>1. h.slot \in 1..k
        BY <2>3, <3>4 DEF SharesRead, Slots
      <4>2. h.slot \in 1..(g.slot - 1)
        BY <1>3, <2>4, <4>1
      <4>3. PICK y \in req[r].seen : y.slot = h.slot
        BY <2>2, <4>2 DEF Slots, Shares
      <4>4. y = h
        BY <2>2, <4>3 DEF IInv, LedgerInv, LedgerIntegrity, Lower
      <4> QED
        BY <4>3, <4>4
    <3> QED
      BY <3>1, <3>3, <3>4
  <2> QED
    BY <1>5, <2>1, <2>2, <2>5 DEF Lower
<1>6. CASE g.slot = 0
  <2>1. Headed(grants)
    BY <1>1, <1>6 DEF SoundAt
  <2> QED
    BY <1>4, <1>6, <2>1 DEF Headed
<1> QED
  BY <1>3, <1>5, <1>6

(* A row goes on top of the ledger.                                        *)
LEMMA RowGrows ==
    ASSUME IInv, NEW r \in Requests, req[r].at = "insert",
           NEW g \in req[r].mine, GrantInserts(g), grants' = grants \cup {g}
    PROVE  Grows(grants, grants')
<1>1. CASE g.slot > 0 /\ grants = req[r].seen
                      /\ MayWrite(r, req[r], grants, revocations, g.slot)
  <2>1. grants # {} /\ Slots(Shares(grants)) = 1..(g.slot - 1)
    BY <1>1 DEF MayWrite
  <2>2. /\ SoundAt(r, req[r], grants, revocations, tombstones)
        /\ grants \subseteq Grant
    BY RequestFacts
  <2>3. PICK s \in Nat, a \in BOOLEAN : req[r].mine = {Row(r, s, a)}
    BY <2>2 DEF SoundAt
  <2>4. g.slot \in Nat
    BY <2>3, RowIsGrant
  <2>5. ASSUME NEW h \in grants PROVE h.slot < g.slot
    <3>1. h.slot \in Nat
      BY <2>2 DEF Grant
    <3>2. h.slot > 0 => h.slot \in 1..(g.slot - 1)
      BY <2>1 DEF Slots, Shares
    <3> QED
      BY <1>1, <2>4, <3>1, <3>2
  <2> QED
    BY <2>1, <2>5 DEF Grows
<1>2. CASE g.slot = 0 /\ grants = {}
  BY <1>2 DEF Grows
<1> QED
  BY <1>1, <1>2, InsertFinds

(* The ledger with the new row keeps every part of LedgerInv.              *)
LEMMA LedgerTakesRow ==
    ASSUME IInv, NEW r \in Requests, req[r].at = "insert",
           NEW g \in req[r].mine, GrantInserts(g), grants' = grants \cup {g},
           UNCHANGED <<revocations, tombstones>>
    PROVE  LedgerTypeOK' /\ LedgerInv'
<1>1. /\ req[r] \in Request /\ SoundAt(r, req[r], grants, revocations, tombstones)
      /\ grants \subseteq Grant /\ revocations \subseteq Revocation
      /\ IsFiniteSet(grants)
  BY RequestFacts DEF IInv, LedgerInv
<1>2. PICK s \in Nat, a \in BOOLEAN : req[r].mine = {Row(r, s, a)}
  BY <1>1 DEF SoundAt
<1>3. /\ g \in Grant /\ g.slot \in Nat
      /\ g.player = RequestPlayer[r] /\ g.key = RequestKey[r]
  BY <1>2, RowIsGrant
<1>4. \/ g.slot > 0 /\ grants = req[r].seen
                    /\ MayWrite(r, req[r], grants, revocations, g.slot)
      \/ g.slot = 0 /\ grants = {}
  BY InsertFinds
<1>5. LedgerTypeOK'
  BY <1>1, <1>3 DEF LedgerTypeOK, IInv, TypeOK
<1>6. LedgerIntegrity'
  <2>1. \A h \in grants : IdOf(h) # IdOf(g) /\ h.slot # g.slot
    BY DEF GrantInserts, ByKey, AtSlot, IdOf
  <2>2. \A x, y \in grants' : (IdOf(x) = IdOf(y) \/ x.slot = y.slot) => x = y
    BY <2>1 DEF IInv, LedgerInv, LedgerIntegrity
  <2>3. \A v \in revocations' : v.of \in IdsOf(grants)'
    BY DEF IInv, LedgerInv, LedgerIntegrity, IdsOf
  <2> QED
    BY <2>2, <2>3 DEF IInv, LedgerInv, LedgerIntegrity
<1>7. IsFiniteSet(grants)'
  BY <1>1, FS_AddElement
<1>8. Contiguous'
  <2>1. CASE g.slot = 0
    <3>1. SharesRead' = SharesRead
      BY <2>1 DEF SharesRead
    <3> QED
      BY <3>1 DEF IInv, LedgerInv, Contiguous
  <2>2. CASE g.slot > 0
    <3>1. SharesRead' = SharesRead \cup {g}
      BY <2>2 DEF SharesRead
    <3>2. Slots(SharesRead) = 1..(g.slot - 1)
      <4>1. SharesRead = Shares(grants)
        BY DEF SharesRead, Shares
      <4>2. grants = req[r].seen /\ Slots(Shares(req[r].seen)) = 1..(g.slot - 1)
        BY <1>4, <2>2 DEF MayWrite
      <4> QED
        BY <4>1, <4>2, Zenon
    <3>3. Slots(SharesRead') = 1..(g.slot - 1) \cup {g.slot}
      BY <3>1, <3>2 DEF Slots
    <3>4. 1..(g.slot - 1) \cup {g.slot} = 1..g.slot
      BY <1>3, <2>2
    <3> QED
      BY <1>3, <3>3, <3>4 DEF Contiguous
  <2> QED
    BY <1>3, <2>1, <2>2
<1>9. OneGrantPerPlayer'
  <2>1. ~HeldBy(r, grants)
    BY <1>4 DEF MayWrite, HeldBy
  <2>2. \A h \in grants : h.player # g.player
    BY <1>3, <2>1 DEF HeldBy
  <2> QED
    BY <2>2 DEF IInv, LedgerInv, OneGrantPerPlayer
<1>10. HolderLimit'
  <2> DEFINE before == {h \in grants : h \in Active}
             read == {h \in req[r].seen : IdOf(h) \notin req[r].gone /\ ~IsKept(h)}
  <2>1. Active' \subseteq before \cup {g}
    BY ReversedBy DEF Active, Reversed, ReversedIds, RevocationsOf
  <2>2. IsFiniteSet(before) /\ IsFiniteSet(before \cup {g})
    <3>1. before \subseteq grants
      OBVIOUS
    <3> QED
      BY <1>1, <3>1, FS_Subset, FS_AddElement
  <2>3. Cardinality(before) < MaxHolders
    <3>1. CASE grants = {}
      <4>1. before = {}
        BY <3>1
      <4> QED
        BY <4>1, FS_EmptySet, RequestAssumption
    <3>2. CASE grants # {}
      <4>1. MayWrite(r, req[r], grants, revocations, g.slot) /\ grants = req[r].seen
        BY <1>4, <3>2
      <4>2. before \subseteq read
        BY <4>1, ReversedBy DEF Active, MayWrite
      <4>3. IsFiniteSet(read) /\ Cardinality(read) < MaxHolders
        <5>1. read \subseteq grants
          BY <4>1
        <5>2. Cardinality(read) < MaxHolders
          BY <4>1 DEF MayWrite
        <5> QED
          BY <1>1, <5>1, <5>2, FS_Subset
      <4>4. Cardinality(before) <= Cardinality(read)
        BY <4>2, <4>3, FS_Subset
      <4>5. Cardinality(before) \in Nat /\ Cardinality(read) \in Nat
        BY <2>2, <4>3, FS_CardinalityType
      <4> QED
        BY <4>3, <4>4, <4>5, RequestAssumption
    <3> QED
      BY <3>1, <3>2
  <2>4. Cardinality(before \cup {g}) <= Cardinality(before) + 1
    <3>1. Cardinality(before) \in Nat
      BY <2>2, FS_CardinalityType
    <3> QED
      BY <2>2, <3>1, FS_AddElement
  <2>5. Cardinality(Active') <= Cardinality(before \cup {g})
    BY <2>1, <2>2, FS_Subset
  <2>6. /\ Cardinality(Active') \in Nat /\ Cardinality(before) \in Nat
        /\ Cardinality(before \cup {g}) \in Nat
    BY <2>1, <2>2, FS_Subset, FS_CardinalityType
  <2>7. Cardinality(Active') <= MaxHolders
    BY <2>3, <2>4, <2>5, <2>6, RequestAssumption
  <2> QED
    BY <2>7 DEF HolderLimit
<1> QED
  BY <1>5, <1>6, <1>7, <1>8, <1>9, <1>10 DEF LedgerInv

LEMMA InsertKeeps ==
    ASSUME IInv, NEW r \in Requests, Insert(r) PROVE IInv'
<1>1. PICK g \in req[r].mine :
        /\ InsertGrant(g)
        /\ req' = [req EXCEPT ![r].at = "back", ![r].inserted = GrantInserts(g)]
  BY DEF Insert
<1>2. /\ req[r].at = "insert"
      /\ UNCHANGED <<revocations, tombstones, call, refunded, event, orphans,
                     admins, faults, resends>>
  BY DEF Insert
<1>3. req[r] \in Request /\ SoundAt(r, req[r], grants, revocations, tombstones)
  BY RequestFacts
<1>4. grants' = grants \/ Grows(grants, grants')
  BY <1>1, <1>2, RowGrows DEF InsertGrant
<1>5. LedgerTypeOK' /\ LedgerInv'
  <2>1. CASE GrantInserts(g)
    <3>1. grants' = grants \cup {g}
      BY <1>1, <2>1 DEF InsertGrant
    <3> QED
      BY <1>2, <2>1, <3>1, LedgerTakesRow
  <2>2. CASE ~GrantInserts(g)
    <3>1. UNCHANGED ledgerVars
      BY <1>1, <1>2, <2>2 DEF InsertGrant, ledgerVars
    <3> QED
      BY <3>1, LedgerStays DEF IInv, TypeOK
  <2> QED
    BY <2>1, <2>2
<1> DEFINE fits == GrantInserts(g)
           q == [req[r] EXCEPT !.at = "back", !.inserted = fits]
<1>6. fits \in BOOLEAN
  BY DEF GrantInserts
<1> HIDE DEF fits
<1>7. /\ q \in Request /\ q.at = "back" /\ q.answer = req[r].answer
      /\ q.mine = req[r].mine /\ q.tries = req[r].tries
  BY <1>3, <1>6 DEF Request, RequestSteps
<1>8. req' = [req EXCEPT ![r] = q]
  BY <1>1 DEF fits
<1> HIDE DEF q
<1>9. SoundAt(r, q, grants, revocations, tombstones)
  BY <1>2, <1>3, <1>7 DEF SoundAt
<1>10. (req \in [Requests -> Request])' /\ RequestsSound'
  BY <1>2, <1>4, <1>7, <1>8, <1>9, RequestMovesOn
<1>11. CallTypeOK' /\ CallsBounded'
  BY <1>2 DEF IInv, TypeOK, CallTypeOK, CallsBounded
<1> QED
  BY <1>2, <1>5, <1>10, <1>11 DEF IInv, TypeOK

LEMMA InsertBackKeeps ==
    ASSUME IInv, NEW r \in Requests, InsertBack(r) PROVE IInv'
<1>1. req[r] \in Request /\ SoundAt(r, req[r], grants, revocations, tombstones)
  BY RequestFacts
<1>2. PICK s \in Nat, a \in BOOLEAN :
        req[r].mine = {Row(r, s, a)} /\ (s > 0 \/ a => req[r].tries < Attempts)
  BY <1>1 DEF InsertBack, SoundAt
<1> DEFINE g == Row(r, s, a)
<1>3. g.slot = s /\ g.across = a
  BY RowIsGrant
<1>4. OnlyRequest
  BY DEF InsertBack
<1>5. CASE Answer(r, "error")
  BY <1>4, <1>5, AnswerAlone DEF Answers
<1>6. ASSUME NEW step \in {"other", "keyed"}, Goes(r, step) PROVE IInv'
  BY <1>4, <1>6, GoesFreely
<1>7. ASSUME ~(g.slot = 0 /\ ~g.across),
             req' = [req EXCEPT ![r].at = "shares", ![r].mine = {},
                                ![r].gone = {}, ![r].seen = {}, ![r].tries = @ + 1]
      PROVE  IInv'
  <2> DEFINE q == [req[r] EXCEPT !.at = "shares", !.mine = {}, !.gone = {},
                                 !.seen = {}, !.tries = req[r].tries + 1]
  <2>1. s > 0 \/ a
    BY <1>3, <1>7
  <2>2. req[r].tries + 1 \in 0..Attempts
    BY <1>1, <1>2, <2>1, RequestAssumption DEF Request
  <2>3. q \in Request /\ q.at = "shares" /\ q.answer = req[r].answer
    BY <1>1, <2>2 DEF Request, RequestSteps
  <2>4. req' = [req EXCEPT ![r] = q]
    BY <1>7
  <2> HIDE DEF q
  <2>5. q.at \in RequestSteps
    BY <2>3 DEF RequestSteps
  <2> QED
    BY <1>4, <2>3, <2>4, <2>5, ReadAlone
<1>8. ASSUME Own(r) # {}, Goes(r, "reread") PROVE IInv'
  <2>1. "reread" \in RequestSteps
    BY DEF RequestSteps
  <2>2. /\ At(r, "reread").at = "reread"
        /\ At(r, "reread").answer = req[r].answer
    BY <2>1, AtIsTyped
  <2>3. SoundAt(r, At(r, "reread"), grants, revocations, tombstones)
    BY <1>1, <1>8, <2>2, OwnIsHeld DEF SoundAt
  <2> QED
    BY <1>4, <1>8, <2>1, <2>3, GoesAlone
<1>9. ASSUME Own(r) # {}, Answer(r, "verified") PROVE IInv'
  BY <1>4, <1>9, AnswerAlone, OwnIsHeld DEF Answers
<1> QED
  BY <1>2, <1>5, <1>6, <1>7, <1>8, <1>9 DEF InsertBack

LEMMA KeyedKeeps ==
    ASSUME IInv, NEW r \in Requests, Keyed(r) PROVE IInv'
<1>1. OnlyRequest
  BY DEF Keyed
<1>2. CASE Answer(r, "refused")
  BY <1>1, <1>2, AnswerAlone DEF Answers
<1>3. ASSUME Own(r) # {}, Answer(r, "verified") PROVE IInv'
  BY <1>1, <1>3, AnswerAlone, OwnIsHeld DEF Answers
<1>4. ASSUME Own(r) # {}, Goes(r, "keyedReversed") PROVE IInv'
  <2>1. "keyedReversed" \in RequestSteps
    BY DEF RequestSteps
  <2>2. /\ At(r, "keyedReversed").at = "keyedReversed"
        /\ At(r, "keyedReversed").answer = req[r].answer
    BY <2>1, AtIsTyped
  <2>3. SoundAt(r, At(r, "keyedReversed"), grants, revocations, tombstones)
    BY <1>4, <2>2, OwnIsHeld, RequestFacts DEF SoundAt
  <2> QED
    BY <1>1, <1>4, <2>1, <2>3, GoesAlone
<1> QED
  BY <1>2, <1>3, <1>4 DEF Keyed

LEMMA KeyedReversedKeeps ==
    ASSUME IInv, NEW r \in Requests, KeyedReversed(r) PROVE IInv'
<1>1. HeldBy(r, grants)
  BY RequestFacts, OwnIsHeld DEF KeyedReversed, SoundAt
<1>2. PICK a \in {"rejected", "verified"} : Answer(r, a) /\ OnlyRequest
  BY DEF KeyedReversed
<1> QED
  BY <1>1, <1>2, AnswerAlone DEF Answers

-----------------------------------------------------------------------------
(* The recheck after the write. *)

LEMMA RereadKeeps ==
    ASSUME IInv, NEW r \in Requests, Reread(r) PROVE IInv'
<1> DEFINE q == [req[r] EXCEPT !.at = "ended", !.mine = Own(r)]
<1>1. /\ req[r] \in Request /\ SoundAt(r, req[r], grants, revocations, tombstones)
      /\ Own(r) \subseteq Grant /\ req[r].at = "reread"
  BY RequestFacts DEF Own, ByKey, Reread
<1>2. q \in Request /\ q.at = "ended" /\ q.answer = req[r].answer
  BY <1>1 DEF Request, RequestSteps
<1>3. req' = [req EXCEPT ![r] = q] /\ OnlyRequest
  BY DEF Reread
<1> HIDE DEF q
<1>4. SoundAt(r, q, grants, revocations, tombstones)
  BY <1>1, <1>2 DEF SoundAt
<1> QED
  BY <1>2, <1>3, <1>4, RequestAlone

LEMMA ReadEndedKeeps ==
    ASSUME IInv, NEW r \in Requests, ReadEnded(r) PROVE IInv'
<1> DEFINE ended == FirstEnding(req[r].seen \cup req[r].mine)
           q == [req[r] EXCEPT !.at = "prior", !.ended = ended]
<1>1. /\ req[r] \in Request /\ SoundAt(r, req[r], grants, revocations, tombstones)
      /\ ended \subseteq Revocation /\ req[r].at = "ended"
  BY RequestFacts DEF FirstEnding, WideOn, RevocationsOf, ReadEnded
<1>2. req' = [req EXCEPT ![r] = q] /\ OnlyRequest
  BY DEF ReadEnded
<1> HIDE DEF ended
<1>3. q \in Request /\ q.at = "prior" /\ q.answer = req[r].answer
  BY <1>1 DEF Request, RequestSteps
<1> HIDE DEF q
<1>4. SoundAt(r, q, grants, revocations, tombstones)
  BY <1>1, <1>3 DEF SoundAt
<1> QED
  BY <1>2, <1>3, <1>4, RequestAlone

-----------------------------------------------------------------------------
(* Revocations. *)

(* An entry the foreign key accepts keeps every part of LedgerInv: it can  *)
(* only end a grant.                                                       *)
LEMMA LedgerTakesEntry ==
    ASSUME IInv, NEW v \in Revocation, ~Refused(v), InsertRevocation(v),
           UNCHANGED <<grants, tombstones>>
    PROVE  /\ LedgerTypeOK' /\ LedgerInv'
           /\ grants \subseteq grants' /\ revocations \subseteq revocations'
<1>1. /\ revocations \subseteq revocations' /\ revocations' \subseteq revocations \cup {v}
      /\ grants' = grants /\ tombstones' = tombstones
  BY DEF InsertRevocation
<1>2. LedgerTypeOK'
  BY <1>1 DEF IInv, TypeOK, LedgerTypeOK
<1>3. LedgerIntegrity'
  <2>1. \A x, y \in revocations' : x.of = y.of => x = y
    BY DEF InsertRevocation, RevocationInserts, IInv, LedgerInv, LedgerIntegrity
  <2>2. \A x \in revocations : x.of \in IdsOf(grants)
    BY DEF IInv, LedgerInv, LedgerIntegrity
  <2>3. \A x \in revocations' : x.of \in IdsOf(grants)
    <3>1. CASE RevocationInserts(v)
      <4>1. v.of \in IdsOf(grants)
        BY <3>1 DEF Refused, ById, IdsOf
      <4> QED
        BY <1>1, <2>2, <4>1
    <3>2. CASE ~RevocationInserts(v)
      BY <2>2, <3>2 DEF InsertRevocation
    <3> QED
      BY <3>1, <3>2
  <2>4. IdsOf(grants)' = IdsOf(grants)
    BY <1>1 DEF IdsOf
  <2> QED
    BY <1>1, <2>1, <2>3, <2>4 DEF IInv, LedgerInv, LedgerIntegrity
<1>4. Contiguous' /\ OneGrantPerPlayer' /\ IsFiniteSet(grants)'
  BY <1>1 DEF IInv, LedgerInv, Contiguous, SharesRead, OneGrantPerPlayer
<1>5. HolderLimit'
  <2>1. Active' \subseteq Active
    BY <1>1 DEF Active, Reversed, ReversedIds, RevocationsOf
  <2>2. IsFiniteSet(Active)
    <3>1. Active \subseteq grants
      BY DEF Active
    <3> QED
      BY <3>1, FS_Subset DEF IInv, LedgerInv
  <2>3. Cardinality(Active') <= Cardinality(Active) /\ IsFiniteSet(Active')
    BY <2>1, <2>2, FS_Subset
  <2>4. Cardinality(Active') \in Nat /\ Cardinality(Active) \in Nat
    BY <2>2, <2>3, FS_CardinalityType
  <2>5. Cardinality(Active) <= MaxHolders
    BY DEF IInv, LedgerInv, HolderLimit
  <2>6. Cardinality(Active') <= MaxHolders
    BY <2>3, <2>4, <2>5, RequestAssumption
  <2> QED
    BY <2>6 DEF HolderLimit
<1> QED
  BY <1>1, <1>2, <1>3, <1>4, <1>5 DEF LedgerInv

LEMMA RequestsStay ==
    ASSUME IInv, UNCHANGED req,
           grants' = grants, revocations \subseteq revocations', tombstones' = tombstones
    PROVE  (req \in [Requests -> Request])' /\ RequestsSound'
<1>1. \A x \in Requests : SoundAt(x, req[x], grants', revocations', tombstones')
  <2>1. Grows(grants, grants') /\ {v.of : v \in revocations} \subseteq {v.of : v \in revocations'}
    BY GrowsSame
  <2> QED
    BY <2>1, SoundGrows DEF IInv, RequestsSound
<1> QED
  BY <1>1 DEF IInv, TypeOK, RequestsSound

(* The locals of one call move. *)
LEMMA CallMoves ==
    ASSUME IInv, NEW c \in Callers, NEW k \in Call,
           k.at \in {"first", "reversed", "record", "holderBack"}
               => k.pass < FanOutPasses,
           call' = [call EXCEPT ![c] = k]
    PROVE  CallTypeOK' /\ CallsBounded'
<1>1. call \in [Callers -> Call]
  BY DEF IInv, TypeOK, CallTypeOK
<1>2. \A x \in Callers : call'[x] = IF x = c THEN k ELSE call[x]
  BY <1>1
<1>3. CallsBounded'
  BY <1>2 DEF IInv, CallsBounded
<1> QED
  BY <1>1, <1>3 DEF CallTypeOK

LEMMA BlankCallIsTyped ==
    ASSUME NEW step \in {"idle", "get", "end"}, NEW E \in SUBSET Revocation,
           NEW result \in Results
    PROVE  /\ BlankCall(step, E, result) \in Call
           /\ BlankCall(step, E, result).at = step
<1>1. step \in CallSteps /\ 0 \in 0..FanOutPasses
  BY FanOutPassesPositive DEF CallSteps
<1> QED
  BY <1>1 DEF BlankCall, Call

LEMMA HolderEntryIsTyped ==
    ASSUME NEW v \in Revocation, NEW holder \in Grant
    PROVE  HolderEntry(v, holder) \in Revocation /\ HolderEntry(v, holder).of = IdOf(holder)
<1>1. holder.slot \in Nat /\ holder.player \in Owners /\ IdOf(holder) \in Ids
  BY IdOfGrant DEF Grant
<1>2. v.ev \in SUBSET Seq(Nat)
  BY DEF Revocation
<1>3. {Append(e, holder.slot) : e \in v.ev} \in SUBSET Seq(Nat)
  BY <1>1, <1>2
<1> QED
  BY <1>1, <1>3 DEF HolderEntry, Revocation

(* Every variable but the requests' and calls' keeps its type.             *)
LEMMA CallsAndRequests ==
    ASSUME IInv, UNCHANGED ledgerVars,
           (req \in [Requests -> Request])', RequestsSound',
           CallTypeOK', CallsBounded',
           (refunded \in BOOLEAN)', (event \in [Events -> EventState])',
           (orphans \subseteq Nat)', (admins \in 0..MaxAdmins)',
           (faults \in 0..MaxFaults)', (resends \in 0..MaxResends)'
    PROVE  IInv'
BY LedgerStays DEF IInv, TypeOK

LEMMA DecidePriorKeeps ==
    ASSUME IInv, NEW r \in Requests, DecidePrior(r) PROVE IInv'
<1>1. /\ req[r] \in Request /\ SoundAt(r, req[r], grants, revocations, tombstones)
      /\ req[r].at = "prior"
  BY RequestFacts DEF DecidePrior
<1>2. HeldBy(r, grants)
  BY <1>1, OwnIsHeld DEF SoundAt
<1>3. UNCHANGED <<ledgerVars, refunded, event, orphans, admins, faults, resends>>
  BY DEF DecidePrior
<1>4. ASSUME NEW a \in {"verified", "rejected"}, Answer(r, a), UNCHANGED call
      PROVE  IInv'
  <2>1. OnlyRequest
    BY <1>3, <1>4 DEF OnlyRequest
  <2> QED
    BY <1>2, <1>4, <2>1, AnswerAlone DEF Answers
<1>5. ASSUME NEW g \in req[r].mine, Goes(r, "closing"),
             call' = [call EXCEPT ![r] = CalledWith(Closing(r, g))]
      PROVE  IInv'
  <2>1. g \in Grant /\ IdOf(g) \in Ids /\ g.player \in Owners
    BY <1>1, IdOfGrant DEF Request, Grant
  <2>2. Closing(r, g) \in Revocation
    <3>1. CASE req[r].ended = {}
      BY <2>1, <3>1 DEF Closing, Revocation, RevocationKeys, Reasons
    <3>2. CASE req[r].ended # {}
      <4>1. (CHOOSE v \in req[r].ended : TRUE) \in Revocation
        BY <1>1, <3>2 DEF Request
      <4> QED
        BY <2>1, <3>2, <4>1, HolderEntryIsTyped DEF Closing
    <3> QED
      BY <3>1, <3>2
  <2>3. CalledWith(Closing(r, g)) \in Call /\ CalledWith(Closing(r, g)).at = "get"
    BY <2>2, BlankCallIsTyped DEF CalledWith, Results
  <2>4. CallTypeOK' /\ CallsBounded'
    BY <1>5, <2>3, CallMoves, RequestAssumption
  <2>5. "closing" \in RequestSteps
    BY DEF RequestSteps
  <2>6. /\ At(r, "closing") \in Request
        /\ At(r, "closing").at = "closing"
        /\ At(r, "closing").answer = req[r].answer
    BY <2>5, AtIsTyped
  <2>7. SoundAt(r, At(r, "closing"), grants, revocations, tombstones)
    BY <1>1, <2>6 DEF SoundAt
  <2>8. (req \in [Requests -> Request])' /\ RequestsSound'
    BY <1>3, <1>5, <2>6, <2>7, RequestMovesOn DEF Goes, At, ledgerVars
  <2> QED
    BY <1>3, <2>4, <2>8, CallsAndRequests DEF IInv, TypeOK
<1> QED
  BY <1>4, <1>5 DEF DecidePrior

(* An answer of a request whose call has ended or was lost.                *)
LEMMA AnswerAndCall ==
    ASSUME IInv, NEW r \in Requests, NEW a \in {"error", "rejected"}, Answer(r, a),
           call' = [call EXCEPT ![r] = IdleCall], UNCHANGED ledgerVars
    PROVE  /\ (req \in [Requests -> Request])' /\ RequestsSound'
           /\ CallTypeOK' /\ CallsBounded'
<1>1. /\ Blank("done", a) \in Request
      /\ SoundAt(r, Blank("done", a), grants, revocations, tombstones)
  BY AnsweredIsSound DEF Answers
<1>2. (req \in [Requests -> Request])' /\ RequestsSound'
  BY <1>1, RequestMovesOn DEF Answer, ledgerVars
<1>3. IdleCall \in Call /\ IdleCall.at = "idle"
  BY BlankCallIsTyped DEF IdleCall, Results
<1>4. CallTypeOK' /\ CallsBounded'
  BY <1>3, CallMoves, RequestAssumption
<1> QED
  BY <1>2, <1>4

LEMMA SlotsOfMine ==
    ASSUME IInv, NEW r \in Requests
    PROVE  {g.slot : g \in req[r].mine} \subseteq Nat
BY RequestFacts DEF Request, Grant

LEMMA ClosedKeeps ==
    ASSUME IInv, NEW r \in Requests, Closed(r) PROVE IInv'
<1>1. /\ call' = [call EXCEPT ![r] = IdleCall]
      /\ UNCHANGED <<ledgerVars, refunded, event, admins, faults, resends>>
  BY DEF Closed
<1>2. PICK a \in {"error", "rejected"} : Answer(r, a)
  BY DEF Closed
<1>3. (orphans \subseteq Nat)'
  BY SlotsOfMine DEF Closed, IInv, TypeOK
<1>4. /\ (req \in [Requests -> Request])' /\ RequestsSound'
      /\ CallTypeOK' /\ CallsBounded'
  BY <1>1, <1>2, AnswerAndCall
<1> QED
  BY <1>1, <1>3, <1>4, CallsAndRequests DEF IInv, TypeOK

LEMMA LoseRequestKeeps ==
    ASSUME IInv, NEW r \in Requests, LoseRequest(r) PROVE IInv'
<1>1. /\ call' = [call EXCEPT ![r] = IdleCall] /\ Answer(r, "error")
      /\ UNCHANGED <<ledgerVars, refunded, event, admins, resends>>
      /\ faults < MaxFaults /\ faults' = faults + 1
  BY DEF LoseRequest
<1>2. (orphans \subseteq Nat)'
  BY SlotsOfMine DEF LoseRequest, IInv, TypeOK
<1>3. (faults \in 0..MaxFaults)'
  BY <1>1, RequestAssumption DEF IInv, TypeOK
<1>4. /\ (req \in [Requests -> Request])' /\ RequestsSound'
      /\ CallTypeOK' /\ CallsBounded'
  BY <1>1, AnswerAndCall
<1> QED
  BY <1>1, <1>2, <1>3, <1>4, CallsAndRequests DEF IInv, TypeOK

LEMMA ResendKeeps ==
    ASSUME IInv, NEW r \in Requests, Resend(r) PROVE IInv'
<1> DEFINE q == Blank("lookup", "none")
<1>1. "lookup" \in RequestSteps /\ "none" \in Answers /\ 0 \in 0..Attempts
  BY RequestAssumption DEF RequestSteps, Answers
<1>2. q \in Request /\ q.at = "lookup" /\ q.answer = "none"
  BY <1>1 DEF Blank, Request
<1>3. SoundAt(r, q, grants, revocations, tombstones)
  BY <1>2 DEF SoundAt
<1>4. /\ req' = [req EXCEPT ![r] = q]
      /\ resends < MaxResends /\ resends' = resends + 1
      /\ UNCHANGED <<ledgerVars, call, refunded, event, orphans, admins, faults>>
  BY DEF Resend
<1> HIDE DEF q
<1>5. (req \in [Requests -> Request])' /\ RequestsSound'
  BY <1>2, <1>3, <1>4, RequestMovesOn DEF ledgerVars
<1>6. CallTypeOK' /\ CallsBounded'
  BY <1>4 DEF IInv, TypeOK, CallTypeOK, CallsBounded
<1>7. (resends \in 0..MaxResends)'
  BY <1>4, RequestAssumption DEF IInv, TypeOK
<1> QED
  BY <1>4, <1>5, <1>6, <1>7, CallsAndRequests DEF IInv, TypeOK

-----------------------------------------------------------------------------
(* The store's events. *)

(* A step of a delivery: only the event, and perhaps its call, change.     *)
LEMMA EventMoves ==
    ASSUME IInv, NEW e \in Events, NEW s \in EventState,
           event' = [event EXCEPT ![e] = s],
           CallTypeOK', CallsBounded', (refunded \in BOOLEAN)',
           (faults \in 0..MaxFaults)', (resends \in 0..MaxResends)',
           UNCHANGED <<ledgerVars, req, orphans, admins>>
    PROVE  IInv'
<1>1. (event \in [Events -> EventState])'
  BY DEF IInv, TypeOK
<1>2. (req \in [Requests -> Request])' /\ RequestsSound'
  BY RequestsStay DEF ledgerVars
<1> QED
  BY <1>1, <1>2, CallsAndRequests DEF IInv, TypeOK

LEMMA EventAtIsTyped ==
    ASSUME IInv, NEW e \in Events, NEW step \in EventSteps, EventGoes(e, step)
    PROVE  /\ [event[e] EXCEPT !.at = step] \in EventState
           /\ event' = [event EXCEPT ![e] = [event[e] EXCEPT !.at = step]]
BY DEF EventGoes, IInv, TypeOK, EventState

(* A step of a delivery that leaves its call and the bounds alone.         *)
LEMMA EventAlone ==
    ASSUME IInv, NEW e \in Events, NEW s \in EventState,
           event' = [event EXCEPT ![e] = s],
           UNCHANGED <<ledgerVars, call, refunded, req, orphans, admins, faults, resends>>
    PROVE  IInv'
<1>1. CallTypeOK' /\ CallsBounded'
  BY DEF IInv, TypeOK, CallTypeOK, CallsBounded
<1> QED
  BY <1>1, EventMoves DEF IInv, TypeOK

LEMMA EventCallKeeps ==
    ASSUME IInv, NEW e \in Events, NEW g \in grants, EventCalls(e, g),
           UNCHANGED <<ledgerVars, refunded, req, orphans, admins, faults, resends>>
    PROVE  IInv'
<1>1. g \in Grant /\ IdOf(g) \in Ids /\ g.player \in Owners
  BY IdOfGrant DEF IInv, TypeOK, LedgerTypeOK, Grant
<1>2. <<>> \in Seq(Nat)
  OBVIOUS
<1>3. EventEntry(e, g) \in Revocation
  BY <1>1, <1>2 DEF EventEntry, Revocation, RevocationKeys, Reasons, Events
<1>4. CalledWith(EventEntry(e, g)) \in Call /\ CalledWith(EventEntry(e, g)).at = "get"
  BY <1>3, BlankCallIsTyped DEF CalledWith, Results
<1>5. CallTypeOK' /\ CallsBounded'
  BY <1>4, CallMoves, RequestAssumption DEF EventCalls
<1>6. "called" \in EventSteps
  BY DEF EventSteps
<1>7. /\ [event[e] EXCEPT !.at = "called"] \in EventState
      /\ event' = [event EXCEPT ![e] = [event[e] EXCEPT !.at = "called"]]
  BY <1>6, EventAtIsTyped DEF EventCalls
<1> QED
  BY <1>5, <1>7, EventMoves DEF IInv, TypeOK

LEMMA EventFindFirstKeeps ==
    ASSUME IInv, NEW e \in Events, EventFindFirst(e) PROVE IInv'
<1>1. UNCHANGED <<ledgerVars, refunded, req, orphans, admins, faults, resends>>
  BY DEF EventFindFirst
<1>2. ASSUME NEW step \in {"findShare", "findLast"}, EventGoes(e, step), UNCHANGED call
      PROVE  IInv'
  <2>1. step \in EventSteps
    BY DEF EventSteps
  <2> QED
    BY <1>1, <1>2, <2>1, EventAtIsTyped, EventAlone
<1>3. ASSUME NEW g \in FirstRead, EventCalls(e, g) PROVE IInv'
  BY <1>1, <1>3, EventCallKeeps DEF FirstRead
<1> QED
  BY <1>2, <1>3 DEF EventFindFirst

LEMMA EventFindShareKeeps ==
    ASSUME IInv, NEW e \in Events, EventFindShare(e) PROVE IInv'
<1>1. UNCHANGED <<ledgerVars, refunded, req, orphans, admins, faults, resends>>
  BY DEF EventFindShare
<1>2. ASSUME NEW g \in Foremost(SharesRead), EventCalls(e, g) PROVE IInv'
  BY <1>1, <1>2, EventCallKeeps DEF Foremost, SharesRead
<1>3. ASSUME NEW s \in {[at |-> "settled", outcome |-> "ignored"],
                        [at |-> "sent", outcome |-> "none"]},
             event' = [event EXCEPT ![e] = s], UNCHANGED call
      PROVE  IInv'
  <2>1. s \in EventState
    BY DEF EventState, EventSteps, Outcomes
  <2> QED
    BY <1>1, <1>3, <2>1, EventAlone
<1> QED
  BY <1>2, <1>3 DEF EventFindShare

LEMMA EventSettlesKeeps ==
    ASSUME IInv, NEW e \in Events, EventSettles(e) PROVE IInv'
<1>1. /\ call' = [call EXCEPT ![e] = IdleCall]
      /\ UNCHANGED <<ledgerVars, refunded, req, orphans, admins, faults, resends>>
  BY DEF EventSettles
<1>2. OutcomeOf(call[e].result) \in Outcomes
  BY DEF OutcomeOf, Outcomes
<1> DEFINE settled == [at |-> "settled", outcome |-> OutcomeOf(call[e].result)]
           again == [at |-> "sent", outcome |-> "none"]
<1>3. settled \in EventState /\ again \in EventState
  BY <1>2 DEF EventState, EventSteps, Outcomes
<1>4. \/ event' = [event EXCEPT ![e] = settled]
      \/ event' = [event EXCEPT ![e] = again]
  BY DEF EventSettles
<1> HIDE DEF settled, again
<1>5. PICK s \in EventState : event' = [event EXCEPT ![e] = s]
  BY <1>3, <1>4
<1>6. IdleCall \in Call /\ IdleCall.at = "idle"
  BY BlankCallIsTyped DEF IdleCall, Results
<1>7. CallTypeOK' /\ CallsBounded'
  BY <1>1, <1>6, CallMoves, RequestAssumption
<1> QED
  BY <1>1, <1>5, <1>7, EventMoves DEF IInv, TypeOK

LEMMA StoreRefundsKeeps ==
    ASSUME IInv, NEW e \in Events, StoreRefunds(e) PROVE IInv'
<1>1. /\ refunded' = TRUE /\ EventGoes(e, "sent")
      /\ UNCHANGED <<ledgerVars, call, req, orphans, admins, faults, resends>>
  BY DEF StoreRefunds
<1>2. "sent" \in EventSteps
  BY DEF EventSteps
<1>3. CallTypeOK' /\ CallsBounded'
  BY <1>1 DEF IInv, TypeOK, CallTypeOK, CallsBounded
<1> QED
  BY <1>1, <1>2, <1>3, EventAtIsTyped, EventMoves DEF IInv, TypeOK

LEMMA RedeliverKeeps ==
    ASSUME IInv, NEW e \in Events, Redeliver(e) PROVE IInv'
<1>1. /\ event' = [event EXCEPT ![e] = [at |-> "sent", outcome |-> "none"]]
      /\ resends < MaxResends /\ resends' = resends + 1
      /\ UNCHANGED <<ledgerVars, call, refunded, req, orphans, admins, faults>>
  BY DEF Redeliver
<1>2. [at |-> "sent", outcome |-> "none"] \in EventState
  BY DEF EventState, EventSteps, Outcomes
<1>3. CallTypeOK' /\ CallsBounded'
  BY <1>1 DEF IInv, TypeOK, CallTypeOK, CallsBounded
<1>4. (resends \in 0..MaxResends)'
  BY <1>1, RequestAssumption DEF IInv, TypeOK
<1> QED
  BY <1>1, <1>2, <1>3, <1>4, EventMoves DEF IInv, TypeOK

LEMMA LoseDeliveryKeeps ==
    ASSUME IInv, NEW e \in Events, LoseDelivery(e) PROVE IInv'
<1>1. /\ EventGoes(e, "sent") /\ call' = [call EXCEPT ![e] = IdleCall]
      /\ faults < MaxFaults /\ faults' = faults + 1
      /\ UNCHANGED <<ledgerVars, refunded, req, orphans, admins, resends>>
  BY DEF LoseDelivery
<1>2. "sent" \in EventSteps
  BY DEF EventSteps
<1>3. IdleCall \in Call /\ IdleCall.at = "idle"
  BY BlankCallIsTyped DEF IdleCall, Results
<1>4. CallTypeOK' /\ CallsBounded'
  BY <1>1, <1>3, CallMoves, RequestAssumption
<1>5. (faults \in 0..MaxFaults)'
  BY <1>1, RequestAssumption DEF IInv, TypeOK
<1> QED
  BY <1>1, <1>2, <1>4, <1>5, EventAtIsTyped, EventMoves DEF IInv, TypeOK

-----------------------------------------------------------------------------
(* revokeEntitlementGrant. *)

LEMMA CallFacts ==
    ASSUME IInv, NEW c \in Callers
    PROVE  /\ call[c] \in Call
           /\ call[c].at \in {"first", "reversed", "record", "holderBack"}
                => call[c].pass < FanOutPasses
           /\ grants \subseteq Grant /\ revocations \subseteq Revocation
BY DEF IInv, TypeOK, CallTypeOK, CallsBounded, LedgerTypeOK

(* A step of a call that reads the ledger.                                 *)
LEMMA CallAlone ==
    ASSUME IInv, NEW c \in Callers, NEW k \in Call,
           k.at \in {"first", "reversed", "record", "holderBack"}
               => k.pass < FanOutPasses,
           call' = [call EXCEPT ![c] = k], UNCHANGED <<ledgerVars, requestVars>>
    PROVE  IInv'
<1>1. CallTypeOK' /\ CallsBounded'
  BY CallMoves
<1>2. (req \in [Requests -> Request])' /\ RequestsSound'
  BY RequestsStay DEF ledgerVars, requestVars
<1> QED
  BY <1>1, <1>2, CallsAndRequests DEF IInv, TypeOK, requestVars

LEMMA CallEndsAlone ==
    ASSUME IInv, NEW c \in Callers, NEW result \in Results,
           CallEnds(c, result), UNCHANGED <<ledgerVars, requestVars>>
    PROVE  IInv'
BY BlankCallIsTyped, CallAlone DEF CallEnds

(* A step of a call that appends an entry, or has it skipped.              *)
LEMMA CallAppends ==
    ASSUME IInv, NEW c \in Callers, NEW k \in Call,
           k.at \in {"first", "reversed", "record", "holderBack"}
               => k.pass < FanOutPasses,
           call' = [call EXCEPT ![c] = k],
           NEW v \in Revocation, ~Refused(v), InsertRevocation(v),
           UNCHANGED <<grants, tombstones, requestVars>>
    PROVE  IInv'
<1>1. CallTypeOK' /\ CallsBounded'
  BY CallMoves
<1>2. /\ LedgerTypeOK' /\ LedgerInv'
      /\ grants \subseteq grants' /\ revocations \subseteq revocations'
  BY LedgerTakesEntry
<1>3. (req \in [Requests -> Request])' /\ RequestsSound'
  BY <1>2, RequestsStay DEF requestVars
<1> QED
  BY <1>1, <1>2, <1>3 DEF IInv, TypeOK, requestVars

LEMMA CallStepAt ==
    ASSUME IInv, NEW c \in Callers, NEW step \in CallSteps
    PROVE  /\ [call[c] EXCEPT !.at = step] \in Call
           /\ [call[c] EXCEPT !.at = step].at = step
           /\ [call[c] EXCEPT !.at = step].pass = call[c].pass
BY CallFacts DEF Call

LEMMA CallGetKeeps ==
    ASSUME IInv, NEW c \in Callers, CallGet(c), UNCHANGED requestVars PROVE IInv'
<1>1. UNCHANGED <<ledgerVars, requestVars>>
  BY DEF CallGet
<1>2. ASSUME NEW result \in {"grant_not_found", "grant_mismatch"}, CallEnds(c, result)
      PROVE  IInv'
  BY <1>1, <1>2, CallEndsAlone DEF Results
<1>3. ASSUME CallGoes(c, "insert") PROVE IInv'
  <2>1. "insert" \in CallSteps
    BY DEF CallSteps
  <2> QED
    BY <1>1, <1>3, <2>1, CallStepAt, CallAlone DEF CallGoes
<1> QED
  BY <1>2, <1>3 DEF CallGet

LEMMA CallInsertKeeps ==
    ASSUME IInv, NEW c \in Callers, CallInsert(c), UNCHANGED requestVars PROVE IInv'
<1>1. PICK v \in call[c].entry :
        IF Refused(v)
        THEN CallEnds(c, "throw") /\ UNCHANGED revocations
        ELSE InsertRevocation(v) /\ CallGoes(c, "back")
  BY DEF CallInsert
<1>2. UNCHANGED <<grants, tombstones, requestVars>>
  BY DEF CallInsert
<1>3. CASE Refused(v)
  <2>1. UNCHANGED <<ledgerVars, requestVars>>
    BY <1>1, <1>2, <1>3 DEF ledgerVars
  <2> QED
    BY <1>1, <1>3, <2>1, CallEndsAlone DEF Results
<1>4. CASE ~Refused(v)
  <2>1. v \in Revocation
    BY CallFacts DEF Call
  <2>2. "back" \in CallSteps
    BY DEF CallSteps
  <2> DEFINE k == [call[c] EXCEPT !.at = "back"]
  <2>3. k \in Call /\ k.at = "back" /\ k.pass = call[c].pass
    BY <2>2, CallStepAt
  <2>4. call' = [call EXCEPT ![c] = k] /\ InsertRevocation(v)
    BY <1>1, <1>4 DEF CallGoes
  <2> HIDE DEF k
  <2> QED
    BY <1>2, <1>4, <2>1, <2>3, <2>4, CallAppends
<1> QED
  BY <1>3, <1>4

LEMMA CallReadBackKeeps ==
    ASSUME IInv, NEW c \in Callers, CallReadBack(c), UNCHANGED requestVars PROVE IInv'
<1>1. UNCHANGED <<ledgerVars, requestVars>>
  BY DEF CallReadBack
<1>2. ASSUME NEW result \in {"key_conflict", "evidence_already_processed", "revoked"},
             CallEnds(c, result)
      PROVE  IInv'
  BY <1>1, <1>2, CallEndsAlone DEF Results
<1>3. ASSUME CallGoes(c, "shares") PROVE IInv'
  <2>1. "shares" \in CallSteps
    BY DEF CallSteps
  <2> QED
    BY <1>1, <1>3, <2>1, CallStepAt, CallAlone DEF CallGoes
<1> QED
  BY <1>2, <1>3 DEF CallReadBack

LEMMA CallReadSharesKeeps ==
    ASSUME IInv, NEW c \in Callers, CallReadShares(c), UNCHANGED requestVars PROVE IInv'
<1>1. UNCHANGED <<ledgerVars, requestVars>>
  BY DEF CallReadShares
<1>2. CASE call[c].pass = FanOutPasses
  BY <1>1, <1>2, CallEndsAlone DEF CallReadShares, Results
<1>3. CASE call[c].pass # FanOutPasses
  <2> DEFINE k == [call[c] EXCEPT !.at = "first", !.seen = SharesRead]
  <2>1. call[c] \in Call /\ SharesRead \subseteq Grant
    BY CallFacts DEF SharesRead
  <2>2. k \in Call /\ k.at = "first" /\ k.pass = call[c].pass
    BY <2>1 DEF Call, CallSteps
  <2>3. call[c].pass < FanOutPasses
    BY <1>3, <2>1, FanOutPassesPositive DEF Call
  <2>4. call' = [call EXCEPT ![c] = k]
    BY <1>3 DEF CallReadShares
  <2> HIDE DEF k
  <2> QED
    BY <1>1, <2>2, <2>3, <2>4, CallAlone
<1> QED
  BY <1>2, <1>3

LEMMA CallReadFirstKeeps ==
    ASSUME IInv, NEW c \in Callers, CallReadFirst(c), UNCHANGED requestVars PROVE IInv'
<1> DEFINE k == [call[c] EXCEPT !.at = "reversed", !.seen = call[c].seen \cup FirstRead]
<1>1. /\ call[c] \in Call /\ call[c].at = "first" /\ call[c].pass < FanOutPasses
      /\ FirstRead \subseteq Grant
  BY CallFacts DEF CallReadFirst, FirstRead
<1>2. k \in Call /\ k.at = "reversed" /\ k.pass = call[c].pass
  BY <1>1 DEF Call, CallSteps
<1>3. call' = [call EXCEPT ![c] = k] /\ UNCHANGED <<ledgerVars, requestVars>>
  BY DEF CallReadFirst
<1> HIDE DEF k
<1> QED
  BY <1>1, <1>2, <1>3, CallAlone

LEMMA CallReadReversedKeeps ==
    ASSUME IInv, NEW c \in Callers, CallReadReversed(c), UNCHANGED requestVars PROVE IInv'
<1>1. UNCHANGED <<ledgerVars, requestVars>>
  BY DEF CallReadReversed
<1>2. CASE CallEnds(c, "revoked")
  BY <1>1, <1>2, CallEndsAlone DEF Results
<1>3. ASSUME NEW active \in SUBSET call[c].seen,
             call' = [call EXCEPT ![c].at = "record", ![c].todo = active]
      PROVE  IInv'
  <2> DEFINE k == [call[c] EXCEPT !.at = "record", !.todo = active]
  <2>1. call[c] \in Call /\ call[c].at = "reversed" /\ call[c].pass < FanOutPasses
    BY CallFacts DEF CallReadReversed
  <2>2. active \subseteq Grant
    BY <2>1 DEF Call
  <2>3. k \in Call /\ k.at = "record" /\ k.pass = call[c].pass
    BY <2>1, <2>2 DEF Call, CallSteps
  <2>4. call' = [call EXCEPT ![c] = k]
    BY <1>3
  <2> HIDE DEF k
  <2> QED
    BY <1>1, <2>1, <2>3, <2>4, CallAlone
<1> QED
  <2>1. PICK v \in call[c].entry, active \in SUBSET call[c].seen :
          \/ CallEnds(c, "revoked")
          \/ call' = [call EXCEPT ![c].at = "record", ![c].todo = active]
    BY DEF CallReadReversed
  <2> QED
    BY <1>2, <1>3, <2>1

LEMMA CallRecordHolderKeeps ==
    ASSUME IInv, NEW c \in Callers, CallRecordHolder(c), UNCHANGED requestVars
    PROVE  IInv'
<1>1. PICK v \in call[c].entry, holder \in Foremost(call[c].todo) :
        IF Refused(HolderEntry(v, holder))
        THEN CallEnds(c, "throw") /\ UNCHANGED revocations
        ELSE InsertRevocation(HolderEntry(v, holder)) /\ CallGoes(c, "holderBack")
  BY DEF CallRecordHolder
<1>2. /\ UNCHANGED <<grants, tombstones, requestVars>>
      /\ call[c] \in Call /\ call[c].pass < FanOutPasses
  BY CallFacts DEF CallRecordHolder
<1>3. CASE Refused(HolderEntry(v, holder))
  <2>1. UNCHANGED <<ledgerVars, requestVars>>
    BY <1>1, <1>2, <1>3 DEF ledgerVars
  <2> QED
    BY <1>1, <1>3, <2>1, CallEndsAlone DEF Results
<1>4. CASE ~Refused(HolderEntry(v, holder))
  <2>1. v \in Revocation /\ holder \in Grant
    BY <1>2 DEF Call, Foremost
  <2>2. HolderEntry(v, holder) \in Revocation /\ HolderEntry(v, holder).of = IdOf(holder)
    BY <2>1, HolderEntryIsTyped
  <2>3. "holderBack" \in CallSteps
    BY DEF CallSteps
  <2> DEFINE k == [call[c] EXCEPT !.at = "holderBack"]
  <2>4. k \in Call /\ k.at = "holderBack" /\ k.pass = call[c].pass
    BY <2>3, CallStepAt
  <2>5. call' = [call EXCEPT ![c] = k] /\ InsertRevocation(HolderEntry(v, holder))
    BY <1>1, <1>4 DEF CallGoes
  <2> HIDE DEF k
  <2> QED
    BY <1>2, <1>4, <2>2, <2>4, <2>5, CallAppends
<1> QED
  BY <1>3, <1>4

LEMMA CallHolderReadBackKeeps ==
    ASSUME IInv, NEW c \in Callers, CallHolderReadBack(c), UNCHANGED requestVars
    PROVE  IInv'
<1>1. UNCHANGED <<ledgerVars, requestVars>>
  BY DEF CallHolderReadBack
<1>2. /\ call[c] \in Call /\ call[c].at = "holderBack"
      /\ call[c].pass < FanOutPasses /\ call[c].pass + 1 \in 0..FanOutPasses
  <2>1. call[c] \in Call /\ call[c].at = "holderBack" /\ call[c].pass < FanOutPasses
    BY CallFacts DEF CallHolderReadBack
  <2>2. call[c].pass \in Nat
    BY <2>1 DEF Call
  <2> QED
    BY <2>1, <2>2, FanOutPassesPositive
<1>3. CASE CallEnds(c, "throw")
  BY <1>1, <1>3, CallEndsAlone DEF Results
<1>4. ASSUME NEW left \in SUBSET call[c].todo,
             call' = [call EXCEPT
                    ![c].todo = left,
                    ![c].at = IF left = {} THEN "shares" ELSE "record",
                    ![c].pass = IF left = {} THEN @ + 1 ELSE @]
      PROVE  IInv'
  <2> DEFINE step == IF left = {} THEN "shares" ELSE "record"
             pass == IF left = {} THEN call[c].pass + 1 ELSE call[c].pass
             k == [call[c] EXCEPT !.todo = left, !.at = step, !.pass = pass]
  <2>1. left \subseteq Grant /\ step \in CallSteps /\ pass \in 0..FanOutPasses
    BY <1>2 DEF Call, CallSteps
  <2>2. step \in {"first", "reversed", "record", "holderBack"} => pass < FanOutPasses
    BY <1>2
  <2>3. call' = [call EXCEPT ![c] = [call[c] EXCEPT !.todo = left, !.at = step, !.pass = pass]]
    BY <1>4
  <2> HIDE DEF step, pass
  <2>4. k \in Call /\ k.at = step /\ k.pass = pass
    BY <1>2, <2>1 DEF Call
  <2>5. call' = [call EXCEPT ![c] = k]
    BY <2>3
  <2> HIDE DEF k
  <2> QED
    BY <1>1, <2>2, <2>4, <2>5, CallAlone
<1> QED
  <2>1. PICK v \in call[c].entry, holder \in Foremost(call[c].todo) :
          IF ReadBack(holder.player, v.key, IdOf(holder)) # "recorded"
          THEN CallEnds(c, "throw")
          ELSE call' = [call EXCEPT
                  ![c].todo = call[c].todo \ {holder},
                  ![c].at = IF call[c].todo \ {holder} = {} THEN "shares" ELSE "record",
                  ![c].pass = IF call[c].todo \ {holder} = {} THEN @ + 1 ELSE @]
    BY DEF CallHolderReadBack
  <2>2. call[c].todo \ {holder} \in SUBSET call[c].todo
    OBVIOUS
  <2> QED
    BY <1>3, <1>4, <2>1, <2>2

LEMMA AdminRevokesKeeps ==
    ASSUME IInv, NEW g \in grants, AdminRevokes(g) PROVE IInv'
<1> DEFINE v == [of |-> IdOf(g), player |-> g.player, key |-> AdminKey,
                 by |-> AdminKey, reason |-> "admin", ev |-> {}]
<1>1. g \in Grant /\ IdOf(g) \in Ids /\ g.player \in Owners
  BY IdOfGrant DEF IInv, TypeOK, LedgerTypeOK, Grant
<1>2. v \in Revocation /\ v.of = IdOf(g)
  BY <1>1 DEF Revocation, RevocationKeys, Reasons
<1>3. /\ InsertRevocation(v) /\ admins < MaxAdmins /\ admins' = admins + 1
      /\ UNCHANGED <<grants, tombstones, call, refunded, req, event, orphans,
                     faults, resends>>
  BY DEF AdminRevokes
<1>4. ~Refused(v)
  BY <1>2 DEF Refused, ById
<1> HIDE DEF v
<1>5. /\ LedgerTypeOK' /\ LedgerInv'
      /\ grants \subseteq grants' /\ revocations \subseteq revocations'
  BY <1>2, <1>3, <1>4, LedgerTakesEntry
<1>6. (req \in [Requests -> Request])' /\ RequestsSound'
  BY <1>3, <1>5, RequestsStay
<1>7. CallTypeOK' /\ CallsBounded'
  BY <1>3 DEF IInv, TypeOK, CallTypeOK, CallsBounded
<1>8. (admins \in 0..MaxAdmins)'
  BY <1>3, RequestAssumption DEF IInv, TypeOK
<1> QED
  BY <1>3, <1>5, <1>6, <1>7, <1>8 DEF IInv, TypeOK

-----------------------------------------------------------------------------
(* The invariant. *)

(* Before the first request the ledger is empty or holds the first grant.  *)
LEMMA InitHolds == Init => IInv
<1> SUFFICES ASSUME Init PROVE IInv
  OBVIOUS
<1>1. /\ grants \in Seeds /\ revocations = {} /\ tombstones = {}
      /\ call = [c \in Callers |-> IdleCall]
      /\ req = [r \in Requests |-> Blank("idle", "none")]
  BY DEF Init, CallInit
<1>2. \/ grants = {}
      \/ \E g \in Grant : grants = {g} /\ g.slot = 0
  <2>1. ASSUME NEW p \in Players, NEW k \in Keys,
               grants = {[player |-> p, key |-> k, slot |-> 0, across |-> p # Buyer]}
        PROVE  \E g \in Grant : grants = {g} /\ g.slot = 0
    <3> DEFINE g == [player |-> p, key |-> k, slot |-> 0, across |-> p # Buyer]
    <3>1. (p # Buyer) \in BOOLEAN
      OBVIOUS
    <3>2. g \in Grant /\ g.slot = 0
      BY <3>1 DEF Grant, Owners
    <3> QED
      BY <2>1, <3>2
  <2> QED
    BY <1>1, <2>1, SeedAssumption
<1>3. grants \subseteq Grant
  BY <1>2
<1>4. LedgerInv
  <2>1. LedgerIntegrity
    BY <1>1, <1>2 DEF LedgerIntegrity
  <2>2. IsFiniteSet(grants) /\ Cardinality(grants) \in Nat /\ Cardinality(grants) <= 1
    <3>1. CASE grants = {}
      BY <3>1, FS_EmptySet
    <3>2. ASSUME NEW g \in Grant, grants = {g}
          PROVE  IsFiniteSet(grants) /\ Cardinality(grants) = 1
      BY <3>2, FS_Singleton
    <3> QED
      BY <1>2, <3>1, <3>2
  <2>3. Contiguous
    <3>1. SharesRead = {}
      BY <1>2 DEF SharesRead
    <3>2. Slots(SharesRead) = 1..0
      BY <3>1 DEF Slots
    <3> QED
      BY <3>2 DEF Contiguous
  <2>4. HolderLimit
    <3>1. Active \subseteq grants
      BY DEF Active
    <3>2. Cardinality(Active) <= Cardinality(grants) /\ IsFiniteSet(Active)
      BY <2>2, <3>1, FS_Subset
    <3>3. Cardinality(Active) \in Nat
      BY <3>2, FS_CardinalityType
    <3> QED
      BY <2>2, <3>2, <3>3, RequestAssumption DEF HolderLimit
  <2>5. OneGrantPerPlayer
    BY <1>2 DEF OneGrantPerPlayer
  <2> QED
    BY <2>1, <2>2, <2>3, <2>4, <2>5 DEF LedgerInv
<1>5. IdleCall \in Call /\ IdleCall.at = "idle"
  BY BlankCallIsTyped DEF IdleCall, Results
<1>6. CallTypeOK /\ CallsBounded
  BY <1>1, <1>5 DEF CallTypeOK, CallsBounded
<1>7. "idle" \in RequestSteps /\ "none" \in Answers /\ 0 \in 0..Attempts
  BY RequestAssumption DEF RequestSteps, Answers
<1>8. /\ Blank("idle", "none") \in Request
      /\ Blank("idle", "none").at = "idle" /\ Blank("idle", "none").answer = "none"
  BY <1>7 DEF Blank, Request
<1>9. \A r \in Requests : SoundAt(r, Blank("idle", "none"), grants, revocations, tombstones)
  BY <1>8 DEF SoundAt
<1>10. req \in [Requests -> Request] /\ RequestsSound
  BY <1>1, <1>8, <1>9 DEF RequestsSound
<1>11. event \in [Events -> EventState]
  BY DEF Init, EventState, EventSteps, Outcomes
<1>12. /\ refunded \in BOOLEAN /\ orphans \subseteq Nat
       /\ admins \in 0..MaxAdmins /\ faults \in 0..MaxFaults /\ resends \in 0..MaxResends
  <2>1. /\ refunded = FALSE /\ orphans = {}
        /\ admins = 0 /\ faults = 0 /\ resends = 0
    BY DEF Init
  <2>2. 0 \in 0..MaxAdmins /\ 0 \in 0..MaxFaults /\ 0 \in 0..MaxResends
    BY RequestAssumption
  <2> QED
    BY <2>1, <2>2
<1>13. LedgerTypeOK
  BY <1>1, <1>3 DEF LedgerTypeOK
<1> QED
  BY <1>4, <1>6, <1>10, <1>11, <1>12, <1>13 DEF IInv, TypeOK

LEMMA StutterKeeps == IInv /\ UNCHANGED vars => IInv'
<1> SUFFICES ASSUME IInv, UNCHANGED vars PROVE IInv'
  OBVIOUS
<1>1. UNCHANGED <<ledgerVars, call, refunded, req, event, orphans, admins, faults, resends>>
  BY DEF vars, requestVars
<1>2. (req \in [Requests -> Request])' /\ RequestsSound'
  BY <1>1, RequestsStay DEF ledgerVars
<1>3. CallTypeOK' /\ CallsBounded'
  BY <1>1 DEF IInv, TypeOK, CallTypeOK, CallsBounded
<1> QED
  BY <1>1, <1>2, <1>3, CallsAndRequests DEF IInv, TypeOK

LEMMA NextKeeps == IInv /\ Next => IInv'
<1> SUFFICES ASSUME IInv, Next PROVE IInv'
  OBVIOUS
<1>1. ASSUME NEW r \in Requests,
             Send(r) \/ Resend(r) \/ RequestStep(r) \/ LoseRequest(r)
      PROVE  IInv'
  <2>1. CASE Send(r) \/ Resend(r) \/ LoseRequest(r)
    BY <2>1, SendKeeps, ResendKeeps, LoseRequestKeeps
  <2>2. CASE RequestStep(r)
    BY <2>2, LookupKeeps, ReplayKeeps, VerifyKeeps, BoundReadSharesKeeps,
       BoundReadFirstKeeps, BoundEvidenceKeeps, BoundOtherKeeps,
       BoundOwnReversedKeeps, ShareReadSharesKeeps, ShareReadFirstKeeps,
       ShareReadReversedKeeps, ShareDecideKeeps, CheckTombstoneKeeps,
       InsertKeeps, InsertBackKeeps, KeyedKeeps, KeyedReversedKeeps,
       RereadKeeps, ReadEndedKeeps, DecidePriorKeeps, ClosedKeeps
       DEF RequestStep
  <2> QED
    BY <1>1, <2>1, <2>2
<1>2. ASSUME NEW e \in Events,
             StoreRefunds(e) \/ EventStep(e) \/ Redeliver(e) \/ LoseDelivery(e)
      PROVE  IInv'
  BY <1>2, StoreRefundsKeeps, EventFindFirstKeeps, EventFindShareKeeps,
     EventSettlesKeeps, RedeliverKeeps, LoseDeliveryKeeps DEF EventStep
<1>3. ASSUME NEW c \in Callers, RevocationStep(c) PROVE IInv'
  BY <1>3, CallGetKeeps, CallInsertKeeps, CallReadBackKeeps, CallReadSharesKeeps,
     CallReadFirstKeeps, CallReadReversedKeeps, CallRecordHolderKeeps,
     CallHolderReadBackKeeps DEF RevocationStep, CallStep
<1>4. ASSUME NEW g \in grants, AdminRevokes(g) PROVE IInv'
  BY <1>4, AdminRevokesKeeps
<1> QED
  BY <1>1, <1>2, <1>3, <1>4 DEF Next

(* Every statement of a verify request, a store event or a revocation       *)
(* keeps the slots without a gap and the requests' knowledge of them sound. *)
THEOREM InvariantHolds == Spec => []IInv
<1>1. Init => IInv
  BY InitHolds
<1>2. IInv /\ [Next]_vars => IInv'
  BY NextKeeps, StutterKeeps
<1> QED
  BY <1>1, <1>2, PTL DEF Spec

(* Every table, every handler's locals and every bound keep their type.    *)
THEOREM TypesHold == Spec => []TypeOK
BY InvariantHolds, PTL DEF IInv

(* Never more than maxHolders players hold the purchase, however many       *)
(* restores shareRestoredPurchase runs at once.                            *)
THEOREM HolderLimitHolds == Spec => []HolderLimit
<1>1. IInv => HolderLimit
  BY DEF IInv, LedgerInv
<1> QED
  BY <1>1, InvariantHolds, PTL

(* No player is granted the purchase twice, by the bound path, a restore or *)
(* both (shareRestoredPurchase looks for the player's own grant first).    *)
THEOREM OneGrantHolds == Spec => []OneGrantPerPlayer
<1>1. IInv => OneGrantPerPlayer
  BY DEF IInv, LedgerInv
<1> QED
  BY <1>1, InvariantHolds, PTL

(* Keys, evidence ids and revocations stay unique, and every revocation    *)
(* points at a grant.                                                      *)
THEOREM IntegrityHolds == Spec => []LedgerIntegrity
<1>1. IInv => LedgerIntegrity
  BY DEF IInv, LedgerInv
<1> QED
  BY <1>1, InvariantHolds, PTL

(* Without account deletions there are no tombstones.                      *)
LEMMA NobodyDeleted == Spec => [](tombstones = {})
<1>1. Init => tombstones = {}
  BY DEF Init
<1>2. tombstones = {} /\ [Next]_vars => (tombstones = {})'
  <2> SUFFICES ASSUME [Next]_vars PROVE tombstones' = tombstones
    OBVIOUS
  <2>1. CASE UNCHANGED vars
    BY <2>1 DEF vars, ledgerVars
  <2>2. ASSUME NEW r \in Requests, Send(r) \/ Resend(r) \/ LoseRequest(r)
        PROVE  tombstones' = tombstones
    BY <2>2 DEF Send, Resend, LoseRequest, OnlyRequest, ledgerVars
  <2>3. ASSUME NEW r \in Requests, RequestStep(r) PROVE tombstones' = tombstones
    BY <2>3 DEF RequestStep, OnlyRequest, ledgerVars, Lookup, Replay, Verify,
       BoundReadShares, BoundReadFirst, BoundEvidence, BoundOther, BoundOwnReversed,
       ShareReadShares, ShareReadFirst, ShareReadReversed, ShareDecide,
       CheckTombstone, Insert, InsertBack, Keyed, KeyedReversed, Reread, ReadEnded,
       DecidePrior, Closed
  <2>4. ASSUME NEW e \in Events,
               StoreRefunds(e) \/ EventStep(e) \/ Redeliver(e) \/ LoseDelivery(e)
        PROVE  tombstones' = tombstones
    BY <2>4 DEF StoreRefunds, EventStep, EventFindFirst, EventFindShare,
       EventSettles, Redeliver, LoseDelivery, ledgerVars
  <2>5. ASSUME NEW c \in Callers, RevocationStep(c) PROVE tombstones' = tombstones
    BY <2>5 DEF RevocationStep, CallStep, CallGet, CallInsert, CallReadBack,
       CallReadShares, CallReadFirst, CallReadReversed, CallRecordHolder,
       CallHolderReadBack, ledgerVars
  <2>6. ASSUME NEW g \in grants, AdminRevokes(g) PROVE tombstones' = tombstones
    BY <2>6 DEF AdminRevokes
  <2> QED
    BY <2>1, <2>2, <2>3, <2>4, <2>5, <2>6 DEF Next
<1> QED
  BY <1>1, <1>2, PTL DEF Spec

(* A request verifyPurchaseForRetry answers verified has a grant of its    *)
(* player on the ledger.                                                   *)
THEOREM VerifiedHolds == Spec => []VerifiedIsRecorded
<1>1. IInv /\ tombstones = {} => VerifiedIsRecorded
  BY DEF IInv, RequestsSound, SoundAt, HeldBy, VerifiedIsRecorded
<1> QED
  BY <1>1, NobodyDeleted, InvariantHolds, PTL

=============================================================================
