------------------------- MODULE PostOperationProofs -------------------------
(***************************************************************************)
(* Theorems about PostOperation, for every set of calls, posts and         *)
(* descriptors and every number of store attempts.                         *)
(*                                                                         *)
(* The argument rests on the record's rank: a record only rises, so what a *)
(* call saw is what is stored or lies behind it (Behind), and a comparison *)
(* that is lost brings the call one rank closer to the terminal record     *)
(* (Closes).  Fence: until Reddit is called nothing of it can be recorded. *)
(***************************************************************************)
EXTENDS PostOperation, TLAPS

Rank(r) ==
    IF r.phase = "terminal" THEN 4
    ELSE IF r.phase = "published" THEN 3
    ELSE IF r.phase = "attempted" THEN 2
    ELSE IF r.phase = "prepared" THEN 1 ELSE 0

Recording == {"commit", "reread", "terminate", "converge"}
Resolving == {"terminate", "converge"}

(* What a call expects of the record, by the step it is at.                *)
Expects(c) ==
    /\ call[c].at \notin {"idle", "answer"} => call[c].asks \in Descriptors
    /\ call[c].at = "fence" => call[c].seen.phase = "prepared"
    /\ call[c].at \in {"publish", "lease", "find", "commit", "reread"}
       => call[c].seen.phase = "attempted"
    /\ call[c].at \in Resolving => call[c].seen.phase \in {"attempted", "published"}
    /\ call[c].at \in {"commit", "reread"} => call[c].post \in Posts

Behind(c) ==
    call[c].at \notin {"idle", "answer", "read", "create"}
    => record = call[c].seen \/ Rank(record) > Rank(call[c].seen)

(* The evidence of a call that met several posts.                          *)
Gathers(c) ==
    /\ call[c].at \in Resolving =>
         /\ call[c].posts \in Evidence
         /\ call[c].seen.phase = "published" => call[c].seen.post \in call[c].posts
    /\ call[c].posts # {} => call[c].at \in Resolving \cup {"answer"}
    /\ call[c].posts # {} /\ call[c].at = "answer" => record.phase = "terminal"

Closes(c) ==
    /\ call[c].at = "terminate" => Rank(call[c].seen) >= call[c].tries + 2
    /\ call[c].at = "converge" => Rank(record) >= call[c].tries + 3

(* The one call that is about to submit.                                   *)
Submits(c) == call[c].at = "publish" => submissions = 0 /\ record.attempt = c

(* Whoever records a post knows of one.                                    *)
Submitted(c) == call[c].at \in Recording => submissions = 1

Succeeds(c) ==
    call[c].at = "answer" /\ call[c].status = "success"
    => call[c].post = outcome /\ outcome # NoPost

Leases(c) == call[c].lets => call[c].at \in Recording \cup {"answer"}

Sound(c) ==
    /\ Expects(c) /\ Behind(c) /\ Gathers(c) /\ Closes(c)
    /\ Submits(c) /\ Submitted(c) /\ Succeeds(c) /\ Leases(c)

(* Before the submission Reddit has nothing, and nothing is recorded.      *)
Fenced ==
    /\ submissions \in {0, 1}
    /\ submissions = 0 => posted = {} /\ Rank(record) <= 2
    /\ submissions = 1 => Rank(record) >= 2

Outcome ==
    /\ record.phase = "published" => record.post = outcome
    /\ Rank(record) <= 2 => outcome = NoPost

IInv ==
    /\ TypeOK
    /\ Fenced
    /\ Outcome
    /\ WorkerHoldsLease
    /\ RegistryMissesNothing
    /\ \A c \in Calls : Sound(c)

-----------------------------------------------------------------------------
USE PostAssumption

(* What the stored records of each phase hold.                             *)
LEMMA Stored ==
    ASSUME NEW r \in Records
    PROVE  /\ Rank(r) \in 0 .. 4
           /\ r.phase \in {"missing", "prepared", "attempted", "published", "terminal"}
           /\ r.phase \in {"prepared", "attempted", "published", "terminal"} => r.of \in Descriptors
           /\ r.phase \in {"attempted", "published", "terminal"} => r.attempt \in Attempts
           /\ r.phase = "attempted" => r.post = NoPost
           /\ r.phase = "published" => r.post \in Posts
           /\ r.phase = "terminal" <=> Rank(r) = 4
           /\ r.phase = "published" <=> Rank(r) = 3
           /\ r.phase = "attempted" <=> Rank(r) = 2
           /\ r.phase = "prepared" <=> Rank(r) = 1
           /\ r.phase = "missing" <=> Rank(r) = 0
  BY DEF Records, Missing, Prepared, Attempted, Published, Terminal, Rec, Rank

(* Records made of valid parts are valid.                                  *)
LEMMA Made ==
    ASSUME NEW d \in Descriptors, NEW a \in Attempts, NEW p \in Posts, NEW s \in Evidence
    PROVE  /\ Prepared(d) \in Records /\ Rank(Prepared(d)) = 1 /\ Prepared(d).phase = "prepared"
           /\ Attempted(d, a) \in Records /\ Rank(Attempted(d, a)) = 2
           /\ Attempted(d, a).phase = "attempted" /\ Attempted(d, a).attempt = a
           /\ Published(d, a, p) \in Records /\ Rank(Published(d, a, p)) = 3
           /\ Published(d, a, p).phase = "published" /\ Published(d, a, p).post = p
           /\ Terminal(d, a, s) \in Records /\ Rank(Terminal(d, a, s)) = 4
           /\ Terminal(d, a, s).phase = "terminal" /\ Terminal(d, a, s).posts = s
<1>1. Prepared(d) \in Records /\ Attempted(d, a) \in Records
  BY DEF Records
<1>2. Published(d, a, p) \in Records /\ Terminal(d, a, s) \in Records
  BY DEF Records
<1> QED
  BY <1>1, <1>2 DEF Prepared, Attempted, Published, Terminal, Rec, Rank

(* The record only rises.                                                  *)
Rises ==
    /\ record' \in Records
    /\ record' = record \/ Rank(record') > Rank(record)

(* What a step of one call leaves to the others.                           *)
LEMMA OthersKeep ==
    ASSUME IInv, NEW d \in Calls, call'[d] = call[d], Rises,
           outcome' = outcome \/ outcome = NoPost,
           submissions' \in {submissions, 1},
           call[d].at = "publish" => submissions' = submissions /\ record' = record
    PROVE  Sound(d)'
<1>1. Sound(d) /\ record \in Records /\ call[d] \in Call
  BY DEF IInv, TypeOK
<1>2. call[d].seen \in Records /\ call[d].tries \in Nat
  BY <1>1 DEF Call
<1>3. /\ Rank(record) \in Nat /\ Rank(record') \in Nat /\ Rank(call[d].seen) \in Nat
      /\ Rank(record) = 4 => record' = record
  BY <1>1, <1>2, Stored DEF Rises
<1>4. Expects(d)' /\ Leases(d)'
  BY <1>1 DEF Sound, Expects, Leases
<1>5. Behind(d)' /\ Closes(d)'
  BY <1>1, <1>2, <1>3 DEF Sound, Behind, Closes, Rises
<1>6. Gathers(d)'
  BY <1>1, <1>3, Stored DEF Sound, Gathers
<1>7. Submits(d)' /\ Submitted(d)' /\ Succeeds(d)'
  BY <1>1 DEF Sound, Submits, Submitted, Succeeds
<1> QED
  BY <1>4, <1>5, <1>6, <1>7 DEF Sound

(* A step of one call that keeps the shared state sound keeps all of it.   *)
LEMMA Moves ==
    ASSUME IInv, NEW c \in Calls, NEW q \in Call, call' = [call EXCEPT ![c] = q],
           Sound(c)', Rises, Fenced', Outcome', WorkerHoldsLease', RegistryMissesNothing',
           indexed' \in BOOLEAN, lease' \in Calls \cup {NoCall}, posted' \subseteq Posts,
           lapsed' \subseteq Calls, outcome' \in Posts \cup {NoPost}, told' \subseteq Posts,
           outcome' = outcome \/ outcome = NoPost,
           submissions' \in {submissions, 1},
           \A d \in Calls \ {c} : call[d].at = "publish" =>
               submissions' = submissions /\ record' = record
    PROVE  IInv'
<1>1. TypeOK'
  BY DEF IInv, TypeOK, Rises, Fenced
<1>2. ASSUME NEW d \in Calls PROVE Sound(d)'
  <2>1. CASE d = c
    BY <2>1
  <2>2. CASE d # c
    <3>1. call'[d] = call[d]
      BY <2>2 DEF IInv, TypeOK
    <3> QED
      BY <2>2, <3>1, OthersKeep
  <2> QED
    BY <2>1, <2>2
<1> QED
  BY <1>1, <1>2 DEF IInv

(* A call that neither takes nor lets go of a lease.                       *)
LEMMA KeepsLease ==
    ASSUME IInv, NEW c \in Calls, NEW q \in Call, call' = [call EXCEPT ![c] = q],
           UNCHANGED <<lease, lapsed>>, q.at = "find" \/ q.lets => Holds(c)
    PROVE  WorkerHoldsLease'
<1>1. WorkerHoldsLease /\ call \in [Calls -> Call]
  BY DEF IInv, TypeOK
<1> SUFFICES ASSUME NEW d \in Calls, Holds(d)'
             PROVE  d \in lapsed \/ lease = d
  BY DEF WorkerHoldsLease
<1>2. CASE d = c
  BY <1>1, <1>2 DEF WorkerHoldsLease, Holds
<1>3. CASE d # c
  BY <1>1, <1>3 DEF WorkerHoldsLease, Holds
<1> QED
  BY <1>2, <1>3

(* A step of one call that leaves the record alone.                        *)
LEMMA StandsStill ==
    ASSUME IInv, NEW c \in Calls, NEW q \in Call, call' = [call EXCEPT ![c] = q],
           Sound(c)', UNCHANGED <<record, posted, submissions, outcome>>,
           WorkerHoldsLease', indexed' \in BOOLEAN, indexed => indexed',
           lease' \in Calls \cup {NoCall}, lapsed' \subseteq Calls, told' \subseteq Posts
    PROVE  IInv'
<1>1. Rises /\ Fenced' /\ Outcome' /\ RegistryMissesNothing'
  BY DEF IInv, TypeOK, Rises, Fenced, Outcome, RegistryMissesNothing
<1>2. posted' \subseteq Posts /\ outcome' \in Posts \cup {NoPost}
  BY DEF IInv, TypeOK
<1> QED
  BY <1>1, <1>2, Moves

(* A call that ends is sound if what it answers is so.                     *)
LEMMA Ending ==
    ASSUME IInv, NEW c \in Calls,
           NEW status \in {"none", "success", "terminal", "busy", "other"},
           NEW post \in Posts \cup {NoPost}, Ends(c, status, post),
           status = "success" => post = outcome' /\ outcome' # NoPost,
           status # "other" /\ call[c].posts # {} => record'.phase = "terminal"
    PROVE  /\ Sound(c)'
           /\ \E q \in Call : /\ call' = [call EXCEPT ![c] = q]
                              /\ q.at # "find" /\ q.lets = call[c].lets
<1> DEFINE q == IF status # "other"
        THEN [Idle EXCEPT !.at = "answer", !.status = status, !.post = post,
                          !.posts = call[c].posts, !.lets = call[c].lets]
        ELSE [Idle EXCEPT !.at = IF call[c].lets THEN "answer" ELSE "idle",
                          !.lets = call[c].lets]
<1>1. call \in [Calls -> Call] /\ call[c] \in Call
  BY DEF IInv, TypeOK
<1>2. call' = [call EXCEPT ![c] = q]
  BY DEF Ends
<1>3. /\ q \in Call
      /\ q.at \in {"idle", "answer"} /\ q.lets = call[c].lets
      /\ q.at = "idle" => ~q.lets
      /\ q.posts # {} => status # "other" /\ q.posts = call[c].posts /\ q.at = "answer"
      /\ q.status = "success" => status = "success" /\ q.post = post
  <2>1. Missing \in Records
    BY DEF Records
  <2>2. Idle \in Call /\ Idle.at = "idle" /\ Idle.posts = {} /\ Idle.status = "none"
    BY <2>1 DEF Idle, Call
  <2>3. call[c].posts \in SUBSET Posts /\ call[c].lets \in BOOLEAN
    BY <1>1 DEF Call
  <2>4. CASE status # "other"
    <3> DEFINE a == [Idle EXCEPT !.at = "answer", !.status = status]
               b == [a EXCEPT !.post = post, !.posts = call[c].posts]
    <3>1. a \in Call /\ a.at = "answer" /\ a.status = status
      BY <2>2, <2>4 DEF Call
    <3> HIDE DEF a
    <3>2. /\ b \in Call /\ b.at = "answer" /\ b.status = status
          /\ b.post = post /\ b.posts = call[c].posts
      BY <3>1, <2>3 DEF Call
    <3>3. q = [b EXCEPT !.lets = call[c].lets]
      BY <2>4 DEF a
    <3> HIDE DEF b, q
    <3> QED
      BY <2>3, <2>4, <3>2, <3>3 DEF Call
  <2>5. CASE status = "other"
    <3> DEFINE a == [Idle EXCEPT !.at = IF call[c].lets THEN "answer" ELSE "idle"]
    <3>1. /\ a \in Call /\ a.posts = {} /\ a.status = "none"
          /\ a.at = IF call[c].lets THEN "answer" ELSE "idle"
      BY <2>2 DEF Call
    <3>2. q = [a EXCEPT !.lets = call[c].lets]
      BY <2>5
    <3> HIDE DEF a, q
    <3> QED
      BY <2>3, <2>5, <3>1, <3>2 DEF Call
  <2> QED
    BY <2>4, <2>5
<1> HIDE DEF q
<1>4. call'[c] = q
  BY <1>1, <1>2
<1>5. Sound(c)'
  BY <1>3, <1>4 DEF Sound, Expects, Behind, Gathers, Closes, Submits, Submitted, Succeeds, Leases,
                    Recording, Resolving
<1> QED
  BY <1>2, <1>3, <1>5

(* A step of one call that changes at most the registry besides.           *)
LEMMA Continues ==
    ASSUME IInv, NEW c \in Calls, NEW q \in Call, call' = [call EXCEPT ![c] = q],
           Sound(c)', UNCHANGED <<record, lease, posted, history>>, Lists,
           q.at = "find" \/ q.lets => Holds(c)
    PROVE  IInv'
<1>1. WorkerHoldsLease'
  BY KeepsLease DEF history
<1>2. /\ indexed' \in BOOLEAN
      /\ indexed => indexed'
      /\ lease' \in Calls \cup {NoCall} /\ lapsed' \subseteq Calls /\ told' \subseteq Posts
  BY DEF IInv, TypeOK, Lists, history
<1> QED
  BY <1>1, <1>2, StandsStill DEF history

LEMMA EndsOnly ==
    ASSUME IInv, NEW c \in Calls,
           NEW status \in {"none", "success", "terminal", "busy", "other"},
           NEW post \in Posts \cup {NoPost}, Ends(c, status, post),
           UNCHANGED <<record, lease, posted, history>>, Lists,
           status = "success" => post = outcome /\ outcome # NoPost,
           status # "other" /\ call[c].posts # {} => record.phase = "terminal"
    PROVE  IInv'
<1>1. Sound(c)' /\ \E q \in Call : /\ call' = [call EXCEPT ![c] = q]
                                   /\ q.at # "find" /\ q.lets = call[c].lets
  BY Ending DEF history
<1>2. PICK q \in Call : /\ call' = [call EXCEPT ![c] = q]
                        /\ q.at # "find" /\ q.lets = call[c].lets
  BY <1>1
<1> QED
  BY <1>1, <1>2, Continues DEF Holds

LEMMA InitHolds == Init => IInv
<1> SUFFICES ASSUME Init PROVE IInv
  OBVIOUS
<1>1. Missing \in Records /\ Rank(Missing) = 0
  BY DEF Records, Missing, Rec, Rank
<1>2. ASSUME NEW d \in Descriptors
      PROVE  /\ Attempted(d, Legacy) \in Records /\ Rank(Attempted(d, Legacy)) = 2
             /\ Attempted(d, Legacy).phase = "attempted"
             /\ Attempted(d, Legacy).attempt = Legacy
  <2>1. Legacy \in Attempts
    BY DEF Attempts
  <2>2. Attempted(d, Legacy) \in Records
    BY <2>1 DEF Records
  <2> QED
    BY <2>2 DEF Attempted, Rec, Rank
<1>3. Idle \in Call
  BY <1>1 DEF Idle, Call
<1>4. TypeOK
  <2>1. record \in Records /\ submissions \in Nat
    BY <1>1, <1>2 DEF Init
  <2>2. call \in [Calls -> Call]
    BY <1>3 DEF Init
  <2>3. posted \subseteq Posts
    BY DEF Init
  <2> QED
    BY <2>1, <2>2, <2>3 DEF Init, TypeOK
<1>5. Fenced /\ Outcome /\ RegistryMissesNothing
  BY <1>1, <1>2 DEF Init, Fenced, Outcome, RegistryMissesNothing, Missing, Rec
<1>6. WorkerHoldsLease /\ \A c \in Calls : Sound(c)
  BY DEF Init, Idle, WorkerHoldsLease, Holds, Sound, Expects, Behind, Gathers, Closes, Submits,
         Submitted, Succeeds, Leases, Recording, Resolving
<1> QED
  BY <1>4, <1>5, <1>6 DEF IInv

(* The read any operation starts with, and the next ones of execute.       *)
LEMMA ReadKeeps ==
    ASSUME IInv, NEW c \in Calls, NEW op \in Operations, NEW d \in Descriptors, Read(c, op, d)
    PROVE  IInv'
<1>1. /\ call \in [Calls -> Call] /\ call[c] \in Call /\ Sound(c) /\ Outcome
      /\ call[c].at \in {"idle", "read"} /\ record \in Records
      /\ UNCHANGED <<record, lease, posted, history>> /\ Lists
  BY DEF IInv, TypeOK, Read, ReadFails, ReadConflict, ReadMissing, ReadPrepared, ReadAttempted,
         ReadPublished, ReadTerminal, Reads, stored, Lists
<1>2. call[c].posts = {} /\ ~call[c].lets
  BY <1>1 DEF Sound, Gathers, Leases, Recording, Resolving
<1>3. CASE Ends(c, "other", NoPost)
  BY <1>1, <1>2, <1>3, EndsOnly
<1>4. CASE ReadPublished(c, d)
  BY <1>1, <1>2, <1>4, EndsOnly, Stored DEF ReadPublished, Reads, Outcome
<1>5. CASE ReadMissing(c, op, d) /\ op = "execute"
  <2> DEFINE q == [call[c] EXCEPT !.at = "create", !.asks = d]
  <2>1. call' = [call EXCEPT ![c] = q]
    BY <1>5 DEF ReadMissing
  <2>2. q \in Call /\ q.at = "create" /\ q.asks = d /\ q.posts = {} /\ ~q.lets
    BY <1>1, <1>2 DEF Call
  <2> HIDE DEF q
  <2>3. Sound(c)'
    BY <1>1, <2>1, <2>2 DEF Sound, Expects, Behind, Gathers, Closes, Submits, Submitted,
                            Succeeds, Leases, Recording, Resolving
  <2> QED
    BY <1>1, <2>1, <2>2, <2>3, Continues
<1>6. CASE \/ ReadPrepared(c, op, d) /\ op = "execute"
           \/ ReadAttempted(c, op, d) /\ op = "reconcile"
  <2> DEFINE step == IF record.phase = "prepared" THEN "fence" ELSE "lease"
             a == [call[c] EXCEPT !.at = step, !.asks = d]
             q == [a EXCEPT !.seen = record]
  <2>1. call' = [call EXCEPT ![c] = q] /\ record.phase \in {"prepared", "attempted"}
    BY <1>6 DEF ReadPrepared, ReadAttempted, Reads
  <2>2. /\ a \in Call /\ a.at = step /\ a.asks = d /\ a.posts = {} /\ ~a.lets
    BY <1>1, <1>2 DEF Call
  <2> HIDE DEF a
  <2>3. /\ q \in Call /\ q.at = step /\ q.seen = record /\ q.asks = d /\ q.posts = {} /\ ~q.lets
    BY <1>1, <2>2 DEF Call
  <2> HIDE DEF q
  <2>4. Sound(c)'
    BY <1>1, <2>1, <2>3 DEF Sound, Expects, Behind, Gathers, Closes, Submits, Submitted,
                            Succeeds, Leases, Recording, Resolving
  <2> QED
    BY <1>1, <2>1, <2>3, <2>4, Continues
<1> QED
  BY <1>3, <1>4, <1>5, <1>6 DEF Read, ReadFails, ReadConflict, ReadMissing, ReadPrepared,
     ReadAttempted, ReadTerminal, Throws

(* A lost comparison of execute.                                           *)
LEMMA AgainKeeps ==
    ASSUME IInv, NEW c \in Calls, call[c].at \in {"create", "fence"}, Again(c),
           UNCHANGED <<record, lease, posted, history>>, Lists
    PROVE  IInv'
<1>1. /\ call \in [Calls -> Call] /\ call[c] \in Call /\ Sound(c)
      /\ call[c].posts = {} /\ ~call[c].lets /\ call[c].asks \in Descriptors
  BY DEF IInv, TypeOK, Sound, Gathers, Leases, Expects, Recording, Resolving
<1>2. CASE Ends(c, "other", NoPost)
  BY <1>2, EndsOnly
<1>3. CASE call[c].tries + 1 < StoreAttempts
  <2> DEFINE q == [call[c] EXCEPT !.at = "read", !.tries = @ + 1]
  <2>1. call' = [call EXCEPT ![c] = q]
    BY <1>3 DEF Again
  <2>2. q \in Call /\ q.at = "read" /\ q.asks = call[c].asks /\ q.posts = {} /\ ~q.lets
    <3>1. call[c].tries + 1 \in 0 .. StoreAttempts
      BY <1>1, <1>3 DEF Call
    <3> QED
      BY <1>1, <3>1 DEF Call
  <2> HIDE DEF q
  <2>3. Sound(c)'
    BY <1>1, <2>1, <2>2 DEF Sound, Expects, Behind, Gathers, Closes, Submits, Submitted,
                            Succeeds, Leases, Recording, Resolving
  <2> QED
    BY <2>1, <2>2, <2>3, Continues
<1> QED
  BY <1>2, <1>3 DEF Again

LEMMA CreateIndexKeeps ==
    ASSUME IInv, NEW c \in Calls, CreateIndex(c)
    PROVE  IInv'
<1>1. CASE Throws(c)
  BY <1>1, EndsOnly DEF CreateIndex, Throws, Lists
<1>2. CASE UNCHANGED call
  <2> DEFINE q == call[c]
  <2>1. q \in Call /\ call' = [call EXCEPT ![c] = q] /\ Sound(c) /\ call[c].at = "create"
    BY <1>2 DEF IInv, TypeOK, CreateIndex
  <2>2. Sound(c)'
    BY <1>2, <2>1 DEF CreateIndex, history, Sound, Expects, Behind, Gathers, Closes, Submits,
                      Submitted, Succeeds, Leases
  <2> QED
    BY <2>1, <2>2, Continues DEF CreateIndex, Lists, Holds
<1> QED
  BY <1>1, <1>2 DEF CreateIndex

(* A step of one call that raises the record, when no other call is about  *)
(* to submit.                                                              *)
LEMMA Writes ==
    ASSUME IInv, NEW c \in Calls, Sound(c)',
           \E q \in Call : /\ call' = [call EXCEPT ![c] = q]
                           /\ q.at # "find" /\ q.lets = call[c].lets,
           record' \in Records, Rank(record') > Rank(record), indexed' = TRUE,
           UNCHANGED <<lease, posted, lapsed, submissions, told>>,
           Fenced', Outcome', outcome' \in Posts \cup {NoPost},
           outcome' = outcome \/ outcome = NoPost,
           \A d \in Calls \ {c} : call[d].at # "publish"
    PROVE  IInv'
<1>1. PICK q \in Call : /\ call' = [call EXCEPT ![c] = q]
                        /\ q.at # "find" /\ q.lets = call[c].lets
  OBVIOUS
<1>2. WorkerHoldsLease'
  BY <1>1, KeepsLease DEF Holds
<1>3. Rises /\ RegistryMissesNothing' /\ indexed' \in BOOLEAN
  BY DEF Rises, RegistryMissesNothing
<1>4. /\ lease' \in Calls \cup {NoCall} /\ posted' \subseteq Posts /\ lapsed' \subseteq Calls
      /\ told' \subseteq Posts /\ submissions' \in {submissions, 1}
  BY DEF IInv, TypeOK
<1> QED
  BY <1>1, <1>2, <1>3, <1>4, Moves

(* Before the fence, and after the submission, nobody is about to submit.  *)
LEMMA NobodySubmits ==
    ASSUME IInv, Rank(record) < 2 \/ submissions = 1, NEW d \in Calls
    PROVE  call[d].at # "publish"
<1> SUFFICES ASSUME call[d].at = "publish" PROVE FALSE
  OBVIOUS
<1>1. submissions = 0 /\ call[d].seen.phase = "attempted" /\ call[d].seen \in Records
  BY DEF IInv, TypeOK, Call, Sound, Submits, Expects
<1>2. Rank(record) >= 2
  BY <1>1, Stored DEF IInv, TypeOK, Sound, Behind
<1>3. Rank(record) \in Nat
  BY Stored DEF IInv, TypeOK
<1> QED
  BY <1>1, <1>2, <1>3

LEMMA CreateKeeps ==
    ASSUME IInv, NEW c \in Calls, Create(c)
    PROVE  IInv'
<1>1. /\ call \in [Calls -> Call] /\ call[c] \in Call /\ Sound(c) /\ record \in Records
      /\ call[c].posts = {} /\ ~call[c].lets /\ call[c].asks \in Descriptors
      /\ call[c].at = "create" /\ indexed = TRUE
      /\ UNCHANGED <<indexed, lease, posted, history>>
  BY DEF IInv, TypeOK, Create, Sound, Gathers, Leases, Expects, Recording, Resolving
<1>2. CASE record' = record
  BY <1>1, <1>2, EndsOnly, AgainKeeps, Made DEF Create, Throws, Lists, Missing, Prepared, Rec
<1>3. CASE record = Missing /\ record' = Prepared(call[c].asks)
  <2>1. /\ record' \in Records /\ Rank(record') = 1 /\ record'.phase = "prepared"
    <3>1. record' \in Records
      BY <1>1, <1>3 DEF Records
    <3> QED
      BY <1>3, <3>1 DEF Prepared, Rec, Rank
  <2>2. Rank(record) = 0
    BY <1>3 DEF Missing, Rec, Rank
  <2>3. Fenced' /\ Outcome'
    BY <1>1, <2>1, <2>2 DEF IInv, Fenced, Outcome, history
  <2>4. /\ outcome' \in Posts \cup {NoPost} /\ outcome' = outcome
        /\ UNCHANGED <<lease, posted, lapsed, submissions, told>>
        /\ indexed' = TRUE /\ Rank(record') > Rank(record)
    BY <1>1, <2>1, <2>2 DEF IInv, TypeOK, history
  <2>5. \A d \in Calls \ {c} : call[d].at # "publish"
    BY <2>2, NobodySubmits, 0 < 2
  <2>6. CASE Throws(c)
    <3>1. Sound(c)' /\ \E q \in Call : /\ call' = [call EXCEPT ![c] = q]
                                       /\ q.at # "find" /\ q.lets = call[c].lets
      BY <1>1, <2>6, Ending DEF Throws
    <3> QED
      BY <1>1, <2>1, <2>2, <2>3, <2>4, <2>5, <3>1, Writes
  <2>7. CASE call' = [call EXCEPT ![c].at = "fence", ![c].seen = record']
    <3> DEFINE q == [call[c] EXCEPT !.at = "fence", !.seen = record']
    <3>1. call' = [call EXCEPT ![c] = q]
      BY <2>7
    <3>2. /\ q \in Call /\ q.at = "fence" /\ q.seen = record'
          /\ q.asks = call[c].asks /\ q.posts = {} /\ q.lets = call[c].lets
      BY <1>1, <2>1 DEF Call
    <3> HIDE DEF q
    <3>3. Sound(c)'
      BY <1>1, <2>1, <3>1, <3>2 DEF Sound, Expects, Behind, Gathers, Closes, Submits, Submitted,
                                    Succeeds, Leases, Recording, Resolving
    <3>4. q.at # "find"
      BY <3>2
    <3> QED
      BY <1>1, <2>1, <2>2, <2>3, <2>4, <2>5, <3>1, <3>2, <3>3, <3>4, Writes
  <2> QED
    BY <1>2, <1>3, <2>6, <2>7, <1>1 DEF Create, Missing, Prepared, Rec
<1> QED
  BY <1>2, <1>3 DEF Create

LEMMA FenceKeeps ==
    ASSUME IInv, NEW c \in Calls, Fence(c)
    PROVE  IInv'
<1>1. /\ call \in [Calls -> Call] /\ call[c] \in Call /\ Sound(c) /\ record \in Records
      /\ call[c].posts = {} /\ ~call[c].lets /\ call[c].asks \in Descriptors
      /\ call[c].at = "fence" /\ call[c].seen.phase = "prepared" /\ call[c].seen \in Records
      /\ UNCHANGED <<lease, posted, history>>
  BY DEF IInv, TypeOK, Call, Fence, Sound, Gathers, Leases, Expects, Recording, Resolving
<1>2. CASE Loses(c) /\ Again(c)
  BY <1>1, <1>2, AgainKeeps DEF Loses, Lists
<1>3. CASE Breaks /\ Throws(c)
  BY <1>1, <1>3, EndsOnly DEF Breaks, Throws
<1>4. ASSUME Swaps(c, Attempted(call[c].asks, c)),
             \/ call' = [call EXCEPT ![c].at = "publish", ![c].seen = Attempted(call[c].asks, c)]
             \/ Throws(c)
      PROVE  IInv'
  <2> DEFINE new == Attempted(call[c].asks, c)
  <2>1. new \in Records /\ Rank(new) = 2 /\ new.phase = "attempted" /\ new.attempt = c
    <3>1. new \in Records
      BY <1>1 DEF Records, Attempts
    <3> QED
      BY <3>1 DEF Attempted, Rec, Rank
  <2>2. Rank(record) = 1 /\ record' = new /\ indexed' = TRUE /\ record'.phase = "attempted"
    BY <1>1, <1>4, <2>1, Stored DEF Swaps
  <2>3. submissions = 0 /\ Fenced' /\ Outcome'
    BY <1>1, <2>1, <2>2 DEF IInv, Fenced, Outcome, history
  <2>4. /\ outcome' \in Posts \cup {NoPost} /\ outcome' = outcome
        /\ UNCHANGED <<lease, posted, lapsed, submissions, told>>
        /\ record' \in Records /\ Rank(record') > Rank(record)
    BY <1>1, <2>1, <2>2 DEF IInv, TypeOK, history
  <2>5. \A d \in Calls \ {c} : call[d].at # "publish"
    BY <2>2, NobodySubmits, 1 < 2
  <2> HIDE DEF new
  <2>6. CASE Throws(c)
    <3>1. Sound(c)' /\ \E q \in Call : /\ call' = [call EXCEPT ![c] = q]
                                       /\ q.at # "find" /\ q.lets = call[c].lets
      BY <1>1, <2>6, Ending DEF Throws
    <3> QED
      BY <1>1, <2>2, <2>3, <2>4, <2>5, <3>1, Writes
  <2>7. CASE call' = [call EXCEPT ![c].at = "publish", ![c].seen = new]
    <3> DEFINE q == [call[c] EXCEPT !.at = "publish", !.seen = new]
    <3>1. call' = [call EXCEPT ![c] = q]
      BY <2>7
    <3>2. /\ q \in Call /\ q.at = "publish" /\ q.seen = new
          /\ q.asks = call[c].asks /\ q.posts = {} /\ q.lets = call[c].lets
      BY <1>1, <2>1 DEF Call
    <3> HIDE DEF q
    <3>3. Sound(c)'
      BY <1>1, <2>1, <2>2, <2>3, <2>4, <3>1, <3>2 DEF Sound, Expects, Behind, Gathers, Closes,
         Submits, Submitted, Succeeds, Leases, Recording, Resolving
    <3>4. q.at # "find"
      BY <3>2
    <3> QED
      BY <1>1, <2>2, <2>3, <2>4, <2>5, <3>1, <3>2, <3>3, <3>4, Writes
  <2> QED
    BY <1>4, <2>6, <2>7 DEF new
<1> QED
  BY <1>2, <1>3, <1>4 DEF Fence

(* The one submission.                                                     *)
LEMMA PublishKeeps ==
    ASSUME IInv, NEW c \in Calls, Publish(c)
    PROVE  IInv'
<1>1. /\ call \in [Calls -> Call] /\ call[c] \in Call /\ Sound(c) /\ record \in Records
      /\ call[c].posts = {} /\ ~call[c].lets /\ call[c].asks \in Descriptors
      /\ call[c].at = "publish" /\ call[c].seen.phase = "attempted" /\ call[c].seen \in Records
      /\ submissions = 0 /\ record.attempt = c
      /\ UNCHANGED <<stored, lease, lapsed, outcome, told>>
  BY DEF IInv, TypeOK, Call, Publish, Sound, Submits, Gathers, Leases, Expects, Recording, Resolving
<1>2. Rank(record) \in Nat /\ Rank(record) >= 2
  BY <1>1, Stored DEF Sound, Behind
<1>3. PICK made \in SUBSET (Posts \ posted) :
        /\ posted' = posted \cup made
        /\ \/ \E p \in made :
                call' = [call EXCEPT ![c].at = "commit", ![c].post = p, ![c].tries = 0]
           \/ Throws(c)
  BY DEF Publish
<1>4. submissions' = 1 /\ posted' \subseteq Posts
  <2>1. submissions' = submissions + 1
    BY DEF Publish
  <2>2. posted' \subseteq Posts
    BY <1>3 DEF IInv, TypeOK
  <2> QED
    BY <1>1, <2>1, <2>2
<1>5. Rises /\ Fenced' /\ Outcome' /\ RegistryMissesNothing'
  BY <1>1, <1>2, <1>4 DEF IInv, Rises, Fenced, Outcome, RegistryMissesNothing, stored
<1>6. /\ indexed' \in BOOLEAN /\ lease' \in Calls \cup {NoCall} /\ lapsed' \subseteq Calls
      /\ outcome' \in Posts \cup {NoPost} /\ told' \subseteq Posts /\ outcome' = outcome
  BY <1>1 DEF IInv, TypeOK, stored
<1>7. ASSUME NEW d \in Calls \ {c} PROVE call[d].at # "publish"
  BY <1>1 DEF IInv, Sound, Submits
<1>8. Sound(c)' /\ \E q \in Call : /\ call' = [call EXCEPT ![c] = q]
                                   /\ q.at # "find" /\ q.lets = call[c].lets
  <2>1. CASE Throws(c)
    BY <1>1, <2>1, Ending DEF Throws
  <2>2. ASSUME NEW p \in made,
               call' = [call EXCEPT ![c].at = "commit", ![c].post = p, ![c].tries = 0]
        PROVE  Sound(c)' /\ \E q \in Call : /\ call' = [call EXCEPT ![c] = q]
                                            /\ q.at # "find" /\ q.lets = call[c].lets
    <3> DEFINE a == [call[c] EXCEPT !.at = "commit", !.post = p]
               q == [a EXCEPT !.tries = 0]
    <3>1. call' = [call EXCEPT ![c] = q]
      BY <2>2
    <3>2. /\ a \in Call /\ a.at = "commit" /\ a.post = p /\ a.seen = call[c].seen
          /\ a.asks = call[c].asks /\ a.posts = {} /\ a.lets = call[c].lets
      BY <1>1 DEF Call
    <3> HIDE DEF a
    <3>3. /\ q \in Call /\ q.at = "commit" /\ q.post = p /\ q.seen = call[c].seen
          /\ q.asks = call[c].asks /\ q.posts = {} /\ q.lets = call[c].lets
      BY <3>2 DEF Call
    <3> HIDE DEF q
    <3>4. Sound(c)'
      BY <1>1, <1>4, <3>1, <3>3 DEF stored, Sound, Expects, Behind, Gathers, Closes,
         Submits, Submitted, Succeeds, Leases, Recording, Resolving
    <3>5. q.at # "find"
      BY <3>3
    <3> QED
      BY <3>1, <3>3, <3>4, <3>5
  <2> QED
    BY <1>3, <2>1, <2>2
<1>9. PICK q \in Call : /\ call' = [call EXCEPT ![c] = q]
                        /\ q.at # "find" /\ q.lets = call[c].lets
  BY <1>8
<1>10. WorkerHoldsLease'
  BY <1>1, <1>9, KeepsLease DEF Holds
<1> QED
  BY <1>4, <1>5, <1>6, <1>7, <1>8, <1>9, <1>10, Moves

LEMMA CommitKeeps ==
    ASSUME IInv, NEW c \in Calls, Commit(c)
    PROVE  IInv'
<1>1. /\ call \in [Calls -> Call] /\ call[c] \in Call /\ Sound(c) /\ record \in Records
      /\ call[c].posts = {} /\ call[c].asks \in Descriptors /\ call[c].post \in Posts
      /\ call[c].at = "commit" /\ call[c].seen.phase = "attempted" /\ call[c].seen \in Records
      /\ submissions = 1
      /\ UNCHANGED <<lease, posted, lapsed, submissions, told>>
  BY DEF IInv, TypeOK, Call, Commit, Sound, Submitted, Gathers, Expects, Recording, Resolving
<1>2. CASE Loses(c) /\ Goes(c, "reread") /\ UNCHANGED outcome
  <2> DEFINE q == [call[c] EXCEPT !.at = "reread"]
  <2>1. call' = [call EXCEPT ![c] = q]
    BY <1>2 DEF Goes
  <2>2. /\ q \in Call /\ q.at = "reread" /\ q.asks = call[c].asks /\ q.post = call[c].post
        /\ q.seen = call[c].seen /\ q.posts = {} /\ q.lets = call[c].lets
    BY <1>1 DEF Call
  <2> HIDE DEF q
  <2>3. Sound(c)'
    BY <1>1, <1>2, <2>1, <2>2 DEF Loses, Sound, Expects, Behind, Gathers, Closes,
       Submits, Submitted, Succeeds, Leases, Recording, Resolving
  <2>4. Lists /\ UNCHANGED <<record, lease, posted, history>> /\ (q.at = "find" \/ q.lets => Holds(c))
    BY <1>1, <1>2, <2>2 DEF Loses, Lists, history, Holds
  <2> QED
    BY <2>1, <2>2, <2>3, <2>4, Continues
<1>3. CASE Breaks /\ Throws(c) /\ UNCHANGED outcome
  BY <1>1, <1>3, EndsOnly DEF Breaks, Throws, history
<1>4. ASSUME Swaps(c, Published(call[c].seen.of, call[c].seen.attempt, call[c].post)),
             outcome' = call[c].post,
             Ends(c, "success", call[c].post) \/ Throws(c)
      PROVE  IInv'
  <2> DEFINE new == Published(call[c].seen.of, call[c].seen.attempt, call[c].post)
  <2>1. new \in Records /\ Rank(new) = 3 /\ new.phase = "published" /\ new.post = call[c].post
    <3>1. call[c].seen.of \in Descriptors /\ call[c].seen.attempt \in Attempts
      BY <1>1, Stored
    <3>2. new \in Records
      BY <1>1, <3>1 DEF Records
    <3> QED
      BY <3>2 DEF Published, Rec, Rank
  <2>2. Rank(record) = 2 /\ record' = new /\ indexed' = TRUE
    BY <1>1, <1>4, Stored DEF Swaps
  <2> HIDE DEF new
  <2>3. Fenced' /\ Outcome' /\ outcome = NoPost
    BY <1>1, <1>4, <2>1, <2>2 DEF IInv, Fenced, Outcome
  <2>4. /\ record' \in Records /\ Rank(record') > Rank(record)
        /\ outcome' \in Posts \cup {NoPost} /\ outcome' # NoPost
    BY <1>1, <1>4, <2>1, <2>2
  <2>5. \A d \in Calls \ {c} : call[d].at # "publish"
    BY <1>1, NobodySubmits
  <2>6. Sound(c)' /\ \E q \in Call : /\ call' = [call EXCEPT ![c] = q]
                                     /\ q.at # "find" /\ q.lets = call[c].lets
    BY <1>1, <1>4, <2>4, Ending DEF Throws
  <2> QED
    BY <1>1, <2>2, <2>3, <2>4, <2>5, <2>6, Writes
<1> QED
  BY <1>2, <1>3, <1>4 DEF Commit

(* After a lost commit: the record can only have risen.                    *)
LEMMA RereadKeeps ==
    ASSUME IInv, NEW c \in Calls, Reread(c)
    PROVE  IInv'
<1>1. /\ call \in [Calls -> Call] /\ call[c] \in Call /\ Sound(c) /\ record \in Records
      /\ call[c].posts = {} /\ call[c].asks \in Descriptors /\ call[c].post \in Posts
      /\ call[c].at = "reread" /\ submissions = 1 /\ call[c].tries \in 0 .. StoreAttempts
      /\ UNCHANGED <<record, lease, posted, history>> /\ Lists
      /\ outcome \in Posts \cup {NoPost}
  BY DEF IInv, TypeOK, Call, Reread, Sound, Submitted, Gathers, Expects, Recording, Resolving
<1>2. CASE \/ Throws(c)
           \/ Ends(c, "busy", NoPost)
           \/ Ends(c, "terminal", NoPost)
  BY <1>1, <1>2, EndsOnly DEF Throws
<1>3. CASE record.phase = "published" /\ Ends(c, "success", record.post)
  <2>1. record.post \in Posts /\ record.post = outcome
    BY <1>1, <1>3, Stored DEF IInv, Outcome
  <2> QED
    BY <1>1, <1>3, <2>1, EndsOnly
<1>4. ASSUME record.phase = "published", record.post # call[c].post,
             call' = [call EXCEPT ![c].at = "terminate", ![c].seen = record,
                                  ![c].posts = {record.post, call[c].post},
                                  ![c].tries = 0]
      PROVE  IInv'
  <2> DEFINE both == {record.post, call[c].post}
             a == [call[c] EXCEPT !.at = "terminate", !.seen = record]
             q == [a EXCEPT !.posts = both, !.tries = 0]
  <2>1. call' = [call EXCEPT ![c] = q]
    BY <1>4
  <2>2. /\ both \in Evidence /\ both \in SUBSET Posts /\ record.post \in both
        /\ Rank(record) = 3 /\ 0 \in 0 .. StoreAttempts
    BY <1>1, <1>4, Stored DEF Evidence
  <2> HIDE DEF both
  <2>3. /\ a \in Call /\ a.at = "terminate" /\ a.seen = record
        /\ a.asks = call[c].asks /\ a.lets = call[c].lets
    BY <1>1 DEF Call
  <2> HIDE DEF a
  <2>4. /\ q \in Call /\ q.at = "terminate" /\ q.seen = record /\ q.posts = both /\ q.tries = 0
        /\ q.asks = call[c].asks /\ q.lets = call[c].lets
    BY <2>2, <2>3 DEF Call
  <2> HIDE DEF q
  <2>5. Sound(c)'
    <3>1. call'[c] = q /\ record' = record /\ submissions' = 1
      BY <1>1, <2>1 DEF history
    <3>2. Expects(c)' /\ Behind(c)' /\ Gathers(c)'
      BY <1>1, <1>4, <2>2, <2>4, <3>1 DEF Expects, Behind, Gathers, Resolving
    <3>3. Closes(c)' /\ Submits(c)' /\ Submitted(c)' /\ Succeeds(c)' /\ Leases(c)'
      BY <2>2, <2>4, <3>1 DEF Closes, Submits, Submitted, Succeeds, Leases, Recording
    <3> QED
      BY <3>2, <3>3 DEF Sound
  <2>6. q.at = "find" \/ q.lets => Holds(c)
    BY <2>4 DEF Holds
  <2> QED
    BY <1>1, <2>1, <2>4, <2>5, <2>6, Continues
<1>5. ASSUME record.phase = "attempted", call[c].tries + 1 < StoreAttempts,
             call' = [call EXCEPT ![c].at = "commit", ![c].seen = record, ![c].tries = @ + 1]
      PROVE  IInv'
  <2> DEFINE n == call[c].tries + 1
             a == [call[c] EXCEPT !.at = "commit", !.seen = record]
             q == [a EXCEPT !.tries = n]
  <2>1. call' = [call EXCEPT ![c] = q]
    BY <1>5
  <2>2. n \in 0 .. StoreAttempts
    BY <1>1, <1>5
  <2> HIDE DEF n
  <2>3. /\ a \in Call /\ a.at = "commit" /\ a.seen = record /\ a.post = call[c].post
        /\ a.asks = call[c].asks /\ a.lets = call[c].lets /\ a.posts = {}
    BY <1>1 DEF Call
  <2> HIDE DEF a
  <2>4. /\ q \in Call /\ q.at = "commit" /\ q.seen = record /\ q.post = call[c].post
        /\ q.asks = call[c].asks /\ q.lets = call[c].lets /\ q.posts = {}
    BY <2>2, <2>3 DEF Call
  <2> HIDE DEF q
  <2>5. Sound(c)'
    BY <1>1, <1>5, <2>1, <2>4 DEF history, Sound, Expects, Behind, Gathers, Closes,
       Submits, Submitted, Succeeds, Leases, Recording, Resolving
  <2>6. q.at = "find" \/ q.lets => Holds(c)
    BY <2>4 DEF Holds
  <2> QED
    BY <1>1, <2>1, <2>4, <2>5, <2>6, Continues
<1> QED
  BY <1>2, <1>3, <1>4, <1>5 DEF Reread

LEMMA TerminateKeeps ==
    ASSUME IInv, NEW c \in Calls, Terminate(c)
    PROVE  IInv'
<1>1. /\ call \in [Calls -> Call] /\ call[c] \in Call /\ Sound(c) /\ record \in Records
      /\ call[c].posts \in Evidence /\ call[c].asks \in Descriptors
      /\ call[c].at = "terminate" /\ submissions = 1 /\ call[c].tries \in 0 .. StoreAttempts
      /\ call[c].seen \in Records /\ call[c].seen.phase \in {"attempted", "published"}
      /\ UNCHANGED <<lease, posted, history>>
  BY DEF IInv, TypeOK, Call, Terminate, Sound, Submitted, Gathers, Expects, Recording, Resolving
<1>2. CASE Loses(c) /\ Goes(c, "converge")
  <2> DEFINE q == [call[c] EXCEPT !.at = "converge"]
  <2>1. call' = [call EXCEPT ![c] = q]
    BY <1>2 DEF Goes
  <2>2. /\ q \in Call /\ q.at = "converge" /\ q.asks = call[c].asks /\ q.tries = call[c].tries
        /\ q.seen = call[c].seen /\ q.posts = call[c].posts /\ q.lets = call[c].lets
    BY <1>1 DEF Call
  <2> HIDE DEF q
  <2>3. Rank(record) >= call[c].tries + 3
    <3>1. Rank(record) > Rank(call[c].seen) /\ Rank(call[c].seen) >= call[c].tries + 2
      BY <1>1, <1>2 DEF Loses, Sound, Behind, Closes
    <3>2. Rank(record) \in Nat /\ Rank(call[c].seen) \in Nat /\ call[c].tries \in Nat
      BY <1>1, Stored
    <3> QED
      BY <3>1, <3>2
  <2>4. Sound(c)'
    BY <1>1, <1>2, <2>1, <2>2, <2>3 DEF Loses, history, Sound, Expects, Behind, Gathers, Closes,
       Submits, Submitted, Succeeds, Leases, Recording, Resolving
  <2>5. Lists /\ UNCHANGED <<record, lease, posted, history>> /\ (q.at = "find" \/ q.lets => Holds(c))
    BY <1>1, <1>2, <2>2 DEF Loses, Lists, Holds
  <2> QED
    BY <2>1, <2>2, <2>4, <2>5, Continues
<1>3. CASE Breaks /\ Throws(c)
  BY <1>1, <1>3, EndsOnly DEF Breaks, Throws
<1>4. ASSUME Swaps(c, Terminal(call[c].seen.of, call[c].seen.attempt, call[c].posts)),
             Ends(c, "terminal", NoPost) \/ Throws(c)
      PROVE  IInv'
  <2> DEFINE new == Terminal(call[c].seen.of, call[c].seen.attempt, call[c].posts)
  <2>1. new \in Records /\ Rank(new) = 4 /\ new.phase = "terminal"
    <3>1. call[c].seen.of \in Descriptors /\ call[c].seen.attempt \in Attempts
      BY <1>1, Stored
    <3>2. new \in Records
      BY <1>1, <3>1 DEF Records
    <3> QED
      BY <3>2 DEF Terminal, Rec, Rank
  <2>2. Rank(record) \in {2, 3} /\ record' = new /\ indexed' = TRUE
    BY <1>1, <1>4, Stored DEF Swaps
  <2> HIDE DEF new
  <2>3. Fenced' /\ Outcome'
    BY <1>1, <1>4, <2>1, <2>2 DEF IInv, Fenced, Outcome, history
  <2>4. /\ record' \in Records /\ Rank(record') > Rank(record) /\ record'.phase = "terminal"
        /\ outcome' \in Posts \cup {NoPost} /\ outcome' = outcome
        /\ UNCHANGED <<lease, posted, lapsed, submissions, told>>
    BY <1>1, <2>1, <2>2 DEF IInv, TypeOK, history
  <2>5. \A d \in Calls \ {c} : call[d].at # "publish"
    BY <1>1, NobodySubmits
  <2>6. Sound(c)' /\ \E q \in Call : /\ call' = [call EXCEPT ![c] = q]
                                     /\ q.at # "find" /\ q.lets = call[c].lets
    BY <1>1, <1>4, <2>4, Ending DEF Throws
  <2> QED
    BY <1>1, <2>2, <2>3, <2>4, <2>5, <2>6, Writes
<1> QED
  BY <1>2, <1>3, <1>4 DEF Terminate

(* After a lost terminate: one attempt more is always left.                *)
LEMMA ConvergeKeeps ==
    ASSUME IInv, NEW c \in Calls, Converge(c)
    PROVE  IInv'
<1>1. /\ call \in [Calls -> Call] /\ call[c] \in Call /\ Sound(c) /\ record \in Records
      /\ call[c].posts \in Evidence /\ call[c].asks \in Descriptors
      /\ call[c].at = "converge" /\ submissions = 1 /\ call[c].tries \in 0 .. StoreAttempts
      /\ UNCHANGED <<record, lease, posted, history>> /\ Lists
      /\ Rank(record) >= call[c].tries + 3
  BY DEF IInv, TypeOK, Call, Converge, Sound, Submitted, Gathers, Closes, Expects, Recording,
         Resolving
<1>2. CASE \/ Throws(c)
           \/ record.phase = "terminal" /\ Ends(c, "terminal", NoPost)
  BY <1>1, <1>2, EndsOnly DEF Throws
<1>3. CASE record.phase \in {"attempted", "published"}
  <2>1. /\ call[c].tries = 0 /\ Rank(record) = 3 /\ record.phase = "published"
        /\ record.post \in Posts
    BY <1>1, <1>3, Stored
  <2>2. call[c].tries + 1 < ConvergeAttempts
    BY <2>1 DEF ConvergeAttempts
  <2>3. CASE Throws(c)
    BY <1>2, <2>3
  <2>4. ASSUME call' = [call EXCEPT ![c].at = "terminate", ![c].seen = record,
                                    ![c].posts = @ \cup ({record.post} \ {NoPost}),
                                    ![c].tries = @ + 1]
        PROVE  IInv'
    <3> DEFINE found == call[c].posts \cup ({record.post} \ {NoPost})
               n == call[c].tries + 1
               a == [call[c] EXCEPT !.at = "terminate", !.seen = record]
               q == [a EXCEPT !.posts = found, !.tries = n]
    <3>1. call' = [call EXCEPT ![c] = q]
      BY <2>4
    <3>2. found \in Evidence /\ record.post \in found
      BY <1>1, <2>1 DEF Evidence
    <3>3. n = 1 /\ n \in 0 .. StoreAttempts
      BY <2>1
    <3> HIDE DEF found, n
    <3>4. /\ a \in Call /\ a.at = "terminate" /\ a.seen = record
          /\ a.asks = call[c].asks /\ a.lets = call[c].lets
      BY <1>1 DEF Call
    <3> HIDE DEF a
    <3>5. /\ q \in Call /\ q.at = "terminate" /\ q.seen = record /\ q.posts = found /\ q.tries = 1
          /\ q.asks = call[c].asks /\ q.lets = call[c].lets
      BY <3>2, <3>3, <3>4 DEF Call, Evidence
    <3> HIDE DEF q
    <3>6. Sound(c)'
      BY <1>1, <1>3, <2>1, <3>1, <3>2, <3>5 DEF history, Sound, Expects, Behind, Gathers, Closes,
         Submits, Submitted, Succeeds, Leases, Recording, Resolving
    <3>7. q.at = "find" \/ q.lets => Holds(c)
      BY <3>5 DEF Holds
    <3> QED
      BY <1>1, <3>1, <3>5, <3>6, <3>7, Continues
  <2> QED
    BY <1>3, <2>2, <2>3, <2>4 DEF Converge
<1> QED
  BY <1>2, <1>3 DEF Converge

LEMMA LeaseKeeps ==
    ASSUME IInv, NEW c \in Calls, Lease(c)
    PROVE  IInv'
<1>1. /\ call \in [Calls -> Call] /\ call[c] \in Call /\ Sound(c) /\ WorkerHoldsLease
      /\ call[c].posts = {} /\ ~call[c].lets /\ call[c].asks \in Descriptors
      /\ call[c].at = "lease" /\ call[c].seen.phase = "attempted"
      /\ UNCHANGED <<stored, posted, history>>
  BY DEF IInv, TypeOK, Lease, Sound, Gathers, Leases, Expects, Recording, Resolving
<1>2. CASE UNCHANGED lease /\ (Throws(c) \/ Ends(c, "other", NoPost))
  BY <1>1, <1>2, EndsOnly DEF Throws, stored, Lists
<1>3. CASE lease = NoCall /\ lease' = c
  <2>1. /\ Sound(c)'
        /\ \E q \in Call : call' = [call EXCEPT ![c] = q] /\ (q.at = "find" \/ ~q.lets)
    <3>1. CASE Throws(c)
      BY <1>1, <3>1, Ending DEF Throws
    <3>2. CASE Goes(c, "find")
      <4> DEFINE q == [call[c] EXCEPT !.at = "find"]
      <4>1. call' = [call EXCEPT ![c] = q]
        BY <3>2 DEF Goes
      <4>2. /\ q \in Call /\ q.at = "find" /\ q.asks = call[c].asks
            /\ q.seen = call[c].seen /\ q.posts = {} /\ q.lets = call[c].lets
        BY <1>1 DEF Call
      <4> HIDE DEF q
      <4>3. Sound(c)'
        BY <1>1, <4>1, <4>2 DEF stored, Sound, Expects, Behind, Gathers, Closes, Submits,
           Submitted, Succeeds, Leases, Recording, Resolving
      <4> QED
        BY <4>1, <4>2, <4>3
    <3> QED
      BY <1>2, <1>3, <3>1, <3>2 DEF Lease, Throws
  <2>2. PICK q \in Call : call' = [call EXCEPT ![c] = q]
    BY <2>1
  <2>3. ASSUME NEW d \in Calls, Holds(d)' PROVE d \in lapsed \/ lease' = d
    <3>1. CASE d = c
      BY <1>3, <3>1
    <3>2. CASE d # c
      <4>1. Holds(d) /\ lease # d
        BY <1>1, <1>3, <2>2, <2>3, <3>2 DEF Holds
      <4> QED
        BY <1>1, <4>1 DEF WorkerHoldsLease
    <3> QED
      BY <3>1, <3>2
  <2>4. WorkerHoldsLease'
    BY <1>1, <2>3 DEF WorkerHoldsLease, history
  <2>5. /\ indexed' \in BOOLEAN
        /\ lease' \in Calls \cup {NoCall} /\ lapsed' \subseteq Calls /\ told' \subseteq Posts
    BY <1>1, <1>3 DEF IInv, TypeOK, stored, history
  <2> QED
    BY <1>1, <2>1, <2>2, <2>4, <2>5, StandsStill DEF stored, history
<1> QED
  BY <1>2, <1>3 DEF Lease

(* A post that is found was submitted.                                     *)
LEMMA FindKeeps ==
    ASSUME IInv, NEW c \in Calls, Find(c)
    PROVE  IInv'
<1>1. /\ call \in [Calls -> Call] /\ call[c] \in Call /\ Sound(c)
      /\ call[c].posts = {} /\ call[c].asks \in Descriptors
      /\ call[c].at = "find" /\ call[c].seen.phase = "attempted" /\ call[c].seen \in Records
      /\ posted \subseteq Posts
      /\ posted # {} => submissions = 1
      /\ UNCHANGED <<stored, lease, posted, history>>
  BY DEF IInv, TypeOK, Call, Fenced, Find, Sound, Gathers, Expects, Resolving
<1>2. 0 \in 0 .. StoreAttempts /\ Holds(c)
  BY <1>1 DEF Holds
<1>3. ASSUME NEW p \in posted,
             call' = [call EXCEPT ![c].at = "commit", ![c].post = p, ![c].tries = 0,
                                  ![c].lets = TRUE]
      PROVE  IInv'
  <2> DEFINE a == [call[c] EXCEPT !.at = "commit", !.post = p]
             q == [a EXCEPT !.tries = 0, !.lets = TRUE]
  <2>1. call' = [call EXCEPT ![c] = q]
    BY <1>3
  <2>2. /\ a \in Call /\ a.at = "commit" /\ a.post = p /\ a.posts = {}
        /\ a.seen = call[c].seen /\ a.asks = call[c].asks
    BY <1>1 DEF Call
  <2> HIDE DEF a
  <2>3. /\ q \in Call /\ q.at = "commit" /\ q.post = p /\ q.posts = {} /\ q.lets
        /\ q.seen = call[c].seen /\ q.asks = call[c].asks
    BY <1>2, <2>2 DEF Call
  <2> HIDE DEF q
  <2>4. Sound(c)'
    BY <1>1, <2>1, <2>3 DEF stored, history, Sound, Expects, Behind, Gathers, Closes, Submits,
       Submitted, Succeeds, Leases, Recording, Resolving
  <2> QED
    BY <1>1, <1>2, <2>1, <2>3, <2>4, Continues DEF stored, Lists
<1>4. ASSUME NEW found \in (SUBSET posted) \cap Evidence,
             call' = [call EXCEPT ![c].at = "terminate", ![c].posts = found, ![c].tries = 0,
                                  ![c].lets = TRUE]
      PROVE  IInv'
  <2> DEFINE a == [call[c] EXCEPT !.at = "terminate", !.posts = found]
             q == [a EXCEPT !.tries = 0, !.lets = TRUE]
  <2>1. call' = [call EXCEPT ![c] = q]
    BY <1>4
  <2>2. found \in SUBSET Posts /\ found \in Evidence /\ posted # {}
    BY <1>1 DEF Evidence
  <2>3. /\ a \in Call /\ a.at = "terminate" /\ a.posts = found
        /\ a.seen = call[c].seen /\ a.asks = call[c].asks
    BY <1>1, <2>2 DEF Call
  <2> HIDE DEF a
  <2>4. /\ q \in Call /\ q.at = "terminate" /\ q.posts = found /\ q.tries = 0 /\ q.lets
        /\ q.seen = call[c].seen /\ q.asks = call[c].asks
    BY <1>2, <2>3 DEF Call
  <2> HIDE DEF q
  <2>5. Rank(call[c].seen) = 2
    BY <1>1, Stored
  <2>6. call'[c] = q /\ record' = record /\ submissions' = 1
    BY <1>1, <2>1, <2>2 DEF stored, history
  <2>7. Expects(c)' /\ Behind(c)' /\ Gathers(c)'
    BY <1>1, <2>2, <2>4, <2>6 DEF Sound, Expects, Behind, Gathers, Resolving
  <2>8. Closes(c)' /\ Submits(c)' /\ Submitted(c)' /\ Succeeds(c)' /\ Leases(c)'
    BY <2>4, <2>5, <2>6 DEF Closes, Submits, Submitted, Succeeds, Leases, Recording
  <2> QED
    BY <1>1, <1>2, <2>1, <2>4, <2>7, <2>8, Continues DEF Sound, stored, Lists
<1>5. ASSUME call' = [call EXCEPT ![c] = [Idle EXCEPT !.at = "answer", !.lets = TRUE]]
      PROVE  IInv'
  <2> DEFINE q == [Idle EXCEPT !.at = "answer", !.lets = TRUE]
  <2>1. Missing \in Records
    BY DEF Records
  <2>2. Idle \in Call /\ Idle.posts = {} /\ Idle.status = "none"
    BY <2>1 DEF Idle, Call
  <2>3. q \in Call /\ q.at = "answer" /\ q.posts = {} /\ q.status = "none"
    BY <2>2 DEF Call
  <2> HIDE DEF q
  <2>4. Sound(c)'
    BY <1>1, <1>5, <2>3 DEF q, Sound, Expects, Behind, Gathers, Closes, Submits, Submitted,
       Succeeds, Leases, Recording, Resolving
  <2> QED
    BY <1>1, <1>2, <1>5, <2>3, <2>4, Continues DEF q, stored, Lists
<1> QED
  BY <1>3, <1>4, <1>5 DEF Find

(* An idle call is sound whatever the state.                               *)
LEMMA IdleIsSound ==
    ASSUME NEW c \in Calls, call'[c] = Idle
    PROVE  Sound(c)' /\ Idle \in Call
<1>1. Missing \in Records
  BY DEF Records
<1> QED
  BY <1>1 DEF Idle, Call, Sound, Expects, Behind, Gathers, Closes, Submits, Submitted, Succeeds,
     Leases, Recording, Resolving

(* A call that is done with its lease.                                     *)
LEMMA LetsGo ==
    ASSUME IInv, NEW c \in Calls, NEW q \in Call, call' = [call EXCEPT ![c] = q],
           ~q.lets, q.at # "find", lapsed' \in {lapsed, lapsed \ {c}},
           \A d \in Calls \ {c} : lease = d => lease' = d
    PROVE  WorkerHoldsLease'
<1>1. WorkerHoldsLease /\ call \in [Calls -> Call]
  BY DEF IInv, TypeOK
<1> SUFFICES ASSUME NEW d \in Calls, Holds(d)'
             PROVE  d \in lapsed' \/ lease' = d
  BY DEF WorkerHoldsLease
<1>2. d # c /\ Holds(d)
  BY <1>1 DEF Holds
<1> QED
  BY <1>1, <1>2 DEF WorkerHoldsLease

LEMMA ReleaseKeeps ==
    ASSUME IInv, NEW c \in Calls, Release(c)
    PROVE  IInv'
<1>1. /\ call \in [Calls -> Call] /\ call[c] \in Call /\ Sound(c)
      /\ call[c].lets /\ call[c].at \in Recording \cup {"answer"}
      /\ UNCHANGED <<stored, posted, submissions, outcome, told>>
      /\ lapsed' = lapsed \ {c} /\ lease' \in {lease, IF lease = c THEN NoCall ELSE lease}
  BY DEF IInv, TypeOK, Release, Sound, Leases
<1>2. /\ indexed' \in BOOLEAN
      /\ indexed => indexed'
      /\ UNCHANGED <<record, posted, submissions, outcome>>
      /\ lease' \in Calls \cup {NoCall} /\ lapsed' \subseteq Calls /\ told' \subseteq Posts
      /\ \A d \in Calls \ {c} : lease = d => lease' = d
  BY <1>1 DEF IInv, TypeOK, stored
<1>3. CASE call' = [call EXCEPT ![c] = Idle]
  <2>1. call'[c] = Idle /\ ~Idle.lets /\ Idle.at # "find"
    BY <1>1, <1>3 DEF Idle
  <2>2. Sound(c)' /\ Idle \in Call
    BY <2>1, IdleIsSound
  <2>3. WorkerHoldsLease'
    BY <1>1, <1>2, <1>3, <2>1, <2>2, LetsGo
  <2> QED
    BY <1>1, <1>2, <1>3, <2>2, <2>3, StandsStill DEF stored
<1>4. CASE call' = [call EXCEPT ![c] = [call[c] EXCEPT !.lets = FALSE]]
  <2> DEFINE q == [call[c] EXCEPT !.lets = FALSE]
  <2>1. /\ q \in Call /\ q.at = call[c].at /\ q.asks = call[c].asks
        /\ q.seen = call[c].seen /\ q.post = call[c].post /\ q.posts = call[c].posts
        /\ q.tries = call[c].tries /\ q.status = call[c].status /\ ~q.lets
    BY <1>1 DEF Call
  <2>2. call'[c] = q
    BY <1>1, <1>4
  <2> HIDE DEF q
  <2>3. Sound(c)'
    BY <1>1, <2>1, <2>2 DEF stored, Sound, Expects, Behind, Gathers, Closes, Submits, Submitted,
       Succeeds, Leases
  <2>4. call' = [call EXCEPT ![c] = q] /\ q.at # "find"
    BY <1>1, <1>4, <2>1 DEF q, Recording
  <2>5. WorkerHoldsLease'
    BY <1>1, <1>2, <2>1, <2>4, LetsGo
  <2> QED
    BY <1>1, <1>2, <2>1, <2>3, <2>4, <2>5, StandsStill DEF stored
<1> QED
  BY <1>3, <1>4 DEF Release

(* A call that has answered, or is lost.                                   *)
LEMMA LeaveKeeps ==
    ASSUME IInv, NEW c \in Calls, Answer(c) \/ Lost(c)
    PROVE  IInv'
<1>1. /\ call' = [call EXCEPT ![c] = Idle] /\ call \in [Calls -> Call] /\ Sound(c)
      /\ UNCHANGED <<stored, lease, posted, submissions, outcome>>
      /\ lapsed' \in {lapsed, lapsed \ {c}}
  BY DEF IInv, TypeOK, Answer, Lost
<1>2. call'[c] = Idle /\ ~Idle.lets /\ Idle.at # "find"
  BY <1>1 DEF Idle
<1>3. Sound(c)' /\ Idle \in Call
  BY <1>2, IdleIsSound
<1>4. WorkerHoldsLease'
  BY <1>1, <1>2, <1>3, LetsGo
<1>5. told' \subseteq Posts
  BY <1>1 DEF IInv, TypeOK, Answer, Lost, Succeeds, Sound
<1>6. /\ indexed' \in BOOLEAN
      /\ indexed => indexed'
      /\ UNCHANGED <<record, posted, submissions, outcome>>
      /\ lease' \in Calls \cup {NoCall} /\ lapsed' \subseteq Calls
  BY <1>1 DEF IInv, TypeOK, stored
<1> QED
  BY <1>1, <1>3, <1>4, <1>5, <1>6, StandsStill DEF stored

LEMMA ExpireKeeps ==
    ASSUME IInv, Expire
    PROVE  IInv'
<1>1. UNCHANGED <<stored, posted, call, submissions, outcome, told>>
  BY DEF Expire
<1>2. TypeOK'
  BY <1>1 DEF IInv, TypeOK, Expire, stored
<1>3. Fenced' /\ Outcome' /\ RegistryMissesNothing'
  BY <1>1 DEF IInv, Fenced, Outcome, RegistryMissesNothing, stored
<1>4. WorkerHoldsLease'
  BY <1>1 DEF IInv, WorkerHoldsLease, Holds, Expire
<1>5. ASSUME NEW d \in Calls PROVE Sound(d)'
  BY <1>1, <1>2, OthersKeep DEF TypeOK, Rises, stored
<1> QED
  BY <1>2, <1>3, <1>4, <1>5 DEF IInv

LEMMA NextKeeps == IInv /\ [Next]_vars => IInv'
<1> SUFFICES ASSUME IInv, [Next]_vars PROVE IInv'
  OBVIOUS
<1>1. ASSUME NEW c \in Calls, Step(c) PROVE IInv'
  BY <1>1, CreateIndexKeeps, CreateKeeps, FenceKeeps, PublishKeeps, CommitKeeps,
     RereadKeeps, TerminateKeeps, ConvergeKeeps, LeaseKeeps, FindKeeps, ReleaseKeeps, LeaveKeeps
     DEF Step
<1>2. ASSUME NEW c \in Calls, Lost(c) PROVE IInv'
  BY <1>2, LeaveKeeps
<1>3. ASSUME NEW c \in Calls, NEW op \in Operations, NEW d \in Descriptors,
             Read(c, op, d)
      PROVE  IInv'
  BY <1>3, ReadKeeps
<1>4. CASE Expire
  BY <1>4, ExpireKeeps
<1>5. CASE UNCHANGED vars
  BY <1>5 DEF vars, stored, history, IInv, TypeOK, Fenced, Outcome, WorkerHoldsLease, Holds,
     RegistryMissesNothing, Sound, Expects, Behind, Gathers, Closes, Submits, Submitted, Succeeds,
     Leases
<1> QED
  BY <1>1, <1>2, <1>3, <1>4, <1>5 DEF Next

LEMMA Invariance == Spec => []IInv
<1>1. Init => IInv
  BY InitHolds
<1>2. IInv /\ [Next]_vars => IInv'
  BY NextKeeps
<1> QED
  BY <1>1, <1>2, PTL DEF Spec

-----------------------------------------------------------------------------

(* Every record the operation stores is one its parser accepts, and no     *)
(* counter of a call passes its bound (post-operation.ts).                 *)
THEOREM TypeCorrect == Spec => []TypeOK
<1>1. IInv => TypeOK
  BY DEF IInv
<1> QED
  BY <1>1, Invariance, PTL

(* Nobody lets go of the lease of another (createLease, releaseLease and   *)
(* the finally block of reconcile).                                        *)
THEOREM LeaseIsHeld == Spec => []WorkerHoldsLease
<1>1. IInv => WorkerHoldsLease
  BY DEF IInv
<1> QED
  BY <1>1, Invariance, PTL

(* No operation is missing from the registry (createIndexed and            *)
(* compareAndSetIndexed write it first).                                   *)
THEOREM RegistryIsComplete == Spec => []RegistryMissesNothing
<1>1. IInv => RegistryMissesNothing
  BY DEF IInv
<1> QED
  BY <1>1, Invariance, PTL

(* The bounded loop of commitTerminal never gives up: a call that met      *)
(* several posts leaves the operation terminal, for any number of          *)
(* concurrent calls and any storeAttempts.                                 *)
THEOREM AmbiguityRecorded == Spec => []AmbiguityIsRecorded
<1>1. IInv => AmbiguityIsRecorded
  BY DEF IInv, Sound, Gathers, AmbiguityIsRecorded
<1> QED
  BY <1>1, Invariance, PTL

(* What a step of the operation does to its record.                        *)
LEMMA RecordSteps ==
    ASSUME IInv, [Next]_vars
    PROVE  \/ record' = record
           \/ \E c \in Calls : Create(c) /\ record = Missing
           \/ \E c \in Calls : Fence(c) /\ record.phase = "prepared"
           \/ \E c \in Calls : Commit(c) /\ record.phase = "attempted"
           \/ \E c \in Calls :
                /\ Terminate(c) /\ Swaps(c, Terminal(call[c].seen.of, call[c].seen.attempt,
                                                     call[c].posts))
<1>1. ASSUME NEW c \in Calls, Step(c), record' # record
      PROVE  \/ Create(c) /\ record = Missing
             \/ Fence(c) /\ record.phase = "prepared"
             \/ Commit(c) /\ record.phase = "attempted"
             \/ /\ Terminate(c) /\ Swaps(c, Terminal(call[c].seen.of, call[c].seen.attempt,
                                                     call[c].posts))
  <2>1. Sound(c)
    BY DEF IInv
  <2>2. CASE Create(c)
    BY <1>1, <2>2 DEF Create
  <2>3. CASE Fence(c)
    BY <1>1, <2>1, <2>3 DEF Fence, Swaps, Loses, Breaks, Sound, Expects
  <2>4. CASE Commit(c)
    BY <1>1, <2>1, <2>4 DEF Commit, Swaps, Loses, Breaks, Sound, Expects
  <2>5. CASE Terminate(c)
    BY <1>1, <2>5 DEF Terminate, Loses, Breaks
  <2> QED
    BY <1>1, <2>2, <2>3, <2>4, <2>5
       DEF Step, CreateIndex, Publish, Reread, Converge, Lease, Find, Release, Answer, stored
<1>2. CASE UNCHANGED record
  BY <1>2
<1>3. CASE \E c \in Calls : Step(c)
  BY <1>1, <1>3
<1>4. ASSUME NEW c \in Calls, NEW op \in Operations, NEW d \in Descriptors, Read(c, op, d)
      PROVE  UNCHANGED record
  BY <1>4 DEF Read, ReadFails, ReadConflict, ReadMissing, ReadPrepared, ReadAttempted,
     ReadPublished, ReadTerminal, Reads, stored
<1> QED
  BY <1>2, <1>3, <1>4 DEF Next, Lost, Expire, stored, vars

(* A published record only gives way to a terminal one that names its post *)
(* too (commitPublished, commitTerminal).                                  *)
THEOREM EvidenceKept == Spec => EvidenceIsKept
<1> DEFINE Kept == record.phase = "published" =>
                       \/ record' = record
                       \/ record'.phase = "terminal" /\ record.post \in record'.posts
<1>1. IInv /\ [Next]_vars => [Kept]_vars
  <2> SUFFICES ASSUME IInv, [Next]_vars, record.phase = "published", record' # record
               PROVE  record'.phase = "terminal" /\ record.post \in record'.posts
    OBVIOUS
  <2>1. PICK c \in Calls : Terminate(c) /\ Swaps(c, Terminal(call[c].seen.of, call[c].seen.attempt,
                                                             call[c].posts))
    BY RecordSteps DEF Missing, Rec
  <2>2. Sound(c) /\ call[c].at = "terminate"
    BY <2>1 DEF IInv, Terminate
  <2> QED
    BY <2>1, <2>2 DEF Swaps, Terminal, Rec, Sound, Gathers, Resolving
<1> QED
  BY <1>1, Invariance, PTL DEF Spec, EvidenceIsKept

(* A step of the operation is a step of its promise, or none.              *)
LEMMA Promised ==
    ASSUME IInv, [Next]_vars
    PROVE  Promise!Next \/ UNCHANGED Promise!outcomes
<1> USE DEF history, stored
<1>1. ASSUME NEW c \in Calls, Publish(c)
      PROVE  Promise!Submit
  <2>1. submissions = 0 /\ submissions' = submissions + 1
    BY <1>1 DEF Publish, IInv, Sound, Submits
  <2>2. UNCHANGED <<record, outcome, told>>
    BY <1>1 DEF Publish
  <2> QED
    BY <2>1, <2>2 DEF Promise!Submit
<1>2. ASSUME NEW c \in Calls, Commit(c)
      PROVE  Promise!Settle(call[c].post) \/ UNCHANGED Promise!outcomes
  <2>1. Sound(c) /\ call[c].at = "commit" /\ submissions = 1
    BY <1>2 DEF IInv, Commit, Sound, Submitted, Recording
  <2>2. CASE UNCHANGED <<record, outcome>>
    BY <1>2, <2>2 DEF Commit, Promise!outcomes
  <2>3. CASE /\ Swaps(c, Published(call[c].seen.of, call[c].seen.attempt, call[c].post))
             /\ outcome' = call[c].post
    <3>1. record.phase = "attempted" /\ record'.phase = "published"
      BY <2>1, <2>3 DEF Swaps, Sound, Expects, Published, Rec
    <3>2. outcome = NoPost
      BY <3>1 DEF IInv, Outcome, Rank
    <3> QED
      BY <1>2, <2>1, <2>3, <3>1, <3>2 DEF Commit, Promise!Settle
  <2> QED
    BY <1>2, <2>2, <2>3 DEF Commit, Loses, Breaks
<1>3. ASSUME NEW c \in Calls, Terminate(c)
      PROVE  Promise!Dispute \/ UNCHANGED Promise!outcomes
  <2>1. Sound(c) /\ call[c].at = "terminate" /\ submissions = 1
    BY <1>3 DEF IInv, Terminate, Sound, Submitted, Recording
  <2>2. CASE UNCHANGED record
    BY <1>3, <2>2 DEF Terminate, Promise!outcomes
  <2>3. CASE Swaps(c, Terminal(call[c].seen.of, call[c].seen.attempt, call[c].posts))
    <3>1. record.phase # "terminal" /\ record'.phase = "terminal"
      BY <2>1, <2>3 DEF Swaps, Sound, Expects, Resolving, Terminal, Rec
    <3> QED
      BY <1>3, <2>1, <3>1 DEF Terminate, Promise!Dispute
  <2> QED
    BY <1>3, <2>2, <2>3 DEF Terminate, Loses, Breaks
<1>4. ASSUME NEW c \in Calls, Answer(c)
      PROVE  Promise!Tell(call[c].post) \/ UNCHANGED Promise!outcomes
  <2>1. call[c].status = "success" => outcome = call[c].post
    BY <1>4 DEF Answer, IInv, Sound, Succeeds
  <2> QED
    BY <1>4, <2>1 DEF Answer, Promise!Tell, Promise!outcomes
<1>5. ASSUME NEW c \in Calls, Create(c) \/ Fence(c)
      PROVE  UNCHANGED Promise!outcomes
  <2>1. UNCHANGED <<submissions, outcome, told>>
    BY <1>5 DEF Create, Fence
  <2>2. (record'.phase = "terminal") = (record.phase = "terminal")
    <3>1. CASE Create(c)
      BY <3>1 DEF Create, Missing, Prepared, Rec
    <3>2. CASE Fence(c)
      <4>1. call[c].seen.phase = "prepared"
        BY <3>2 DEF Fence, IInv, Sound, Expects
      <4> QED
        BY <3>2, <4>1 DEF Fence, Swaps, Loses, Breaks, Attempted, Rec
    <3> QED
      BY <1>5, <3>1, <3>2
  <2> QED
    BY <2>1, <2>2 DEF Promise!outcomes
<1>6. ASSUME NEW c \in Calls, \/ CreateIndex(c) \/ Reread(c) \/ Converge(c)
                              \/ Lease(c) \/ Find(c) \/ Release(c) \/ Lost(c)
      PROVE  UNCHANGED Promise!outcomes
  <2>1. UNCHANGED <<record, submissions, outcome, told>>
    BY <1>6 DEF CreateIndex, Reread, Converge, Lease, Find, Release, Lost
  <2> QED
    BY <2>1 DEF Promise!outcomes
<1>7. ASSUME \/ Expire \/ UNCHANGED vars
             \/ \E c \in Calls, op \in Operations, d \in Descriptors : Read(c, op, d)
      PROVE  UNCHANGED Promise!outcomes
  <2>1. UNCHANGED <<record, submissions, outcome, told>>
    <3>1. ASSUME NEW c \in Calls, NEW op \in Operations, NEW d \in Descriptors, Read(c, op, d)
          PROVE  UNCHANGED <<record, submissions, outcome, told>>
      BY <3>1 DEF Read, ReadFails, ReadConflict, ReadMissing, ReadPrepared, ReadAttempted,
         ReadPublished, ReadTerminal, Reads
    <3>2. CASE Expire \/ UNCHANGED vars
      BY <3>2 DEF Expire, vars
    <3> QED
      BY <1>7, <3>1, <3>2
  <2> QED
    BY <2>1 DEF Promise!outcomes
<1>8. ASSUME NEW c \in Calls PROVE call[c].at \in {"commit", "reread"} => call[c].post \in Posts
  BY DEF IInv, Sound, Expects
<1>9. ASSUME NEW c \in Calls, Answer(c), Promise!Tell(call[c].post)
      PROVE  Promise!Next \/ UNCHANGED Promise!outcomes
  <2>1. CASE call[c].post \in Posts
    BY <1>9, <2>1 DEF Promise!Next
  <2>2. CASE call[c].post \notin Posts
    <3>1. outcome \notin Posts
      BY <1>9, <2>2 DEF Promise!Tell
    <3>2. call[c].status # "success"
      BY <1>9, <3>1 DEF IInv, TypeOK, Sound, Succeeds, Answer
    <3> QED
      BY <1>9, <3>2 DEF Answer, Promise!outcomes
  <2> QED
    BY <2>1, <2>2
<1>10. ASSUME NEW c \in Calls, Step(c)
       PROVE  Promise!Next \/ UNCHANGED Promise!outcomes
  <2>1. CASE Publish(c)
    BY <1>1, <2>1 DEF Promise!Next
  <2>2. CASE Commit(c)
    BY <1>2, <1>8, <2>2 DEF Commit, Promise!Next
  <2>3. CASE Terminate(c)
    BY <1>3, <2>3 DEF Promise!Next
  <2>4. CASE Answer(c)
    BY <1>4, <1>9, <2>4
  <2> QED
    BY <1>5, <1>6, <1>10, <2>1, <2>2, <2>3, <2>4 DEF Step
<1> QED
  BY <1>6, <1>7, <1>10 DEF Next

(* The operation implements PublishOnce: whatever calls run at once, fail, *)
(* are retried or are lost, the post is submitted at most once, one        *)
(* outcome is recorded, and every success names it (post-operation.ts).    *)
THEOREM ImplementsPublishOnce == Spec => PublishedOnce
<1>1. Init => Promise!Init
  BY DEF Init, Missing, Attempted, Rec, Promise!Init
<1>2. IInv /\ [Next]_vars => [Promise!Next]_(Promise!outcomes)
  BY Promised
<1> QED
  BY <1>1, <1>2, Invariance, PTL DEF Spec, PublishedOnce, Promise!Spec

=============================================================================
