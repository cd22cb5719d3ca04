---------------------------- MODULE PostOperation ----------------------------
(***************************************************************************)
(* One Devvit post operation: `execute` submits a post to Reddit behind a  *)
(* durable fence, `reconcile` looks for the post of a submission whose     *)
(* outcome is not known, `read` tells what is recorded                     *)
(* (src/adapters/devvit/src/server/post-operation.ts).  They change one    *)
(* record by compare-and-set on Redis (redis-post-operation-store.ts).     *)
(*                                                                         *)
(* Any number of calls run at once.  Every call to Redis or to Reddit is a *)
(* step; it may take effect and fail, and a call may be lost between two.  *)
(* WATCH/MULTI/EXEC makes a compare-and-set one step: a transaction that   *)
(* met a change of the key is aborted and compares again.                  *)
(***************************************************************************)
EXTENDS Naturals

CONSTANTS
    Calls,         \* the calls that may run at once; also their tokens
    Descriptors,   \* what the callers may ask the operation to post
    Posts,
    Legacy,        \* the attempt id of a record an earlier release wrote
    NoCall,
    NoPost,
    NoDescriptor,
    StoreAttempts  \* storeAttempts

ASSUME PostAssumption ==
    /\ Legacy \notin Calls
    /\ NoCall \notin Calls \cup {Legacy}
    /\ NoPost \notin Posts
    /\ NoDescriptor \notin Descriptors
    /\ StoreAttempts \in Nat \ {0}

VARIABLES
    record,       \* the operation's durable record
    indexed,      \* whether the registry lists it
    lease,        \* the token of the reconciliation lease
    posted,       \* Reddit: the posts that carry this operation
    call,         \* call[c]: one execute or reconcile
    lapsed,       \* history: calls whose lease expired under them
    submissions,  \* history: calls of `publish`
    outcome,      \* history: the post recorded as published first
    told          \* history: the posts some caller was told of

vars == <<record, indexed, lease, posted, call, lapsed, submissions, outcome, told>>
history == <<lapsed, submissions, outcome, told>>
stored == <<record, indexed>>

Attempts == Calls \cup {Legacy}
Evidence == {s \in SUBSET Posts : \E p, q \in s : p # q}

Rec(phase, of, attempt, post, posts) ==
    [phase |-> phase, of |-> of, attempt |-> attempt, post |-> post, posts |-> posts]

Missing == Rec("missing", NoDescriptor, NoCall, NoPost, {})
Prepared(d) == Rec("prepared", d, NoCall, NoPost, {})
Attempted(d, a) == Rec("attempted", d, a, NoPost, {})
Published(d, a, p) == Rec("published", d, a, p, {})
Terminal(d, a, posts) == Rec("terminal", d, a, NoPost, posts)

Records ==
    {Missing}
    \cup {Prepared(d) : d \in Descriptors}
    \cup {Attempted(d, a) : d \in Descriptors, a \in Attempts}
    \cup {Published(d, a, p) : d \in Descriptors, a \in Attempts, p \in Posts}
    \cup {Terminal(d, a, s) : d \in Descriptors, a \in Attempts, s \in Evidence}

Operations == {"execute", "read", "reconcile"}

Call == [at : {"idle", "read", "create", "fence", "publish", "lease", "find", "commit",
               "reread", "terminate", "converge", "answer"},
         asks : Descriptors \cup {NoDescriptor},
         seen : Records,                \* the record a compare-and-set expects
         post : Posts \cup {NoPost},    \* the post to record, or to answer
         posts : SUBSET Posts,          \* the evidence of ambiguity
         tries : 0 .. StoreAttempts,
         lets : BOOLEAN,                \* whether it has a lease to let go
         status : {"none", "success", "terminal", "busy"}]

Idle == [at |-> "idle", asks |-> NoDescriptor, seen |-> Missing, post |-> NoPost,
         posts |-> {}, tries |-> 0, lets |-> FALSE, status |-> "none"]

(* A record an earlier release left attempted is in no registry.           *)
Init ==
    /\ \/ record = Missing /\ submissions = 0
       \/ /\ \E d \in Descriptors : record = Attempted(d, Legacy)
          /\ submissions = 1
    /\ indexed = FALSE
    /\ lease = NoCall
    /\ posted \in IF record = Missing THEN {{}} ELSE SUBSET Posts
    /\ call = [c \in Calls |-> Idle]
    /\ lapsed = {}
    /\ outcome = NoPost
    /\ told = {}

-----------------------------------------------------------------------------
(* The steps of a call. *)

Goes(c, step) == call' = [call EXCEPT ![c].at = step]

(* A call ends with a result or, when it is "other", with an error or an   *)
(* answer that commits to nothing; it waits for the release of its lease.  *)
Ends(c, status, post) ==
    call' = [call EXCEPT ![c] =
        IF status # "other"
        THEN [Idle EXCEPT !.at = "answer", !.status = status, !.post = post,
                          !.posts = call[c].posts, !.lets = call[c].lets]
        ELSE [Idle EXCEPT !.at = IF call[c].lets THEN "answer" ELSE "idle",
                          !.lets = call[c].lets]]

Throws(c) == Ends(c, "other", NoPost)

(* readStoredOperation lists the record it found if it can.                *)
Lists == indexed' = TRUE \/ UNCHANGED indexed

Reads(c, d, phase) ==
    /\ record.phase = phase
    /\ phase # "missing" => record.of = d
    /\ IF phase = "missing" THEN UNCHANGED indexed ELSE Lists
    /\ UNCHANGED <<record, lease, posted, history>>

ReadFails(c) ==
    /\ Throws(c)
    /\ UNCHANGED <<stored, lease, posted, history>>

(* The same operation id with another payload.                             *)
ReadConflict(c, d) ==
    /\ record.phase # "missing" /\ record.of # d
    /\ Ends(c, "other", NoPost)
    /\ Lists
    /\ UNCHANGED <<record, lease, posted, history>>

ReadMissing(c, op, d) ==
    /\ Reads(c, d, "missing")
    /\ IF op = "execute"
       THEN call' = [call EXCEPT ![c].at = "create", ![c].asks = d]
       ELSE Ends(c, "other", NoPost)

ReadPrepared(c, op, d) ==
    /\ Reads(c, d, "prepared")
    /\ IF op = "execute"
       THEN call' = [call EXCEPT ![c].at = "fence", ![c].asks = d, ![c].seen = record]
       ELSE Ends(c, "other", NoPost)

(* Submitted once and for all: execute only asks for a reconciliation.     *)
ReadAttempted(c, op, d) ==
    /\ Reads(c, d, "attempted")
    /\ IF op = "reconcile"
       THEN call' = [call EXCEPT ![c].at = "lease", ![c].asks = d, ![c].seen = record]
       ELSE Ends(c, "other", NoPost)

ReadPublished(c, d) == Reads(c, d, "published") /\ Ends(c, "success", record.post)

ReadTerminal(c, d) == Reads(c, d, "terminal") /\ Ends(c, "other", NoPost)

(* Every operation starts with a read; execute comes back to it.           *)
Read(c, op, d) ==
    /\ \/ call[c].at = "idle"
       \/ call[c].at = "read" /\ op = "execute" /\ d = call[c].asks
    /\ \/ ReadFails(c) \/ ReadConflict(c, d) \/ ReadMissing(c, op, d)
       \/ ReadPrepared(c, op, d) \/ ReadAttempted(c, op, d)
       \/ ReadPublished(c, d) \/ ReadTerminal(c, d)

(* The loop of execute: read again, storeAttempts times.                   *)
Again(c) ==
    IF call[c].tries + 1 < StoreAttempts
    THEN call' = [call EXCEPT ![c].at = "read", ![c].tries = @ + 1]
    ELSE Ends(c, "other", NoPost)

(* createIndexed: the registry first, then SET NX.                         *)
CreateIndex(c) ==
    /\ call[c].at = "create" /\ ~indexed
    /\ \/ indexed' = TRUE /\ UNCHANGED call
       \/ Lists /\ Throws(c)
    /\ UNCHANGED <<record, lease, posted, history>>

(* Mutant: the record is set before the registry lists it. *)
CreateFirst(c) ==
    /\ call[c].at = "create"
    /\ \/ /\ record = Missing
          /\ record' = Prepared(call[c].asks)
          /\ call' = [call EXCEPT ![c].at = "fence", ![c].seen = record']
       \/ record # Missing /\ Again(c) /\ UNCHANGED record
    /\ UNCHANGED <<indexed, lease, posted, history>>

Create(c) ==
    /\ call[c].at = "create" /\ indexed
    /\ \/ /\ record = Missing
          /\ record' = Prepared(call[c].asks)
          /\ \/ call' = [call EXCEPT ![c].at = "fence", ![c].seen = record']
             \/ Throws(c)
       \/ record # Missing /\ Again(c) /\ UNCHANGED record
       \/ Throws(c) /\ UNCHANGED record
    /\ UNCHANGED <<indexed, lease, posted, history>>

(* compareAndSetIndexed adds the member again before it compares.          *)
Swaps(c, new) == record = call[c].seen /\ record' = new /\ indexed' = TRUE
Loses(c) == record # call[c].seen /\ indexed' = TRUE /\ UNCHANGED record
Breaks == Lists /\ UNCHANGED record

(* Mutant: the fence is written without comparing. *)
FenceBlind(c) ==
    LET attempted == Attempted(call[c].asks, c)
    IN  /\ call[c].at = "fence"
        /\ record' = attempted /\ indexed' = TRUE
        /\ call' = [call EXCEPT ![c].at = "publish", ![c].seen = attempted]
        /\ UNCHANGED <<lease, posted, history>>

Fence(c) ==
    LET attempted == Attempted(call[c].asks, c)
    IN  /\ call[c].at = "fence"
        /\ \/ /\ Swaps(c, attempted)
              /\ \/ call' = [call EXCEPT ![c].at = "publish", ![c].seen = attempted]
                 \/ Throws(c)
           \/ Loses(c) /\ Again(c)
           \/ Breaks /\ Throws(c)
        /\ UNCHANGED <<lease, posted, history>>

(* Reddit may take the post and lose the answer, or post it twice.         *)
Publish(c) ==
    /\ call[c].at = "publish"
    /\ submissions' = submissions + 1
    /\ \E made \in SUBSET (Posts \ posted) :
         /\ posted' = posted \cup made
         /\ \/ \E p \in made :
                 call' = [call EXCEPT ![c].at = "commit", ![c].post = p, ![c].tries = 0]
            \/ Throws(c)
    /\ UNCHANGED <<stored, lease, lapsed, outcome, told>>

-----------------------------------------------------------------------------
(* commitPublished and commitTerminal. *)

Commit(c) ==
    LET post == call[c].post
    IN  /\ call[c].at = "commit"
        /\ \/ /\ Swaps(c, Published(call[c].seen.of, call[c].seen.attempt, post))
              /\ outcome' = post
              /\ Ends(c, "success", post) \/ Throws(c)
           \/ Loses(c) /\ Goes(c, "reread") /\ UNCHANGED outcome
           \/ Breaks /\ Throws(c) /\ UNCHANGED outcome
        /\ UNCHANGED <<lease, posted, lapsed, submissions, told>>

(* Whether the record still belongs to the attempt the call works for.     *)
SameAttempt(c) == record.of = call[c].asks /\ record.attempt = call[c].seen.attempt

Reread(c) ==
    /\ call[c].at = "reread"
    /\ \/ /\ record.phase = "published" /\ record.post = call[c].post
          /\ Ends(c, "success", record.post)
       \/ /\ record.phase = "published" /\ record.post # call[c].post
          /\ call' = [call EXCEPT ![c].at = "terminate", ![c].seen = record,
                                  ![c].posts = {record.post, call[c].post},
                                  ![c].tries = 0]
       \/ record.phase = "terminal" /\ Ends(c, "terminal", NoPost)
       \/ /\ record.phase = "attempted" /\ SameAttempt(c)
          /\ IF call[c].tries + 1 < StoreAttempts
             THEN call' = [call EXCEPT ![c].at = "commit", ![c].seen = record,
                                       ![c].tries = @ + 1]
             ELSE Ends(c, "busy", NoPost)
       \/ Throws(c)
    /\ Lists
    /\ UNCHANGED <<record, lease, posted, history>>

Terminate(c) ==
    /\ call[c].at = "terminate"
    /\ \/ /\ Swaps(c, Terminal(call[c].seen.of, call[c].seen.attempt, call[c].posts))
          /\ Ends(c, "terminal", NoPost) \/ Throws(c)
       \/ Loses(c) /\ Goes(c, "converge")
       \/ Breaks /\ Throws(c)
    /\ UNCHANGED <<lease, posted, history>>

(* Mutant: a lost comparison is not tried again. *)
ConvergeAttemptsOnce == 1

(* One attempt more than storeAttempts.                                    *)
ConvergeAttempts == StoreAttempts + 1

(* Mutant: the post published meanwhile is not added. *)
ConvergeForgets(c) ==
    /\ call[c].at = "converge"
    /\ \/ record.phase = "terminal" /\ Ends(c, "terminal", NoPost)
       \/ /\ record.phase \in {"attempted", "published"} /\ SameAttempt(c)
          /\ IF call[c].tries + 1 < ConvergeAttempts
             THEN call' = [call EXCEPT ![c].at = "terminate", ![c].seen = record,
                                       ![c].tries = @ + 1]
             ELSE Ends(c, "busy", NoPost)
    /\ Lists
    /\ UNCHANGED <<record, lease, posted, history>>

Converge(c) ==
    /\ call[c].at = "converge"
    /\ \/ record.phase = "terminal" /\ Ends(c, "terminal", NoPost)
       \/ /\ record.phase \in {"attempted", "published"} /\ SameAttempt(c)
          /\ IF call[c].tries + 1 < ConvergeAttempts
             THEN call' = [call EXCEPT ![c].at = "terminate", ![c].seen = record,
                                       ![c].posts = @ \cup ({record.post} \ {NoPost}),
                                       ![c].tries = @ + 1]
             ELSE Ends(c, "busy", NoPost)
       \/ Throws(c)
    /\ Lists
    /\ UNCHANGED <<record, lease, posted, history>>

-----------------------------------------------------------------------------
(* reconcile. *)

(* Between its lease and the release of it.                                *)
Holds(c) == call[c].at = "find" \/ call[c].lets

(* createLease: SET NX with an expiration.                                 *)
Lease(c) ==
    /\ call[c].at = "lease"
    /\ \/ /\ lease = NoCall
          /\ lease' = c
          /\ Goes(c, "find") \/ Throws(c)
       \/ lease # NoCall /\ Ends(c, "other", NoPost) /\ UNCHANGED lease
       \/ Throws(c) /\ UNCHANGED lease
    /\ UNCHANGED <<stored, posted, history>>

(* Mutant: one match is ambiguous too. *)
FindAmbiguous(c) ==
    /\ call[c].at = "find"
    /\ \E found \in (SUBSET posted) \ {{}} :
         call' = [call EXCEPT ![c].at = "terminate", ![c].posts = found, ![c].tries = 0,
                              ![c].lets = TRUE]
    /\ UNCHANGED <<stored, lease, posted, history>>

(* findCandidates lists what Reddit shows by now.  From here the lease is  *)
(* let go while the outcome is recorded: the finally block does not wait   *)
(* for the promise that is returned.                                       *)
Find(c) ==
    /\ call[c].at = "find"
    /\ \/ \E p \in posted :
            call' = [call EXCEPT ![c].at = "commit", ![c].post = p, ![c].tries = 0,
                                 ![c].lets = TRUE]
       \/ \E found \in (SUBSET posted) \cap Evidence :
            call' = [call EXCEPT ![c].at = "terminate", ![c].posts = found, ![c].tries = 0,
                                 ![c].lets = TRUE]
       \/ call' = [call EXCEPT ![c] = [Idle EXCEPT !.at = "answer", !.lets = TRUE]]
    /\ UNCHANGED <<stored, lease, posted, history>>

(* Mutant: the token is not compared. *)
ReleaseAny(c) ==
    /\ call[c].lets
    /\ lease' = NoCall
    /\ call' = [call EXCEPT ![c].lets = FALSE]
    /\ lapsed' = lapsed \ {c}
    /\ UNCHANGED <<stored, posted, submissions, outcome, told>>

(* Compared with the token; a failure leaves the lease to expire.          *)
Release(c) ==
    /\ call[c].lets
    /\ \/ lease' = IF lease = c THEN NoCall ELSE lease
       \/ UNCHANGED lease
    /\ call' = [call EXCEPT ![c] = IF @.at = "answer" /\ @.status = "none" THEN Idle
                                    ELSE [@ EXCEPT !.lets = FALSE]]
    /\ lapsed' = lapsed \ {c}
    /\ UNCHANGED <<stored, posted, submissions, outcome, told>>

Expire ==
    /\ lease # NoCall
    /\ lease' = NoCall
    /\ lapsed' = lapsed \cup ({lease} \cap {c \in Calls : Holds(c)})
    /\ UNCHANGED <<stored, posted, call, submissions, outcome, told>>

-----------------------------------------------------------------------------

Answer(c) ==
    /\ call[c].at = "answer" /\ ~call[c].lets
    /\ told' = IF call[c].status = "success" THEN told \cup {call[c].post} ELSE told
    /\ call' = [call EXCEPT ![c] = Idle]
    /\ UNCHANGED <<stored, lease, posted, lapsed, submissions, outcome>>

(* The instance that runs the call is gone; its lease is not.              *)
Lost(c) ==
    /\ call[c].at # "idle"
    /\ call' = [call EXCEPT ![c] = Idle]
    /\ lapsed' = lapsed \ {c}
    /\ UNCHANGED <<stored, lease, posted, submissions, outcome, told>>

Step(c) ==
    \/ CreateIndex(c) \/ Create(c) \/ Fence(c) \/ Publish(c)
    \/ Commit(c) \/ Reread(c) \/ Terminate(c) \/ Converge(c)
    \/ Lease(c) \/ Find(c) \/ Release(c) \/ Answer(c)

Next ==
    \/ \E c \in Calls : Step(c) \/ Lost(c)
    \/ \E c \in Calls, op \in Operations, d \in Descriptors : Read(c, op, d)
    \/ Expire

Spec == Init /\ [][Next]_vars

-----------------------------------------------------------------------------

(* The type invariant of post-operation.ts: every stored record is one the *)
(* parser accepts, and a terminal one names several posts.                 *)
TypeOK ==
    /\ record \in Records
    /\ indexed \in BOOLEAN
    /\ lease \in Calls \cup {NoCall}
    /\ posted \subseteq Posts
    /\ call \in [Calls -> Call]
    /\ lapsed \subseteq Calls
    /\ submissions \in Nat
    /\ outcome \in Posts \cup {NoPost}
    /\ told \subseteq Posts

(* The operation keeps the promise of PublishOnce over concurrent calls,   *)
(* lost answers, crashed calls and overlapping leases: one submission, one *)
(* recorded outcome, and every success names it (execute, reconcile and    *)
(* commitPublished).                                                       *)
Promise == INSTANCE PublishOnce WITH disputed <- record.phase = "terminal"
PublishedOnce == Promise!Spec

(* What the record says of Reddit is never lost: a published record        *)
(* changes only into a terminal one that names its post too (the           *)
(* convergence loop of commitTerminal).                                    *)
EvidenceIsKept ==
    [][record.phase = "published" =>
           \/ record' = record
           \/ record'.phase = "terminal" /\ record.post \in record'.posts]_vars

(* A call that met several posts and ends without an error leaves the      *)
(* operation terminal: it never gives up on store contention, as the       *)
(* record can change under it only twice, to published and to terminal     *)
(* (the attempts of commitTerminal).                                       *)
AmbiguityIsRecorded ==
    \A c \in Calls :
        call[c].posts # {} /\ call[c].at = "answer"
        => record.phase = "terminal"

(* Whoever looks for the post, or has yet to let its lease go, holds the   *)
(* lease unless it expired: no call lets go of a lease that another one    *)
(* took after its own expired (releaseLease compares the token).           *)
WorkerHoldsLease ==
    \A c \in Calls : Holds(c) => c \in lapsed \/ lease = c

(* The registry lists every operation but those of an earlier release that *)
(* no call has changed yet, whatever was lost between the registry's write *)
(* and the record's (createIndexed, compareAndSetIndexed).                 *)
RegistryMissesNothing ==
    \/ indexed
    \/ record = Missing
    \/ record.phase = "attempted" /\ record.attempt = Legacy

=============================================================================
