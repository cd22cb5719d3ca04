----------------------------- MODULE PublishOnce -----------------------------
(***************************************************************************)
(* What a Devvit post operation promises whoever asks for it, whatever     *)
(* store, leases and retries stand behind it                               *)
(* (src/adapters/devvit/src/server/post-operation.ts): the post is         *)
(* submitted to Reddit at most once, at most one post is ever recorded as  *)
(* its outcome, and every caller that is told of success is told of that   *)
(* post.  When several posts turn up the operation ends disputed.          *)
(***************************************************************************)
EXTENDS Naturals

CONSTANTS
    Posts,
    NoPost

VARIABLES
    submissions,  \* calls of `publish`
    outcome,      \* the post recorded as published first
    disputed,     \* the record is terminal-unresolved
    told          \* the posts some caller was told of

outcomes == <<submissions, outcome, disputed, told>>

(* An operation of an earlier release may have been submitted already.     *)
Init ==
    /\ submissions \in {0, 1}
    /\ outcome = NoPost
    /\ disputed = FALSE
    /\ told = {}

Submit ==
    /\ submissions = 0
    /\ submissions' = 1
    /\ UNCHANGED <<outcome, disputed, told>>

Settle(p) ==
    /\ submissions = 1
    /\ outcome = NoPost
    /\ ~disputed
    /\ outcome' = p
    /\ UNCHANGED <<submissions, disputed, told>>

Dispute ==
    /\ submissions = 1
    /\ ~disputed
    /\ disputed' = TRUE
    /\ UNCHANGED <<submissions, outcome, told>>

Tell(p) ==
    /\ outcome = p
    /\ told' = told \cup {p}
    /\ UNCHANGED <<submissions, outcome, disputed>>

Next == Submit \/ Dispute \/ \E p \in Posts : Settle(p) \/ Tell(p)

Spec == Init /\ [][Next]_outcomes

=============================================================================
