-------------------------- MODULE MCPostOperation --------------------------
(***************************************************************************)
(* PostOperation on a small instance.  Calls, posts and descriptors differ *)
(* in nothing, so permuting each is a symmetry.                            *)
(***************************************************************************)
EXTENDS PostOperation, TLC

CONSTANTS c1, c2, c3, p1, p2, p3, ours, theirs

Interchangeable ==
    Permutations(Calls) \cup Permutations(Posts) \cup Permutations(Descriptors)

=============================================================================
