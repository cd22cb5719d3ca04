------------------------- MODULE MCAccountDeletion -------------------------
(***************************************************************************)
(* AccountDeletion on a small instance: the deletions of one player, whose *)
(* session and an ad network's callback still write, and the deletion of   *)
(* another whose rows no pass erases.                                      *)
(***************************************************************************)
EXTENDS AccountDeletion, TLC

CONSTANTS player, other, first, second, others, session, callback

MCOwner == [d \in Deletions |-> IF d = others THEN other ELSE player]
\* One player's deletions differ in nothing.
Interchangeable == Permutations({first, second})

MCWrites == [w \in Writers |-> player]

=============================================================================
