--------------------------- MODULE MCVoidedSweep ---------------------------
(***************************************************************************)
(* VoidedSweep on a small instance.                                         *)
(***************************************************************************)
EXTENDS VoidedSweep

CONSTANT void1

(* The oldest window begins after time 0, which stands for a cursor never   *)
(* written; the clock runs for two intervals past it.                       *)
FirstRun == Overlap + Window + 1
LastRun == FirstRun + 12

=============================================================================
