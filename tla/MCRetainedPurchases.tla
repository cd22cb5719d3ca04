------------------------- MODULE MCRetainedPurchases -------------------------
(***************************************************************************)
(* RetainedPurchases on small instances: the buyer or the guest deletes    *)
(* its account while the others restore the purchase and the store refunds *)
(* it.                                                                      *)
(***************************************************************************)
EXTENDS RetainedPurchases

CONSTANTS buyer, guest, friend,
          verifyB, restoreG, restoreF,
          keyB, keyG, keyF, key0,
          keptB, keptG, keptF

PlayerOf == [r \in Requests |->
    CASE r = verifyB -> buyer [] r = restoreF -> friend [] OTHER -> guest]

KeyOf == [r \in Requests |->
    CASE r = verifyB -> keyB [] r = restoreF -> keyF [] OTHER -> keyG]

KeptAs == [p \in Players |->
    CASE p = buyer -> keptB [] p = guest -> keptG [] OTHER -> keptF]

Bought == {{[player |-> buyer, key |-> key0, slot |-> 0, across |-> FALSE]}}
FreshOrBought == {{}} \cup Bought

=============================================================================
