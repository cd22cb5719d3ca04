------------------------- MODULE MCPurchaseJournal -------------------------
(***************************************************************************)
(* PurchaseJournal on a small instance: an app that is opened, killed and  *)
(* opened again in two contexts, the first of which buys; one key of the   *)
(* game and one store transaction, which is also the second key.           *)
(***************************************************************************)
EXTENDS PurchaseJournal

CONSTANTS here, there, key, txn

=============================================================================
