-------------------------- MODULE MCRestoreSharing --------------------------
(***************************************************************************)
(* RestoreSharing on small instances: a buyer, two players who restore its *)
(* purchase, a second device of one of them, and one or two store events.  *)
(***************************************************************************)
EXTENDS RestoreSharing

CONSTANTS buyer, guest, friend,
          verifyB, restoreG, restoreF, again,
          keyB, keyG, keyF, key0

(* One request of each player; `again` is the guest's second request under  *)
(* the same key, as when a client retries before the first one is answered. *)
PlayerOf == [r \in Requests |->
    CASE r = verifyB -> buyer [] r = restoreF -> friend [] OTHER -> guest]

KeyOf == [r \in Requests |->
    CASE r = verifyB -> keyB [] r = restoreF -> keyF [] OTHER -> keyG]

(* Two devices of the guest restore under keys of their own.               *)
DevicesKeyOf == [r \in Requests |-> IF r = again THEN keyF ELSE KeyOf[r]]

FirstGrant(p) == {[player |-> p, key |-> key0, slot |-> 0, across |-> p # buyer]}

Fresh == {{}}
Bought == {FirstGrant(buyer)}
FreshOrBought == Fresh \cup Bought

=============================================================================
