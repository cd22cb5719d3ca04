-------------------------- MODULE MCGuestIdentity --------------------------
(***************************************************************************)
(* GuestIdentity on a small instance.  Requests differ in nothing but what *)
(* they do, so permuting them is a symmetry of the safety runs.            *)
(***************************************************************************)
EXTENDS GuestIdentity, TLC

Interchangeable == Permutations(Requests)

=============================================================================
