-------------------------- MODULE MCGuestSnapshot ---------------------------
(* Instances of GuestSnapshot for TLC. *)
EXTENDS GuestSnapshot, TLC

RestorerSymmetry == Permutations(Restorers)

LiveClients == {"Pause", "Resume", "AddDevice"}
=============================================================================
