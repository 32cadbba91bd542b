---------------------------- MODULE MCGatekeeper ----------------------------
(* Constants of the runs of Gatekeeper. *)
EXTENDS Gatekeeper, TLC

SlotSymmetry == Permutations(Slot)
=============================================================================
