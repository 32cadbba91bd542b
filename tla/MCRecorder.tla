----------------------------- MODULE MCRecorder -----------------------------
(* Constants of the runs of Recorder. *)
EXTENDS Recorder, TLC

CONSTANTS toA, toB

RequestSymmetry == Permutations(Request)
SameTransfer == [t \in Tx |-> toA]
=============================================================================
