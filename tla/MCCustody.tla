----------------------------- MODULE MCCustody -----------------------------
(* Constants of the runs of Custody. *)
EXTENDS CustodyRefinement, TLC

CONSTANTS r1, r2, r3, r4, r5, toA, toB

(* Requests, and servers, are only told apart by the state they reach. *)
RequestSymmetry == Permutations(Request) \cup Permutations(Server)

(* Withdrawals that ask for the same address and amount, so that two of them
   can share a payload and its hash, or for different ones. *)
SameTransfer == [t \in Tx |-> toA]
OtherTransfer == [t \in Tx |-> IF t = 1 THEN toA ELSE toB]
=============================================================================
