---------------------------- MODULE KeySharding ----------------------------
(***************************************************************************)
(* Splitting a key into shares, and what can be had from the shares        *)
(* again.  Its users are in SimLifecycle.                                  *)
(*                                                                         *)
(* Shamir's field GF(2^128) of 16-byte blocks becomes the integers modulo  *)
(* a small prime, so that a block is one field element and a key one or    *)
(* two blocks, the second padded.  A share is a number and a payload.      *)
(***************************************************************************)
EXTENDS Integers, SequencesExt

CONSTANTS
    Prime,          \* size of the field; above Total
    MaxSecretSize,  \* blocks in a payload
    Threshold, Total

ASSUME KeyShardingAssumption ==
    /\ Prime \in Nat /\ \A d \in 2 .. (Prime - 1) : Prime % d # 0
    /\ MaxSecretSize \in Nat
    /\ Threshold \in 1 .. Total /\ Total \in 1 .. (Prime - 1)

VARIABLES
    secret,     \* what was split
    shares      \* the payloads, by share number; none before the split

shardVars == <<secret, shares>>

Element == 0 .. (Prime - 1)

Key(k) == [raised |-> FALSE, key |-> k]
Raised == [raised |-> TRUE, key |-> <<>>]   \* ValueError

-----------------------------------------------------------------------------
(* Crypto.Protocol.SecretSharing.  The block is the constant coefficient. *)
Evaluate(coefficients, x) == FoldLeft(LAMBDA acc, c : (x * acc + c) % Prime, 0, coefficients)

InverseOf(a) == CHOOSE b \in Element : (a * b) % Prime = 1

(* Lagrange's interpolation at 0 through all the points given. *)
Combine(points) ==
    LET Weight(j) == FoldLeft(
            LAMBDA acc, m : IF m = j THEN acc
                ELSE (acc * points[m][1] * InverseOf((points[m][1] - points[j][1]) % Prime)) % Prime,
            1, [i \in DOMAIN points |-> i])
    IN  FoldLeft(LAMBDA acc, j : (acc + points[j][2] * Weight(j)) % Prime,
                 0, [i \in DOMAIN points |-> i])

DuplicateShare(points) == \E i, j \in DOMAIN points : i # j /\ points[i][1] = points[j][1]

-----------------------------------------------------------------------------
(* split_secret: every block is padded and split with coefficients of its own. *)
SplitSecret(s, coefficients) ==
    LET normalized == [b \in 1 .. MaxSecretSize |-> IF b <= Len(s) THEN s[b] ELSE 0]
    IN  [index \in 1 .. Total |->
            [length |-> Len(s),
             blocks |-> [b \in 1 .. MaxSecretSize |->
                            Evaluate(Append(coefficients[b], normalized[b]), index)]]]

Points(indices, b) == [i \in DOMAIN indices |-> <<indices[i], shares[indices[i]].blocks[b]>>]

Blocks(indices) == [b \in 1 .. MaxSecretSize |-> Combine(Points(indices, b))]

\* Mutant: the padding is not cut off.
ReconstructSecret_Untruncated(indices) ==
    IF Len(indices) < Threshold \/ DuplicateShare(Points(indices, 1)) THEN Raised
    ELSE Key(Blocks(indices))

\* Mutant: the number of shares is not compared with the threshold.
ReconstructSecret_AnyNumber(indices) ==
    IF indices = <<>> \/ DuplicateShare(Points(indices, 1)) THEN Raised
    ELSE Key(SubSeq(Blocks(indices), 1, shares[indices[1]].length))

(* reconstruct_secret *)
ReconstructSecret(indices) ==
    IF Len(indices) < Threshold \/ DuplicateShare(Points(indices, 1)) THEN Raised
    ELSE Key(SubSeq(Blocks(indices), 1, shares[indices[1]].length))

-----------------------------------------------------------------------------
ShardInit == secret = <<>> /\ shares = <<>>

(* Secrets of every length up to the limit, and any coefficients; a longer secret
   raises before it is split. *)
Split ==
    /\ shares = <<>>
    /\ \E length \in 0 .. MaxSecretSize : \E s \in [1 .. length -> Element] :
       \E coefficients \in [1 .. MaxSecretSize -> [1 .. (Threshold - 1) -> Element]] :
            /\ secret' = s
            /\ shares' = SplitSecret(s, coefficients)

(* Shares as they can be presented: in any order, any number of copies. *)
Presentable == UNION {[1 .. number -> 1 .. Total] : number \in 0 .. Total}

Quorum(indices) == Cardinality(Range(indices)) >= Threshold /\ IsInjective(indices)

=============================================================================
