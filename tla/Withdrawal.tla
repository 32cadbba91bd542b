----------------------------- MODULE Withdrawal -----------------------------
(***************************************************************************)
(* What the custody engine promises about a withdrawal, without requests,  *)
(* servers, locks, nonces or audit rows: a stage, which only moves forward,*)
(* and at most one payment, which is made after the signature was recorded *)
(* and decides how the withdrawal ends.                                    *)
(*                                                                         *)
(* The promise has two gaps, which are the code's: a withdrawal is given   *)
(* up (GiveUp) when its broadcast raises, and the payment may be on its    *)
(* way; and withdrawals that ask for the same transfer can be concluded by *)
(* one and the same payment (Resolve), when the network forgot the first   *)
(* one's and its nonce and fee were used again.                            *)
(***************************************************************************)
CONSTANT Tx     \* the withdrawals

VARIABLES
    stage,      \* stage[t]: as far as t came
    payment     \* payment[t]: none, sent, or succeeded or reverted on chain

withdrawalVars == <<stage, payment>>

Outcome == {"succeeded", "reverted"}

WithdrawalInit ==
    /\ stage = [t \in Tx |-> "ABSENT"]
    /\ payment = [t \in Tx |-> "none"]

MoveStage(t, from, to) ==
    /\ stage[t] = from
    /\ stage' = [stage EXCEPT ![t] = to]
    /\ UNCHANGED payment

MovePayment(t, from, to) ==
    /\ payment[t] = from
    /\ payment' = [payment EXCEPT ![t] = to]
    /\ UNCHANGED stage

(* The policy queues the withdrawal, has it reviewed, or blocks it. *)
Ask(t) == \E s \in {"PENDING", "PENDING_REVIEW", "FAILED"} : MoveStage(t, "ABSENT", s)

(* An operator approves or rejects. *)
Review(t) == \E s \in {"PENDING", "FAILED"} : MoveStage(t, "PENDING_REVIEW", s)

(* The signature is recorded before anything is sent. *)
RecordSigned(t) == payment[t] = "none" /\ MoveStage(t, "PENDING", "SIGNED")

(* The one payment, which the network takes once. *)
Pay(t) == stage[t] = "SIGNED" /\ MovePayment(t, "none", "sent")

RecordBroadcast(t) == payment[t] # "none" /\ MoveStage(t, "SIGNED", "BROADCAST")

(* The broadcast raised, before or after the network took the payment. *)
GiveUp(t) == MoveStage(t, "SIGNED", "FAILED")

(* A block includes the payment of the withdrawals in T. *)
Resolve(T) ==
    /\ \A t \in T : payment[t] = "sent"
    /\ \E o \in Outcome : payment' = [t \in Tx |-> IF t \in T THEN o ELSE payment[t]]
    /\ UNCHANGED stage

(* The end follows the chain. *)
Conclude(t) ==
    \/ payment[t] = "succeeded" /\ MoveStage(t, "BROADCAST", "SETTLED")
    \/ payment[t] = "reverted" /\ MoveStage(t, "BROADCAST", "FAILED")

WithdrawalNext ==
    \/ \E t \in Tx :
        \/ Ask(t) \/ Review(t) \/ RecordSigned(t) \/ Pay(t)
        \/ RecordBroadcast(t) \/ GiveUp(t) \/ Conclude(t)
    \/ \E T \in SUBSET Tx : Resolve(T)

WithdrawalSpec == WithdrawalInit /\ [][WithdrawalNext]_withdrawalVars

=============================================================================
