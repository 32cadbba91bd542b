------------------------- MODULE CustodyRefinement -------------------------
(***************************************************************************)
(* Custody implements Withdrawal as long as the requests on one withdrawal *)
(* do not overlap (SerialSpec): the stage is the status column, and the    *)
(* payment is what the network made of the payloads sent for it.           *)
(*                                                                         *)
(* Two withdrawals that ask for the same transfer can have the same        *)
(* payload, when the network forgot the first; then one payment is both    *)
(* withdrawals' payment, which Withdrawal allows.                          *)
(***************************************************************************)
EXTENDS Custody

Paid(t, ok) == \E p \in PayloadsOf(t) : HasReceipt(p, ok)

PaymentOf(t) ==
    IF PayloadsOf(t) = {} THEN "none"
    ELSE IF Paid(t, TRUE) THEN "succeeded"
    ELSE IF Paid(t, FALSE) THEN "reverted" ELSE "sent"

W == INSTANCE Withdrawal WITH
        stage <- status,
        payment <- [t \in Tx |-> PaymentOf(t)]

(* process_pending, approve, reject and Reconciler.sync, with their requests cut
   in pieces, their servers dying and their answers lost, do nothing that the
   eight steps of Withdrawal do not: no second payment, no payment of an unsigned
   withdrawal, no stage skipped, taken back or concluded against the chain. *)
RefinesWithdrawal == W!WithdrawalSpec

=============================================================================
