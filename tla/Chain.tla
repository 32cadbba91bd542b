-------------------------------- MODULE Chain --------------------------------
(***************************************************************************)
(* The Ethereum node behind WEB3_RPC_URL and the network it is part of, as *)
(* far as the signing account is concerned: what eth.get_transaction_count,*)
(* eth.get_block, eth.send_raw_transaction and eth.get_transaction_receipt *)
(* answer to the code under src/.  External to the repository.             *)
(*                                                                         *)
(* A payload is what determines the raw signed bytes, and so their hash:   *)
(* the nonce, the transfer (address and value) and the fee.  Two           *)
(* withdrawals with the same transfer can produce the same payload.  A     *)
(* mined payload stays mined: reorganisations are not modelled.            *)
(***************************************************************************)
EXTENDS Naturals

CONSTANTS
    Transfer,   \* the (address, value) pairs withdrawals ask for
    Fee         \* the base fees a block can have when a payload is built

VARIABLES
    accountNonce,   \* transactions of the account in the latest block
    mempool,        \* payloads the node accepted and nobody mined yet
    receipts        \* mined payloads with the status of their receipt

chainVars == <<accountNonce, mempool, receipts>>

Payload == [nonce : Nat, transfer : Transfer, fee : Fee]
Receipt == [payload : Payload, ok : BOOLEAN]

ChainInit ==
    /\ accountNonce = 0
    /\ mempool = {}
    /\ receipts = {}

\* Mutant: the count asked for is the pending one, not the latest one.
NextNonce_Pending ==
    IF mempool = {} THEN accountNonce
    ELSE 1 + (CHOOSE n \in {p.nonce : p \in mempool} : \A q \in mempool : n >= q.nonce)

(* eth.get_transaction_count(address): the default block is "latest", so
   payloads of the mempool are not counted. *)
NextNonce == accountNonce

(* The node takes a payload whose nonce is not used up and not occupied.
   All payloads offer the same priority fee, so one in the mempool can never be
   replaced, and a copy of it is refused as already known. *)
Accepts(p) ==
    /\ p.nonce >= accountNonce
    /\ \A q \in mempool : q.nonce # p.nonce

SendRaw(p) ==
    /\ Accepts(p)
    /\ mempool' = mempool \cup {p}
    /\ UNCHANGED <<accountNonce, receipts>>

(* A block includes p; the transfer succeeds or reverts. *)
Mine(p, ok) ==
    /\ p \in mempool
    /\ p.nonce = accountNonce
    /\ accountNonce' = accountNonce + 1
    /\ mempool' = mempool \ {p}
    /\ receipts' = receipts \cup {[payload |-> p, ok |-> ok]}

(* The network forgets p: get_transaction_receipt then raises
   TransactionNotFound, as it does for a payload that waits. *)
Drop(p) ==
    /\ p \in mempool
    /\ mempool' = mempool \ {p}
    /\ UNCHANGED <<accountNonce, receipts>>

ChainStep == \E p \in mempool : Drop(p) \/ \E ok \in BOOLEAN : Mine(p, ok)

HasReceipt(p, ok) == [payload |-> p, ok |-> ok] \in receipts

=============================================================================
