------------------------------- MODULE Ledger -------------------------------
(***************************************************************************)
(* The PostgreSQL tables `transactions' and `transaction_audit_logs', at   *)
(* the granularity of committed database transactions.  Every handler      *)
(* flushes and commits its UPDATE together with the INSERT of its audit    *)
(* row, so one action of this project is one commit: the other sessions    *)
(* (READ COMMITTED) see the row before it or after it.                     *)
(*                                                                         *)
(* A withdrawal is named by the order in which the INSERTs commit, and its *)
(* audit rows are listed in the order in which theirs do.  The code orders *)
(* both by created_at, which is taken at the flush just before the commit: *)
(* it can differ from the order here between commits that overlap, even in *)
(* one server.                                                             *)
(***************************************************************************)
EXTENDS Naturals, Sequences

CONSTANTS
    MaxTx,      \* bound: the number of withdrawals ever requested
    NoHash      \* the NULL of the tx_hash column

ASSUME MaxTxAssumption == MaxTx \in Nat

Tx == 1..MaxTx

Status == {"PENDING", "SIGNED", "BROADCAST", "SETTLED", "FAILED", "PENDING_REVIEW"}
Decision == {"ALLOW", "CHALLENGE", "BLOCK"}
EventType == {"APPROVED", "REJECTED", "SIGNED", "BROADCAST", "SETTLED", "FAILED"}

VARIABLES
    status,     \* status[t]: the status column, "ABSENT" before the INSERT
    decision,   \* decision[t]: the policy_decision column
    txHash,     \* txHash[t]: the tx_hash column, the hash identifies the payload
    settledAt,  \* settledAt[t]: the settled_at column is not NULL
    log         \* log[t]: the audit rows of t, in the order of their commits

ledgerVars == <<status, decision, txHash, settledAt, log>>

Exists(t) == status[t] # "ABSENT"

LedgerInit ==
    /\ status = [t \in Tx |-> "ABSENT"]
    /\ decision = [t \in Tx |-> "BLOCK"]
    /\ txHash = [t \in Tx |-> NoHash]
    /\ settledAt = [t \in Tx |-> FALSE]
    /\ log = [t \in Tx |-> <<>>]

\* Mutant: a challenged withdrawal is queued as if it had been allowed.
InitialStatus_ChallengeQueued(d) == IF d = "BLOCK" THEN "FAILED" ELSE "PENDING"

(* The status a new row gets from the policy's decision. *)
InitialStatus(d) ==
    CASE d = "ALLOW" -> "PENDING"
      [] d = "CHALLENGE" -> "PENDING_REVIEW"
      [] d = "BLOCK" -> "FAILED"

(* The audit row added with a status change; it repeats the status. *)
RecordEvent(t, e, s, h) ==
    log' = [log EXCEPT ![t] = Append(@, [event |-> e, status |-> s, hash |-> h])]

(* request_withdrawal's INSERT, the policy's decision being d.  No audit
   row is written. *)
InsertRow(t, d) ==
    /\ status' = [status EXCEPT ![t] = InitialStatus(d)]
    /\ decision' = [decision EXCEPT ![t] = d]
    /\ UNCHANGED <<txHash, settledAt, log>>

(* Where nothing is ever deleted, it takes the first number that is free. *)
Insert(t, d) ==
    /\ ~Exists(t) /\ \A u \in 1..(t - 1) : Exists(u)
    /\ InsertRow(t, d)

(* UPDATE of the status column alone, with its audit row.  SQLAlchemy emits
   UPDATE ... SET status WHERE id: the row's present status is not tested. *)
UpdateStatus(t, e, s, h) ==
    /\ status' = [status EXCEPT ![t] = s]
    /\ RecordEvent(t, e, s, h)
    /\ UNCHANGED <<decision, txHash, settledAt>>

(* UPDATE of status and tx_hash, with the audit row. *)
UpdateBroadcast(t, h) ==
    /\ status' = [status EXCEPT ![t] = "BROADCAST"]
    /\ txHash' = [txHash EXCEPT ![t] = h]
    /\ RecordEvent(t, "BROADCAST", "BROADCAST", h)
    /\ UNCHANGED <<decision, settledAt>>

(* UPDATE of status and settled_at, with the audit row. *)
UpdateSettled(t, h) ==
    /\ status' = [status EXCEPT ![t] = "SETTLED"]
    /\ settledAt' = [settledAt EXCEPT ![t] = TRUE]
    /\ RecordEvent(t, "SETTLED", "SETTLED", h)
    /\ UNCHANGED <<decision, txHash>>

HasEvent(t, e) == \E i \in DOMAIN log[t] : log[t][i].event = e

=============================================================================
