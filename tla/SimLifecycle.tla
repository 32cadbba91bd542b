---------------------------- MODULE SimLifecycle ----------------------------
(***************************************************************************)
(* The simulation lifecycle, TransactionLifecycleProcessor, with the       *)
(* simulated MPC signer it calls, and the break-glass recovery beside it.  *)
(* Callers, each with a database session of its own, sign and broadcast    *)
(* withdrawals concurrently.  There is no nonce and no nonce lock: what is *)
(* signed is the withdrawal itself, by a hash of the key and of its        *)
(* serialization.                                                          *)
(*                                                                         *)
(* The API's review handlers are calls too: what they approve is PENDING,  *)
(* and PENDING is all that sign_pending asks for.                          *)
(* An exception of the signer or of the broadcaster escapes: the row stays *)
(* as it was last committed.  The receipts are Custody's subject.          *)
(***************************************************************************)
EXTENDS Ledger, KeySharding

CONSTANT Caller     \* bound: calls of the processor, the recovery and the review

VARIABLES
    call,       \* call[c]: the local state of a call
    returned,   \* history: <<t, p>> when sign_pending returned payload p for t
    emitted     \* history: <<t, p>> when the broadcaster took payload p for t

vars == <<ledgerVars, shardVars, call, returned, emitted>>

(* The serialization holds str(amount): "10" in the session that inserted the
   row, "10.000000000000000000" in one that loaded it. *)
Text == {"inserted", "loaded"}

NoPayload == "no payload"

(* pc: reviewing  the row was read as PENDING_REVIEW by a review handler
       loaded     the row was read, or inserted, as PENDING
       answered   the shares gave a key or raised
       signed     the payload is signed, the commit of SIGNED is under way
       committed  the payload is about to be broadcast
       sent       the broadcaster returned a hash, its commit is under way
   quorum is a history of the shares the call was given, from is what
   reconstruct_secret made of them. *)
Idle == [pc |-> "idle", tx |-> 0, text |-> "loaded", payload |-> NoPayload,
         quorum |-> FALSE, from |-> Raised]
Over == [Idle EXCEPT !.pc = "over"]

Busy(c) == call[c].pc \notin {"idle", "over"}

Become(c, new) == call' = [call EXCEPT ![c] = new]
Go(c, pc) == call' = [call EXCEPT ![c].pc = pc]

Init ==
    /\ LedgerInit /\ ShardInit
    /\ call = [c \in Caller |-> Idle]
    /\ returned = {} /\ emitted = {}

-----------------------------------------------------------------------------
SplitKey == Split /\ UNCHANGED <<ledgerVars, call, returned, emitted>>

(* A withdrawal arrives through the API. *)
RequestWithdrawal ==
    /\ \E t \in Tx, d \in Decision : Insert(t, d)
    /\ UNCHANGED <<shardVars, call, returned, emitted>>

(* Or its processor's own session inserts it, and session.get then answers with
   that object. *)
InsertOwn(c) ==
    /\ call[c].pc = "idle" /\ shares # <<>>
    /\ \E t \in Tx :
        /\ Insert(t, "ALLOW")
        /\ Become(c, [Idle EXCEPT !.pc = "loaded", !.tx = t, !.text = "inserted"])
    /\ UNCHANGED <<shardVars, returned, emitted>>

(* approve_withdrawal and reject_withdrawal: the row was PENDING_REVIEW when it was
   read; their commit does not ask again. *)
ReviewWithdrawal(c, t) ==
    /\ call[c].pc = "idle"
    /\ status[t] = "PENDING_REVIEW"
    /\ Become(c, [Idle EXCEPT !.pc = "reviewing", !.tx = t])
    /\ UNCHANGED <<ledgerVars, shardVars, returned, emitted>>

CommitReview(c) ==
    /\ call[c].pc = "reviewing"
    /\ \/ UpdateStatus(call[c].tx, "APPROVED", "PENDING", NoHash)
       \/ UpdateStatus(call[c].tx, "REJECTED", "FAILED", NoHash)
    /\ Become(c, Over)
    /\ UNCHANGED <<shardVars, returned, emitted>>

(* sign_pending's read of the row. *)
Load(c, t) ==
    /\ call[c].pc = "idle" /\ shares # <<>>
    /\ status[t] = "PENDING"
    /\ Become(c, [Idle EXCEPT !.pc = "loaded", !.tx = t])
    /\ UNCHANGED <<ledgerVars, shardVars, returned, emitted>>

\* Mutant: what is signed also depends on what happened to the row so far.
Serialize_Stamped(c) ==
    [tx |-> call[c].tx, text |-> call[c].text, events |-> Len(log[call[c].tx])]

(* serialize_transaction_for_signing; address and ledger come with the id. *)
Serialize(c) == [tx |-> call[c].tx, text |-> call[c].text]

(* MPCSigner.sign, with the shares the processor was made with.  If it raises,
   nothing of sign_pending has been written. *)
Sign(c) ==
    /\ call[c].pc = "loaded"
    /\ \E indices \in Presentable :
        LET from == ReconstructSecret(indices)
        IN  Become(c, [call[c] EXCEPT !.quorum = Quorum(indices), !.from = from,
                !.pc = IF from.raised THEN "answered" ELSE "signed",
                !.payload = IF from.raised THEN NoPayload
                            ELSE [key |-> from.key, data |-> Serialize(c)]])
    /\ UNCHANGED <<ledgerVars, shardVars, returned, emitted>>

\* Mutant: the payload is handed out before SIGNED is committed.
CommitSigned_Later(c) ==
    /\ call[c].pc = "signed"
    /\ Go(c, "committed")
    /\ returned' = returned \cup {<<call[c].tx, call[c].payload>>}
    /\ UNCHANGED <<ledgerVars, shardVars, emitted>>

\* Mutant: signing again resets the row to that of an unsent withdrawal.
CommitSigned_ClearsHash(c) ==
    /\ call[c].pc = "signed"
    /\ status' = [status EXCEPT ![call[c].tx] = "SIGNED"]
    /\ txHash' = [txHash EXCEPT ![call[c].tx] = NoHash]
    /\ RecordEvent(call[c].tx, "SIGNED", "SIGNED", NoHash)
    /\ Go(c, "committed")
    /\ returned' = returned \cup {<<call[c].tx, call[c].payload>>}
    /\ UNCHANGED <<decision, settledAt, shardVars, emitted>>

(* The commit of SIGNED, whose status the present row is not asked for.
   process_pending goes on to broadcast_signed, whose session.get answers with
   the object just written; sign_pending alone returns to its caller here. *)
CommitSigned(c) ==
    /\ call[c].pc = "signed"
    /\ UpdateStatus(call[c].tx, "SIGNED", "SIGNED", NoHash)
    /\ Go(c, "committed")
    /\ returned' = returned \cup {<<call[c].tx, call[c].payload>>}
    /\ UNCHANGED <<shardVars, emitted>>

(* broadcast_signed in a session that has not seen the row: it has to be SIGNED. *)
LoadSigned(c, t, p) ==
    /\ call[c].pc = "idle"
    /\ status[t] = "SIGNED"
    /\ <<t, p>> \in returned
    /\ Become(c, [Idle EXCEPT !.pc = "committed", !.tx = t, !.payload = p])
    /\ UNCHANGED <<ledgerVars, shardVars, returned, emitted>>

(* The broadcaster takes the payload; it may raise all the same, and the exception
   leaves broadcast_signed. *)
Broadcast(c) ==
    /\ call[c].pc = "committed"
    /\ emitted' = emitted \cup {<<call[c].tx, call[c].payload>>}
    /\ Go(c, "sent") \/ Become(c, Over)
    /\ UNCHANGED <<ledgerVars, shardVars, returned>>

CommitBroadcast(c) ==
    /\ call[c].pc = "sent"
    /\ UpdateBroadcast(call[c].tx, call[c].payload)
    /\ Become(c, Over)
    /\ UNCHANGED <<shardVars, returned, emitted>>

(* BreakGlassRecovery.recover.  It shares nothing with the processor: it is called
   before any of its calls, which bounds the states. *)
Recover(c) ==
    /\ shares # <<>> /\ \A d \in Caller : ~Busy(d)
    /\ call[c].pc = "idle" /\ \A t \in Tx : ~Exists(t)
    /\ \E indices \in Presentable :
        Become(c, [Idle EXCEPT !.pc = "answered", !.quorum = Quorum(indices),
                               !.from = ReconstructSecret(indices)])
    /\ UNCHANGED <<ledgerVars, shardVars, returned, emitted>>

(* The call ends before its next step: an exception escapes, its process dies, or
   sign_pending's caller does not broadcast. *)
Leave(c) ==
    /\ Busy(c)
    /\ Become(c, Over)
    /\ UNCHANGED <<ledgerVars, shardVars, returned, emitted>>

Quiescent == (\A c \in Caller : ~Busy(c)) /\ UNCHANGED vars

Next ==
    \/ Quiescent
    \/ SplitKey \/ RequestWithdrawal
    \/ \E c \in Caller :
        \/ InsertOwn(c) \/ Sign(c) \/ CommitSigned(c) \/ Broadcast(c)
        \/ CommitBroadcast(c) \/ CommitReview(c) \/ Recover(c) \/ Leave(c)
        \/ \E t \in Tx : ReviewWithdrawal(c, t) \/ Load(c, t) \/ \E x \in returned : LoadSigned(c, t, x[2])

Spec == Init /\ [][Next]_vars

-----------------------------------------------------------------------------
Asked(c) == call[c].pc \in {"answered", "signed"}

(* Whatever the coefficients, any threshold or more of the shares, once each and in
   any order, give the signer and the recovery the key that was split, of its own
   length (reconstruct_secret). *)
AnyQuorumRecovers ==
    \A c \in Caller : Asked(c) /\ call[c].quorum => call[c].from = Key(secret)

(* Fewer shares, copies included, never pass for a key: no signature is made with
   a key that was not the one split. *)
FewerNeverAnswer ==
    \A c \in Caller : Asked(c) /\ ~call[c].quorum => call[c].from = Raised

(* Unlike the Ethereum processor, this one cannot pay a withdrawal twice with two
   payloads: however many calls race, retry or resume it, and whatever quorum each
   was given, sessions that loaded the row emit the very same bytes.  The session
   that inserted the row is the exception: it spells the amount differently. *)
OnePayload ==
    \A x, y \in emitted : x[1] = y[1] /\ x[2].data.text = y[2].data.text => x = y

(* A stale commit of SIGNED may take the status back after the broadcast was
   recorded, but never the hash: once a BROADCAST row is in the trail, tx_hash is
   that of a payload emitted for this withdrawal. *)
HashSurvives ==
    \A t \in Tx : HasEvent(t, "BROADCAST") => <<t, txHash[t]>> \in emitted

Cleared(t) ==
    \/ decision[t] = "ALLOW"
    \/ decision[t] = "CHALLENGE" /\ HasEvent(t, "APPROVED")

(* Whatever leaves for the network was committed as SIGNED before, and cleared before
   that: by the policy, or by an operator's approval that is in the trail.  Stale
   approvals and rejections, an exception that escapes after the broadcast, and a
   crash all leave the trace by which the payload and its warrant can be found. *)
EmittedAudited ==
    \A x \in emitted : HasEvent(x[1], "SIGNED") /\ Cleared(x[1])

=============================================================================
