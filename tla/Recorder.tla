------------------------------ MODULE Recorder ------------------------------
(***************************************************************************)
(* run_record_demo beside the API servers of Custody, on the same tables   *)
(* and with the same account.  The recorder is a process of its own with   *)
(* one coroutine: its lock and its connections are never contended.        *)
(*                                                                         *)
(* It keeps one session throughout, created with expire_on_commit=False:   *)
(* session.get returns the object the session holds and reads no row, so   *)
(* neither process_pending nor sync sees what other processes commit.      *)
(***************************************************************************)
EXTENDS Custody

VARIABLE rec    \* the coroutine: where it is, its withdrawal, what it signed

recVars == <<vars, rec>>

Fresh == [pc |-> "started", tx |-> 0, held |-> NoHash]

RecorderInit == Init /\ rec = Fresh

Move(pc) == rec' = [rec EXCEPT !.pc = pc]

(* INSERT of an allowed withdrawal; the policy is not asked. *)
RecInsert ==
    /\ rec.pc = "started"
    /\ \E t \in Tx :
        /\ TransferOf[t] \notin Dust
        /\ Insert(t, "ALLOW")
        /\ rec' = [rec EXCEPT !.pc = "inserted", !.tx = t]
    /\ UNCHANGED <<chainVars, submitted>>

(* build and sign: the session's object is PENDING, whatever the row has become. *)
RecSign ==
    /\ rec.pc = "inserted"
    /\ \E f \in Fee : rec' = [rec EXCEPT !.pc = "signed",
          !.held = [nonce |-> NextNonce, transfer |-> TransferOf[rec.tx], fee |-> f]]
    /\ UNCHANGED <<ledgerVars, chainVars, submitted>>

\* Mutant: the payload can leave before SIGNED is committed.
RecCommitSigned_Later ==
    /\ rec.pc = "signed"
    /\ Move("committed")
    /\ UNCHANGED <<ledgerVars, chainVars, submitted>>

RecCommitSigned ==
    /\ rec.pc = "signed"
    /\ UpdateStatus(rec.tx, "SIGNED", "SIGNED", NoHash)
    /\ Move("committed")
    /\ UNCHANGED <<chainVars, submitted>>

RecAccept ==
    /\ rec.pc = "committed"
    /\ SendRaw(rec.held)
    /\ submitted' = submitted \cup {<<rec.tx, rec.held>>}
    /\ \E pc \in Unrecorded : Move(pc)
    /\ UNCHANGED ledgerVars

RecRefuse ==
    /\ rec.pc = "committed"
    /\ Move("refused")
    /\ UNCHANGED <<ledgerVars, chainVars, submitted>>

(* process_pending returns None, and waiting for the receipt of None raises. *)
RecCommitFailed ==
    /\ rec.pc = "refused"
    /\ UpdateStatus(rec.tx, "FAILED", "FAILED", NoHash)
    /\ Move("raised")
    /\ UNCHANGED <<chainVars, submitted>>

RecCommitBroadcast ==
    /\ rec.pc = "sent"
    /\ UpdateBroadcast(rec.tx, rec.held)
    /\ Move("confirming")
    /\ UNCHANGED <<chainVars, submitted>>

\* Mutant: a receipt settles the withdrawal whatever its status.
RecSync_AnyReceipt ==
    /\ rec.pc = "confirming"
    /\ \E ok \in BOOLEAN : HasReceipt(rec.held, ok)
    /\ UpdateSettled(rec.tx, rec.held)
    /\ Move("done")
    /\ UNCHANGED <<chainVars, submitted>>

\* Mutant: the outcome is committed without its audit row.
RecSync_Unaudited ==
    /\ rec.pc = "confirming"
    /\ \E ok \in BOOLEAN : /\ HasReceipt(rec.held, ok)
                           /\ status' = [status EXCEPT ![rec.tx] = IF ok THEN "SETTLED" ELSE "FAILED"]
    /\ Move("done")
    /\ UNCHANGED <<decision, txHash, settledAt, log, chainVars, submitted>>

(* wait_for_transaction_receipt returns and sync follows without a pause.  The
   session's object is BROADCAST, whatever the row has become. *)
RecSync ==
    /\ rec.pc = "confirming"
    /\ \/ HasReceipt(rec.held, TRUE) /\ UpdateSettled(rec.tx, rec.held)
       \/ HasReceipt(rec.held, FALSE) /\ UpdateStatus(rec.tx, "FAILED", "FAILED", rec.held)
    /\ Move("done")
    /\ UNCHANGED <<chainVars, submitted>>

(* A call raises, the wait for the receipt times out, or the process dies. *)
RecRaise ==
    /\ rec.pc \notin {"done", "raised"}
    /\ Move("raised")
    /\ UNCHANGED <<ledgerVars, chainVars, submitted>>

RecStep ==
    /\ \/ RecInsert \/ RecSign \/ RecCommitSigned \/ RecAccept \/ RecRefuse
       \/ RecCommitFailed \/ RecCommitBroadcast \/ RecSync \/ RecRaise
    /\ UNCHANGED <<lockQ, req>>

RecorderNext == (Next /\ UNCHANGED rec) \/ RecStep

RecorderSpec == RecorderInit /\ [][RecorderNext]_recVars

-----------------------------------------------------------------------------
(* A recorder that reaches its end with a trail of three rows prints what
   happened: nobody else moved its row, so the trail is the legal one, a single
   payload was sent, and the row has its hash and the outcome of its receipt,
   although servers read the row, and compete for the nonce, meanwhile. *)
RecordedOnce ==
    rec.pc = "done" /\ Len(log[rec.tx]) = 3 =>
        /\ EventsOf(rec.tx) \in {<<"SIGNED", "BROADCAST", e>> : e \in {"SETTLED", "FAILED"}}
        /\ PayloadsOf(rec.tx) = {rec.held}
        /\ txHash[rec.tx] = rec.held
        /\ HasReceipt(rec.held, status[rec.tx] = "SETTLED")

(* Whatever the servers do to the recorder's row meanwhile, it ends only
   after its own payload was mined, and its record of the outcome is in the trail
   beside theirs: nobody's UPDATE removes an audit row. *)
RecordedSurvives ==
    rec.pc = "done" =>
        \E i \in DOMAIN log[rec.tx] :
            /\ log[rec.tx][i].event \in {"SETTLED", "FAILED"}
            /\ log[rec.tx][i].hash = rec.held
            /\ HasReceipt(rec.held, log[rec.tx][i].event = "SETTLED")

=============================================================================
