--------------------------- MODULE RecorderProofs ---------------------------
(***************************************************************************)
(* Theorems of Recorder: the run of run_record_demo beside any number of   *)
(* servers and requests.                                                   *)
(*                                                                         *)
(* A step of RecorderSpec is one of Custody's own, an INSERT of the        *)
(* recorder (which is one of Custody's, too), a payload it sends, or an    *)
(* UPDATE it commits.  The lemmas of Custody cover the first two.          *)
(***************************************************************************)
EXTENDS Recorder, CustodyProofs

-----------------------------------------------------------------------------
(* Where the recorder can be, and what it knows there. *)
Signing == {"signed", "committed", "sent", "refused", "confirming", "done"}

RecState ==
    [pc : {"started"}, tx : {0}, held : {NoHash}]
        \cup [pc : {"inserted"}, tx : Tx, held : {NoHash}]
        \cup [pc : Signing, tx : Tx, held : Payload]
        \cup [pc : {"raised"}, tx : Tx \cup {0}, held : Payload \cup {NoHash}]

(* An UPDATE of t with its audit row that repeats it, by nobody's request. *)
Updates(t, s, h) ==
    /\ status' = [status EXCEPT ![t] = s]
    /\ RecordEvent(t, s, s, h)
    /\ IF s = "BROADCAST" THEN txHash' = [txHash EXCEPT ![t] = h] ELSE UNCHANGED txHash
    /\ settledAt' = IF s = "SETTLED" THEN [settledAt EXCEPT ![t] = TRUE] ELSE settledAt
    /\ UNCHANGED <<decision, chainVars, submitted, lockQ, req>>

Finality(ok) == IF ok THEN "SETTLED" ELSE "FAILED"

(* The recorder's commits. *)
Writes(to, s, h) ==
    /\ \/ rec.pc = "signed" /\ to = "committed" /\ s = "SIGNED" /\ h = NoHash
       \/ rec.pc = "refused" /\ to = "raised" /\ s = "FAILED" /\ h = NoHash
       \/ rec.pc = "sent" /\ to = "confirming" /\ s = "BROADCAST" /\ h = rec.held
       \/ /\ rec.pc = "confirming" /\ to = "done" /\ h = rec.held
          /\ \E ok \in BOOLEAN : HasReceipt(h, ok) /\ s = Finality(ok)
    /\ rec' = [rec EXCEPT !.pc = to]
    /\ Updates(rec.tx, s, h)

(* What is left of a step for the lemmas of this module. *)
LEMMA RecSteps ==
    ASSUME RecorderNext
    PROVE  \/ [Next]_vars /\ UNCHANGED rec
           \/ RecInsert /\ [Next]_vars
           \/ (RecSign \/ RecRefuse \/ RecRaise) /\ UNCHANGED vars
           \/ RecAccept /\ UNCHANGED <<ledgerVars, lockQ, req>>
           \/ \E to, s, h : Writes(to, s, h)
<1>1. CASE RecInsert /\ UNCHANGED <<lockQ, req>>
  <2>1. RequestWithdrawal
    BY <1>1 DEF RecInsert, RequestWithdrawal, Decision
  <2> QED
    BY <1>1, <2>1 DEF Next
<1>2. CASE (RecSign \/ RecRefuse \/ RecRaise) /\ UNCHANGED <<lockQ, req>>
  BY <1>2 DEF RecSign, RecRefuse, RecRaise, vars
<1>3. CASE RecAccept /\ UNCHANGED <<lockQ, req>>
  BY <1>3 DEF RecAccept
<1>4. CASE RecCommitSigned /\ UNCHANGED <<lockQ, req>>
  <2>1. Writes("committed", "SIGNED", NoHash)
    BY <1>4 DEF RecCommitSigned, UpdateStatus, Writes, Updates, Move
  <2> QED
    BY <2>1
<1>5. CASE RecCommitFailed /\ UNCHANGED <<lockQ, req>>
  <2>1. Writes("raised", "FAILED", NoHash)
    BY <1>5 DEF RecCommitFailed, UpdateStatus, Writes, Updates, Move
  <2> QED
    BY <2>1
<1>6. CASE RecCommitBroadcast /\ UNCHANGED <<lockQ, req>>
  <2>1. Writes("confirming", "BROADCAST", rec.held)
    BY <1>6 DEF RecCommitBroadcast, UpdateBroadcast, Writes, Updates, Move
  <2> QED
    BY <2>1
<1>7. CASE RecSync /\ UNCHANGED <<lockQ, req>>
  <2>1. CASE HasReceipt(rec.held, TRUE) /\ UpdateSettled(rec.tx, rec.held)
    <3>1. Writes("done", "SETTLED", rec.held)
      BY <1>7, <2>1 DEF RecSync, UpdateSettled, Writes, Updates, Move, Finality
    <3> QED
      BY <3>1
  <2>2. CASE HasReceipt(rec.held, FALSE) /\ UpdateStatus(rec.tx, "FAILED", "FAILED", rec.held)
    <3>1. Writes("done", "FAILED", rec.held)
      BY <1>7, <2>2 DEF RecSync, UpdateStatus, Writes, Updates, Move, Finality
    <3> QED
      BY <3>1
  <2> QED
    BY <1>7, <2>1, <2>2 DEF RecSync
<1> QED
  BY <1>1, <1>2, <1>3, <1>4, <1>5, <1>6, <1>7 DEF RecorderNext, RecStep

-----------------------------------------------------------------------------
(* Types. *)

RecTyped == TypeOK /\ rec \in RecState

(* The recorder at a given point. *)
LEMMA RecAt ==
    ASSUME rec \in RecState
    PROVE  /\ rec.pc \in Signing => rec.tx \in Tx /\ rec.held \in Payload
           /\ rec.pc = "inserted" => rec.tx \in Tx
           /\ rec = [pc |-> rec.pc, tx |-> rec.tx, held |-> rec.held]
BY DEF RecState, Signing

(* A commit, whatever it commits. *)
LEMMA WriteTyped ==
    ASSUME RecTyped, NEW to, NEW s, NEW h, Writes(to, s, h)
    PROVE  /\ rec.tx \in Tx /\ rec.held \in Payload /\ h \in Payload \cup {NoHash}
           /\ s \in Status /\ s \in EventType
           /\ rec'.pc = to /\ rec'.tx = rec.tx /\ rec'.held = rec.held
<1>1. rec.pc \in Signing
  BY DEF Writes, Signing
<1>2. /\ rec = [pc |-> rec.pc, tx |-> rec.tx, held |-> rec.held]
      /\ rec.tx \in Tx /\ rec.held \in Payload
  BY <1>1, RecAt DEF RecTyped
<1>3. rec'.pc = to /\ rec'.tx = rec.tx /\ rec'.held = rec.held
  BY <1>2 DEF Writes
<1>4. s \in Status /\ s \in EventType
  BY DEF Writes, Status, EventType, Finality
<1> QED
  BY <1>2, <1>3, <1>4 DEF Writes

(* The payload is sent. *)
LEMMA RecAcceptTyped ==
    ASSUME RecTyped, RecAccept
    PROVE  /\ rec.pc = "committed" /\ rec.tx \in Tx /\ rec.held \in Payload
           /\ rec'.pc \in {"sent", "refused"} /\ rec'.tx = rec.tx /\ rec'.held = rec.held
<1>1. PICK pc \in Unrecorded : Move(pc)
  BY DEF RecAccept
<1>2. /\ rec = [pc |-> rec.pc, tx |-> rec.tx, held |-> rec.held]
      /\ rec.tx \in Tx /\ rec.held \in Payload
  BY RecAt DEF RecTyped, RecAccept, Signing
<1>3. rec'.pc = pc /\ rec'.tx = rec.tx /\ rec'.held = rec.held
  BY <1>1, <1>2 DEF Move
<1> QED
  BY <1>2, <1>3 DEF RecAccept, Unrecorded

(* The recorder signs the payload of the next nonce. *)
LEMMA RecSignTyped ==
    ASSUME RecTyped, RecSign
    PROVE  /\ rec.tx \in Tx /\ rec'.pc = "signed" /\ rec'.tx = rec.tx
           /\ rec'.held \in Payload /\ rec'.held.nonce = accountNonce
<1>1. /\ rec = [pc |-> rec.pc, tx |-> rec.tx, held |-> rec.held] /\ rec.tx \in Tx
  BY RecAt DEF RecTyped, RecSign
<1>2. PICK f \in Fee : rec' = [rec EXCEPT !.pc = "signed",
          !.held = [nonce |-> NextNonce, transfer |-> TransferOf[rec.tx], fee |-> f]]
  BY DEF RecSign
<1> DEFINE p == [nonce |-> NextNonce, transfer |-> TransferOf[rec.tx], fee |-> f]
<1>3. p \in Payload /\ p.nonce = accountNonce
  BY <1>1, CustodyAssumption DEF Payload, NextNonce, RecTyped, TypeOK
<1>4. rec' = [rec EXCEPT !.pc = "signed", !.held = p]
  BY <1>2
<1> HIDE DEF p
<1> QED
  BY <1>1, <1>3, <1>4

(* The INSERT of the recorder's row. *)
LEMMA RecInsertTyped ==
    ASSUME RecTyped, RecInsert
    PROVE  \E t \in Tx : /\ ~Exists(t) /\ Insert(t, "ALLOW")
                         /\ rec' = [pc |-> "inserted", tx |-> t, held |-> NoHash]
<1>1. PICK t \in Tx : Insert(t, "ALLOW") /\ rec' = [rec EXCEPT !.pc = "inserted", !.tx = t]
  BY DEF RecInsert
<1>2. rec.held = NoHash /\ rec = [pc |-> rec.pc, tx |-> rec.tx, held |-> rec.held]
  BY DEF RecInsert, RecTyped, RecState, Signing
<1>3. rec' = [pc |-> "inserted", tx |-> t, held |-> NoHash]
  BY <1>1, <1>2
<1> QED
  BY <1>1, <1>3 DEF Insert, InsertRow

(* RecTyped is inductive. *)
LEMMA RecTypedNext == RecTyped /\ [RecorderNext]_recVars => RecTyped'
<1> SUFFICES ASSUME RecTyped, [RecorderNext]_recVars PROVE RecTyped'
  OBVIOUS
<1>1. CASE [Next]_vars /\ UNCHANGED rec
  BY <1>1, NextTyped DEF RecTyped, RecState
<1>2. CASE RecInsert /\ [Next]_vars
  <2>1. rec' \in RecState
    BY <1>2, RecInsertTyped DEF RecState
  <2> QED
    BY <1>2, <2>1, NextTyped DEF RecTyped
<1>3. CASE (RecSign \/ RecRefuse \/ RecRaise) /\ UNCHANGED vars
  <2>1. TypeOK'
    BY <1>3, NextTyped DEF RecTyped
  <2>2. CASE RecSign
    <3>1. rec' = [pc |-> "signed", tx |-> rec.tx, held |-> rec'.held]
      BY <2>2, RecAt DEF RecSign, RecTyped
    <3>2. rec.tx \in Tx /\ rec'.held \in Payload
      BY <2>2, RecSignTyped
    <3>3. rec' \in RecState
      BY <3>1, <3>2 DEF RecState, Signing
    <3> QED
      BY <2>1, <3>3 DEF RecTyped
  <2>3. CASE RecRefuse
    BY <2>1, <2>3 DEF RecRefuse, Move, RecTyped, RecState, Signing
  <2>4. CASE RecRaise
    BY <2>1, <2>4 DEF RecRaise, Move, RecTyped, RecState
  <2> QED
    BY <1>3, <2>2, <2>3, <2>4
<1>4. CASE RecAccept /\ UNCHANGED <<ledgerVars, lockQ, req>>
  <2>1. rec' \in RecState
    BY <1>4 DEF RecAccept, Move, RecTyped, RecState, Signing, Unrecorded
  <2>2. rec.tx \in Tx /\ rec.held \in Payload
    BY <1>4, RecAcceptTyped
  <2>3. TypeOK'
    BY <1>4, <2>2 DEF RecAccept, SendRaw, TypeOK, RecTyped, ledgerVars
  <2> QED
    BY <2>1, <2>3 DEF RecTyped
<1>5. ASSUME NEW to, NEW s, NEW h, Writes(to, s, h) PROVE RecTyped'
  <2>1. /\ rec.tx \in Tx /\ h \in Payload \cup {NoHash} /\ s \in Status /\ s \in EventType
    BY <1>5, WriteTyped
  <2>2. log' \in [Tx -> Seq(Event)]
    BY <1>5, <2>1, RecordTyped DEF Writes, Updates, RecTyped, TypeOK
  <2>3. TypeOK'
    BY <1>5, <2>1, <2>2 DEF Writes, Updates, RecTyped, TypeOK, chainVars
  <2>4. rec' \in RecState
    BY <1>5 DEF Writes, RecTyped, RecState, Signing
  <2> QED
    BY <2>3, <2>4 DEF RecTyped
<1>6. CASE UNCHANGED recVars
  BY <1>6, NextTyped DEF recVars, RecTyped
<1> QED
  BY <1>1, <1>2, <1>3, <1>4, <1>5, <1>6, RecSteps

-----------------------------------------------------------------------------
(* Hashes and receipts. *)

Taken == {"sent", "confirming", "done"}     \* the node took the recorder's payload

(* The strengthening of SettledIsPaid: what the requests hold or have read was
   submitted, and so was what the recorder waits for. *)
RecHashInv ==
    /\ HashInv
    /\ rec.pc \in Taken => <<rec.tx, rec.held>> \in submitted

(* RecHashInv is inductive. *)
LEMMA RecHashNext == RecTyped /\ RecHashInv /\ [RecorderNext]_recVars => RecHashInv'
<1> SUFFICES ASSUME RecTyped, RecHashInv, [RecorderNext]_recVars PROVE RecHashInv'
  OBVIOUS
<1>1. CASE [Next]_vars /\ rec'.pc \notin Taken
  BY <1>1, HashNext DEF RecTyped, RecHashInv
<1>2. CASE [Next]_vars /\ UNCHANGED rec
  BY <1>2, HashNext, HistoryGrows DEF RecTyped, RecHashInv
<1>3. CASE RecAccept /\ UNCHANGED <<ledgerVars, lockQ, req>>
  <2>1. /\ <<rec.tx, rec.held>> \in submitted' /\ submitted \subseteq submitted'
        /\ rec'.tx = rec.tx /\ rec'.held = rec.held
    BY <1>3, RecAcceptTyped DEF RecAccept
  <2>2. HashInv'
    BY <1>3, <2>1 DEF RecAccept, SendRaw, RecHashInv, HashInv, BroadcastCarriesHash, SettledIsPaid,
       HasReceipt, ledgerVars
  <2> QED
    BY <2>1, <2>2 DEF RecHashInv
<1>4. ASSUME NEW to, NEW s, NEW h, Writes(to, s, h) PROVE RecHashInv'
  <2>1. /\ rec.tx \in Tx /\ h \in Payload \cup {NoHash} /\ s \in Status /\ s \in EventType
        /\ rec'.pc = to /\ rec'.tx = rec.tx /\ rec'.held = rec.held
    BY <1>4, WriteTyped
  <2>2. s = "BROADCAST" \/ s = "SETTLED" => <<rec.tx, h>> \in submitted
    BY <1>4 DEF Writes, RecHashInv, Taken, Finality
  <2>3. s = "SETTLED" => HasReceipt(h, TRUE)
    BY <1>4 DEF Writes, Finality
  <2>4. BroadcastCarriesHash' /\ SettledIsPaid'
    BY <1>4, <2>1, <2>2, <2>3, UpdateHash DEF Writes, Updates, RecTyped, RecHashInv, chainVars
  <2>5. rec'.pc \in Taken => rec.pc \in Taken
    BY <1>4, <2>1 DEF Writes, Taken
  <2> QED
    BY <1>4, <2>1, <2>4, <2>5 DEF Writes, Updates, RecHashInv, HashInv
<1>5. rec' = rec \/ rec'.pc \notin Taken \/ ~(RecInsert \/ RecSign \/ RecRefuse \/ RecRaise)
  <2>1. CASE RecInsert
    BY <2>1, RecInsertTyped DEF Taken
  <2>2. CASE RecSign
    BY <2>2, RecSignTyped DEF Taken
  <2>3. CASE RecRefuse \/ RecRaise
    BY <2>3, RecAt DEF RecRefuse, RecRaise, Move, RecTyped, Taken
  <2> QED
    BY <2>1, <2>2, <2>3
<1> QED
  BY <1>1, <1>2, <1>3, <1>4, <1>5, RecSteps DEF recVars

-----------------------------------------------------------------------------
(* Nonces. *)

(* The strengthening of OneOutstanding: the nonce of the recorder's signed payload
   was the account's, like those of the requests. *)
RecNonceInv ==
    /\ NonceInv
    /\ rec.pc \in {"signed", "committed"} => rec.held.nonce <= accountNonce

(* The account's nonce only grows. *)
LEMMA NonceGrows ==
    ASSUME TypeOK, [Next]_vars
    PROVE  accountNonce \in Nat /\ accountNonce' \in Nat /\ accountNonce <= accountNonce'
<1>1. ASSUME NEW r \in Request, Step(r) \/ Abort(r) \/ Start(r) PROVE accountNonce' = accountNonce
  <2>1. CASE Start(r)
    BY <2>1, LoadTyped DEF chainVars
  <2>2. CASE Accept(r)
    BY <2>2 DEF Accept, SendRaw
  <2>3. CASE (Step(r) \/ Abort(r)) /\ ~Accept(r)
    BY <2>3 DEF Step, AwaitLock, Sign, BuildFails, CommitSigned, Refuse, CommitBroadcast,
       CommitFailed, CommitApprove, CommitReject, CommitReview, NoReceipt, Settle, PoolTimeout, Abort,
       chainVars
  <2> QED
    BY <1>1, <2>1, <2>2, <2>3
<1>2. CASE ChainMoves
  BY <1>2 DEF ChainMoves, ChainStep, Mine, Drop, TypeOK
<1>3. accountNonce' = accountNonce => accountNonce' \in Nat /\ accountNonce <= accountNonce'
  BY DEF TypeOK
<1> QED
  BY <1>1, <1>2, <1>3 DEF Next, RequestWithdrawal, Crash, Quiescent, vars, chainVars, TypeOK

(* RecNonceInv is inductive. *)
LEMMA RecNonceNext == RecTyped /\ RecNonceInv /\ [RecorderNext]_recVars => RecNonceInv'
<1> SUFFICES ASSUME RecTyped, RecNonceInv, [RecorderNext]_recVars PROVE RecNonceInv'
  OBVIOUS
<1>1. rec.pc \in {"signed", "committed"} => rec.held.nonce \in Nat
  BY RecAt DEF RecTyped, Signing, Payload
<1>2. ASSUME [Next]_vars, \/ UNCHANGED rec \/ rec'.pc \notin {"signed", "committed"} PROVE RecNonceInv'
  <2>1. NonceInv'
    BY <1>2, NonceNext DEF RecTyped, RecNonceInv
  <2>2. accountNonce \in Nat /\ accountNonce' \in Nat /\ accountNonce <= accountNonce'
    BY <1>2, NonceGrows DEF RecTyped
  <2>3. CASE UNCHANGED rec
    BY <1>1, <2>1, <2>2, <2>3 DEF RecNonceInv
  <2>4. CASE rec'.pc \notin {"signed", "committed"}
    BY <2>1, <2>4 DEF RecNonceInv
  <2> QED
    BY <1>2, <2>3, <2>4
<1>3. CASE RecInsert /\ [Next]_vars
  BY <1>2, <1>3, RecInsertTyped
<1>4. CASE RecSign /\ UNCHANGED vars
  <2>1. NonceInv'
    BY <1>4, NonceNext DEF RecTyped, RecNonceInv
  <2>2. accountNonce \in Nat /\ accountNonce' = accountNonce
    BY <1>4 DEF RecTyped, TypeOK, vars, chainVars
  <2>3. rec'.held.nonce = accountNonce
    BY <1>4, RecSignTyped
  <2> QED
    BY <2>1, <2>2, <2>3 DEF RecNonceInv
<1>5. CASE (RecRefuse \/ RecRaise) /\ UNCHANGED vars
  <2>1. rec'.pc \notin {"signed", "committed"}
    BY <1>5, RecAt DEF RecRefuse, RecRaise, Move, RecTyped
  <2> QED
    BY <1>2, <1>5, <2>1
<1>6. CASE RecAccept /\ UNCHANGED <<ledgerVars, lockQ, req>>
  <2>1. /\ rec.pc = "committed" /\ rec.held \in Payload /\ accountNonce \in Nat
        /\ rec'.pc \notin {"signed", "committed"}
    BY <1>6, RecAcceptTyped DEF RecTyped, TypeOK
  <2>2. rec.held.nonce <= accountNonce /\ OneOutstanding
    BY <2>1 DEF RecNonceInv, NonceInv
  <2>3. OneOutstanding' /\ accountNonce' = accountNonce
    BY <1>6, <2>1, <2>2, AcceptNonce DEF RecAccept
  <2> QED
    BY <1>6, <2>1, <2>3 DEF RecNonceInv, NonceInv
<1>7. ASSUME NEW to, NEW s, NEW h, Writes(to, s, h) PROVE RecNonceInv'
  <2>1. UNCHANGED <<accountNonce, mempool, req>> /\ rec'.pc = to /\ rec'.held = rec.held
    BY <1>7, WriteTyped DEF Writes, Updates, chainVars
  <2>2. to \in {"signed", "committed"} => rec.pc = "signed"
    BY <1>7 DEF Writes
  <2> QED
    BY <2>1, <2>2 DEF RecNonceInv, NonceInv, OneOutstanding
<1> QED
  BY <1>2, <1>3, <1>4, <1>5, <1>6, <1>7, RecSteps DEF recVars

-----------------------------------------------------------------------------
(* Payloads and audit rows. *)

(* The payload the recorder still has to send for its SIGNED row. *)
RecOwes(t) == IF rec.pc = "committed" /\ rec.tx = t THEN 1 ELSE 0

RecAuditInv == \A t \in Tx : Audited(t, RecOwes(t))

(* What is not owed any more need not be sent. *)
LEMMA AuditedLess ==
    ASSUME TypeOK, NEW t \in Tx, NEW n \in Nat, Audited(t, n), NEW m \in Nat, m <= n
    PROVE  Audited(t, m)
<1>1. /\ Cardinality(PayloadsOf(t)) \in Nat /\ Cardinality(Owing(t)) \in Nat
      /\ CountOf(t, "SIGNED") \in Nat
  BY CountTyped, FS_CardinalityType DEF Audited
<1> QED
  BY <1>1 DEF Audited

(* RecAuditInv is inductive. *)
LEMMA RecAuditNext == RecTyped /\ RecAuditInv /\ [RecorderNext]_recVars => RecAuditInv'
<1> SUFFICES ASSUME RecTyped, RecAuditInv, [RecorderNext]_recVars, NEW t \in Tx
             PROVE  Audited(t, RecOwes(t))'
  BY DEF RecAuditInv
<1>1. PICK n \in {0, 1} : n = RecOwes(t)
  BY DEF RecOwes
<1>2. PICK m \in {0, 1} : m = RecOwes(t)'
  BY DEF RecOwes
<1>3. Audited(t, n) /\ n \in Nat /\ m \in Nat /\ TypeOK
  BY <1>1 DEF RecAuditInv, RecTyped, Audited
<1>4. SUFFICES Audited(t, m)'
  BY <1>2 DEF Audited
<1>5. /\ Cardinality(PayloadsOf(t)) \in Nat /\ Cardinality(Owing(t)) \in Nat
      /\ CountOf(t, "SIGNED") \in Nat
  BY <1>3, CountTyped, FS_CardinalityType DEF Audited
<1>6. CASE [Next]_vars /\ m <= n
  <2>1. Audited(t, m)
    BY <1>3, <1>6, AuditedLess
  <2> QED
    BY <1>3, <1>6, <2>1, AuditedNext
<1>7. CASE RecInsert /\ [Next]_vars
  <2>1. m = 0
    BY <1>2, <1>7, RecInsertTyped DEF RecOwes
  <2> QED
    BY <1>1, <1>6, <1>7, <2>1
<1>8. CASE (RecSign \/ RecRefuse \/ RecRaise) /\ UNCHANGED vars
  <2>1. rec'.pc # "committed"
    BY <1>8, RecSignTyped, RecAt DEF RecRefuse, RecRaise, Move, RecTyped
  <2>2. m = 0
    BY <1>2, <2>1 DEF RecOwes
  <2> QED
    BY <1>1, <1>6, <1>8, <2>2
<1>9. CASE RecAccept /\ UNCHANGED <<ledgerVars, lockQ, req>>
  <2>1. /\ rec.pc = "committed" /\ rec'.pc # "committed"
        /\ submitted' = submitted \cup {<<rec.tx, rec.held>>}
    BY <1>9, RecAcceptTyped DEF RecAccept
  <2>2. m = 0
    BY <1>2, <2>1 DEF RecOwes
  <2>3. Owing(t)' = Owing(t) /\ CountOf(t, "SIGNED")' = CountOf(t, "SIGNED")
    BY <1>9 DEF Owing, CountOf, ledgerVars
  <2>4. /\ IsFiniteSet(PayloadsOf(t)')
        /\ Cardinality(PayloadsOf(t)') \in Nat
        /\ Cardinality(PayloadsOf(t)') <= Cardinality(PayloadsOf(t)) + 1
        /\ rec.tx # t => PayloadsOf(t)' = PayloadsOf(t)
    BY <1>3, <2>1, PayloadsGrow DEF Audited
  <2>5. n = IF rec.tx = t THEN 1 ELSE 0
    BY <1>1, <2>1 DEF RecOwes
  <2>6. CASE rec.tx = t
    BY <1>3, <1>5, <2>2, <2>3, <2>4, <2>5, <2>6 DEF Audited
  <2>7. CASE rec.tx # t
    BY <1>3, <1>5, <2>2, <2>3, <2>4, <2>5, <2>7 DEF Audited
  <2> QED
    BY <2>6, <2>7
<1>10. ASSUME NEW to, NEW s, NEW h, Writes(to, s, h) PROVE Audited(t, m)'
  <2>1. /\ rec.tx \in Tx /\ h \in Payload \cup {NoHash} /\ s \in Status /\ s \in EventType
        /\ rec'.pc = to /\ rec'.tx = rec.tx
    BY <1>10, WriteTyped
  <2>2. RecordEvent(rec.tx, s, s, h) /\ UNCHANGED <<req, submitted>>
    BY <1>10 DEF Writes, Updates
  <2>3. CountOf(t, "SIGNED")' =
            CountOf(t, "SIGNED") + (IF t = rec.tx /\ s = "SIGNED" THEN 1 ELSE 0)
    BY <1>3, <2>1, <2>2, CountGrows
  <2>4. rec.pc # "committed" /\ (to = "committed" <=> s = "SIGNED")
    BY <1>10 DEF Writes, Finality
  <2>5. n = 0 /\ m = IF t = rec.tx /\ s = "SIGNED" THEN 1 ELSE 0
    BY <1>1, <1>2, <2>1, <2>4 DEF RecOwes
  <2>6. PayloadsOf(t)' = PayloadsOf(t) /\ Owing(t)' = Owing(t)
    BY <2>2 DEF PayloadsOf, Owing
  <2> QED
    BY <1>3, <1>5, <2>3, <2>5, <2>6 DEF Audited
<1>11. CASE UNCHANGED rec /\ [Next]_vars
  <2>1. m = n
    BY <1>1, <1>2, <1>11 DEF RecOwes
  <2> QED
    BY <1>1, <1>6, <1>11, <2>1
<1> QED
  BY <1>7, <1>8, <1>9, <1>10, <1>11, RecSteps DEF recVars

-----------------------------------------------------------------------------
(* What the servers do to a withdrawal. *)

(* A trail stays, with its status and hash, or gets a row at its end; no row
   disappears. *)
LEMMA NextTrail ==
    ASSUME TypeOK, [Next]_vars, NEW t \in Tx
    PROVE  /\ Exists(t) => Exists(t)'
           /\ Len(log[t]) \in Nat
           /\ \A i \in DOMAIN log[t] : i \in DOMAIN log'[t] /\ log'[t][i] = log[t][i]
           /\ \/ log'[t] = log[t] /\ txHash'[t] = txHash[t] /\ (Exists(t) => status'[t] = status[t])
              \/ Len(log'[t]) = Len(log[t]) + 1
<1>0. log[t] \in Seq(Event) /\ Len(log[t]) \in Nat
  BY DEF TypeOK
<1>1. CASE UNCHANGED ledgerVars
  BY <1>0, <1>1 DEF ledgerVars, Exists
<1>2. CASE RequestWithdrawal
  <2>1. PICK u \in Tx, d \in Decision : Insert(u, d)
    BY <1>2 DEF RequestWithdrawal
  <2>2. InitialStatus(d) # "ABSENT"
    BY DEF InitialStatus, Decision
  <2> QED
    BY <1>0, <2>1, <2>2 DEF Insert, InsertRow, Exists, TypeOK
<1>3. ASSUME NEW r \in Request, NEW e, NEW s, NEW h, Commits(r, e, s, h)
      PROVE  /\ Exists(t) => Exists(t)'
             /\ \A i \in DOMAIN log[t] : i \in DOMAIN log'[t] /\ log'[t][i] = log[t][i]
             /\ \/ log'[t] = log[t] /\ txHash'[t] = txHash[t] /\ status'[t] = status[t]
                \/ Len(log'[t]) = Len(log[t]) + 1
  <2>1. /\ req[r].tx \in Tx /\ e \in EventType /\ s \in Status /\ h \in Payload \cup {NoHash}
        /\ RecordEvent(req[r].tx, e, s, h)
    BY <1>3, BusyRequest DEF Commits, TypeOK
  <2>2. s # "ABSENT"
    BY <2>1 DEF Status
  <2>3. CASE t = req[r].tx
    BY <1>3, <2>1, <2>2, <2>3, RecordAppends DEF Commits, Exists, TypeOK
  <2>4. CASE t # req[r].tx
    BY <1>3, <2>1, <2>4, RecordAppends DEF Commits, Exists, TypeOK
  <2> QED
    BY <2>3, <2>4
<1>4. ASSUME NEW r \in Request, Start(r) PROVE UNCHANGED ledgerVars
  BY <1>4, LoadTyped
<1> QED
  BY <1>0, <1>1, <1>2, <1>3, <1>4, StepLedger DEF Next, Crash, ChainMoves, Quiescent, vars

(* No request is past its commit of SIGNED for t. *)
Quiet(t) == \A q \in Request : req[q].tx = t => req[q].pc \notin {"committed", "sent", "refused"}

(* Then none of them sends, and none is there to send before it committed. *)
LEMMA NextSends ==
    ASSUME TypeOK, [Next]_vars, NEW t \in Tx, Quiet(t)
    PROVE  /\ PayloadsOf(t)' = PayloadsOf(t)
           /\ log'[t] = log[t] => Quiet(t)'
<1> DEFINE Past == {"committed", "sent", "refused"}
<1>1. ASSUME NEW r \in Request, \A q \in Request \ {r} : req'[q] = req[q],
             submitted' = submitted, req'[r].tx = t => req'[r].pc \notin Past
      PROVE  PayloadsOf(t)' = PayloadsOf(t) /\ Quiet(t)'
  BY <1>1 DEF Quiet, PayloadsOf
<1>2. ASSUME NEW r \in Request, Start(r) PROVE PayloadsOf(t)' = PayloadsOf(t) /\ Quiet(t)'
  <2>1. PICK s \in Server, u \in Tx, o \in Operation, h \in Payload \cup {NoHash} :
            Load(r, s, u, o, h)
    BY <1>2 DEF Start, ProcessNext, ProcessWithdrawal, ReviewWithdrawal, Reconcile, Operation, TypeOK
  <2>2. req'[r].pc = "loaded" /\ submitted' = submitted
    BY <2>1 DEF Load, TypeOK
  <2> QED
    BY <1>1, <1>2, <2>2, OthersKept
<1>3. ASSUME NEW r \in Request, Accept(r) PROVE PayloadsOf(t)' = PayloadsOf(t) /\ Quiet(t)'
  <2>1. req[r].tx # t /\ submitted' = submitted \cup {<<req[r].tx, req[r].held>>}
    BY <1>3 DEF Accept, Quiet
  <2>2. req'[r].tx # t /\ \A q \in Request \ {r} : req'[q] = req[q]
    BY <1>3, <2>1, ToKeeps, OthersKept DEF Accept, Step
  <2>3. PayloadsOf(t)' = PayloadsOf(t)
    BY <2>1, PayloadsGrow
  <2> QED
    BY <2>2, <2>3 DEF Quiet
<1>4. ASSUME NEW r \in Request, CommitSigned(r)
      PROVE  PayloadsOf(t)' = PayloadsOf(t) /\ (log'[t] = log[t] => Quiet(t)')
  <2>1. /\ req[r].tx \in Tx /\ submitted' = submitted
        /\ RecordEvent(req[r].tx, "SIGNED", "SIGNED", NoHash)
    BY <1>4, BusyRequest DEF CommitSigned, UpdateStatus, Busy, Active, TypeOK
  <2>2. log[t] \in Seq(Event) /\ Len(log[t]) \in Nat
    BY DEF TypeOK
  <2>3. ASSUME req[r].tx = t PROVE Len(log'[t]) = Len(log[t]) + 1
    <3>1. RecordEvent(t, "SIGNED", "SIGNED", NoHash) /\ "SIGNED" \in EventType /\ "SIGNED" \in Status
      BY <2>1, <2>3 DEF EventType, Status
    <3> QED
      BY <3>1, RecordAppends
  <2>4. log'[t] = log[t] => req[r].tx # t
    BY <2>2, <2>3
  <2>5. req'[r].tx = req[r].tx /\ \A q \in Request \ {r} : req'[q] = req[q]
    BY <1>4, ToKeeps, OthersKept DEF CommitSigned, Step
  <2> QED
    BY <2>1, <2>4, <2>5 DEF Quiet, PayloadsOf
<1>5. ASSUME NEW r \in Request, Step(r) \/ Abort(r), ~Accept(r), ~CommitSigned(r)
      PROVE  PayloadsOf(t)' = PayloadsOf(t) /\ Quiet(t)'
  <2>1. \A q \in Request \ {r} : req'[q] = req[q]
    BY <1>5, OthersKept
  <2>2. CASE Sign(r)
    BY <1>1, <2>1, <2>2, SignKeeps DEF Sign
  <2>3. CASE AwaitLock(r)
    BY <1>1, <2>1, <2>3, ToKeeps DEF AwaitLock
  <2>4. CASE Refuse(r)
    <3>1. req[r].tx # t
      BY <2>4 DEF Refuse, Quiet
    <3> QED
      BY <1>1, <2>1, <2>4, <3>1, ToKeeps DEF Refuse
  <2>5. CASE (Leave(r) \/ Finish(r)) /\ submitted' = submitted
    BY <1>1, <2>1, <2>5, LeaveEnds DEF Over, Idle
  <2> QED
    BY <1>5, <2>2, <2>3, <2>4, <2>5 DEF Step, Abort, BuildFails, CommitBroadcast, CommitFailed,
       CommitApprove, CommitReject, CommitReview, NoReceipt, Settle, PoolTimeout
<1>6. ASSUME NEW s \in Server, Crash(s) PROVE PayloadsOf(t)' = PayloadsOf(t) /\ Quiet(t)'
  <2>1. Quiet(t)'
    BY <1>6, CrashEnds DEF Quiet, Over, Idle
  <2> QED
    BY <1>6, <2>1 DEF Crash, PayloadsOf
<1>7. CASE UNCHANGED <<submitted, req>>
  BY <1>7 DEF Quiet, PayloadsOf
<1> QED
  BY <1>2, <1>3, <1>4, <1>5, <1>6, <1>7
     DEF Next, RequestWithdrawal, ChainMoves, Quiescent, vars

(* Before its INSERT nobody can know a withdrawal. *)
Absent(t) ==
    ~Exists(t) => /\ log[t] = <<>>
                  /\ PayloadsOf(t) = {}
                  /\ \A q \in Request : req[q].tx # t

LEMMA AbsentNext ==
    ASSUME TypeOK, [Next]_vars, NEW t \in Tx, Absent(t)
    PROVE  Absent(t)'
<1> SUFFICES ASSUME ~Exists(t)'
             PROVE  log'[t] = <<>> /\ PayloadsOf(t)' = {} /\ \A q \in Request : req'[q].tx # t
  BY DEF Absent
<1>1. ~Exists(t)
  BY NextTrail
<1>2. /\ log[t] = <<>> /\ PayloadsOf(t) = {}
      /\ \A q \in Request : req[q].tx # t
  BY <1>1 DEF Absent
<1>3. PayloadsOf(t)' = {}
  BY <1>2, NextSends DEF Quiet
<1>4. ASSUME NEW r \in Request, Start(r) PROVE log' = log /\ \A q \in Request : req'[q].tx # t
  <2>1. PICK s \in Server, u \in Tx, o \in Operation, h \in Payload \cup {NoHash} :
            Load(r, s, u, o, h) /\ Exists(u)
    BY <1>4 DEF Start, ProcessNext, ProcessWithdrawal, ReviewWithdrawal, Reconcile, Operation,
       TypeOK, Exists
  <2>2. req'[r].tx = u /\ u # t /\ log' = log
    BY <1>1, <2>1 DEF Load, TypeOK, ledgerVars
  <2> QED
    BY <1>2, <1>4, <2>2, OthersKept
<1>5. ASSUME NEW r \in Request, Step(r) \/ Abort(r)
      PROVE  log'[t] = log[t] /\ \A q \in Request : req'[q].tx # t
  <2>1. req'[r] = Over \/ req'[r].tx = req[r].tx
    BY <1>5, StepRequest
  <2>2. Over.tx # t
    BY DEF Over, Idle, Tx
  <2>3. \A q \in Request : req'[q].tx # t
    BY <1>2, <1>5, <2>1, <2>2, OthersKept
  <2>4. ASSUME NEW e, NEW s, NEW h, Commits(r, e, s, h) PROVE log'[t] = log[t]
    BY <1>2, <2>4 DEF Commits, RecordEvent, TypeOK
  <2> QED
    BY <1>5, <2>3, <2>4, StepLedger DEF ledgerVars
<1>6. ASSUME NEW s \in Server, Crash(s) PROVE log' = log /\ \A q \in Request : req'[q].tx # t
  BY <1>2, <1>6, CrashEnds DEF Crash, ledgerVars, Over, Idle, Tx
<1>7. CASE UNCHANGED <<log, req>>
  BY <1>2, <1>3, <1>7
<1> QED
  BY <1>2, <1>3, <1>4, <1>5, <1>6, <1>7
     DEF Next, RequestWithdrawal, Insert, InsertRow, ChainMoves, Quiescent, vars, ledgerVars

-----------------------------------------------------------------------------
(* The recorder's withdrawal, as long as nobody else wrote a row for it. *)

AtWork == Signing \cup {"inserted"}

(* The rows the recorder has committed. *)
Told(pc, s) ==
    IF pc \in {"inserted", "signed"} THEN <<>>
    ELSE IF pc \in {"committed", "sent", "refused"} THEN <<"SIGNED">>
    ELSE IF pc = "confirming" THEN <<"SIGNED", "BROADCAST">>
    ELSE <<"SIGNED", "BROADCAST", s>>

RowsOf(pc) ==
    IF pc \in {"inserted", "signed"} THEN 0
    ELSE IF pc \in {"committed", "sent", "refused"} THEN 1
    ELSE IF pc = "confirming" THEN 2 ELSE 3

Untouched(t) ==
    /\ EventsOf(t) = Told(rec.pc, status[t])
    /\ Quiet(t)
    /\ rec.pc \in {"inserted", "signed", "committed"} => PayloadsOf(t) = {}
    /\ rec.pc \in Taken => PayloadsOf(t) = {rec.held}
    /\ rec.pc \in {"confirming", "done"} => txHash[t] = rec.held
    /\ rec.pc = "done" => /\ status[t] \in {"SETTLED", "FAILED"}
                          /\ HasReceipt(rec.held, status[t] = "SETTLED")

(* The strengthening of RecordedOnce: the trail has the recorder's rows at least,
   and if it has no others the withdrawal is in nobody else's hands. *)
OwnInv ==
    rec.pc \in AtWork =>
        /\ Exists(rec.tx)
        /\ Len(log[rec.tx]) >= RowsOf(rec.pc)
        /\ Len(log[rec.tx]) = RowsOf(rec.pc) => Untouched(rec.tx)

OnceInv == OwnInv /\ \A t \in Tx : Absent(t)

(* A step of the servers. *)
LEMMA OwnNext ==
    ASSUME RecTyped, OwnInv, [Next]_vars, UNCHANGED rec
    PROVE  OwnInv'
<1> SUFFICES ASSUME rec.pc \in AtWork PROVE OwnInv'
  BY DEF OwnInv
<1>1. PICK t \in Tx : t = rec.tx
  BY RecAt DEF RecTyped, AtWork
<1>2. /\ Exists(t) /\ Len(log[t]) >= RowsOf(rec.pc) /\ RowsOf(rec.pc) \in Nat
      /\ Len(log[t]) = RowsOf(rec.pc) => Untouched(t)
  BY <1>1 DEF OwnInv, RowsOf
<1>3. Exists(t)' /\ Len(log[t]) \in Nat
  BY <1>2, NextTrail DEF RecTyped
<1>4. CASE log'[t] = log[t] /\ txHash'[t] = txHash[t] /\ status'[t] = status[t]
  <2>1. receipts \subseteq receipts'
    BY HistoryGrows DEF RecTyped
  <2>2. ASSUME Untouched(t) PROVE Untouched(t)'
    <3>1. Quiet(t)' /\ PayloadsOf(t)' = PayloadsOf(t)
      BY <1>4, <2>2, NextSends DEF Untouched, RecTyped
    <3>2. EventsOf(t)' = EventsOf(t)
      BY <1>4 DEF EventsOf
    <3> QED
      BY <1>4, <2>1, <2>2, <3>1, <3>2 DEF Untouched, HasReceipt
  <2> QED
    BY <1>1, <1>2, <1>3, <1>4, <2>2 DEF OwnInv
<1>5. CASE Len(log'[t]) = Len(log[t]) + 1
  <2>1. Len(log'[t]) >= RowsOf(rec.pc) /\ Len(log'[t]) # RowsOf(rec.pc)
    BY <1>2, <1>3, <1>5
  <2> QED
    BY <1>1, <1>3, <2>1 DEF OwnInv
<1> QED
  BY <1>2, <1>4, <1>5, NextTrail DEF RecTyped

(* A commit of the recorder. *)
LEMMA OwnWrites ==
    ASSUME RecTyped, OwnInv, NEW to, NEW s, NEW h, Writes(to, s, h)
    PROVE  OwnInv'
<1>1. PICK t \in Tx : t = rec.tx
  BY WriteTyped
<1>2. /\ h \in Payload \cup {NoHash} /\ s \in Status /\ s \in EventType
      /\ rec'.pc = to /\ rec'.tx = t /\ rec'.held = rec.held /\ rec.pc \in AtWork
  BY <1>1, WriteTyped DEF Writes, AtWork, Signing
<1>3. /\ Len(log[t]) >= RowsOf(rec.pc)
      /\ Len(log[t]) = RowsOf(rec.pc) => Untouched(t)
  BY <1>1, <1>2 DEF OwnInv
<1>4. Updates(t, s, h) /\ TypeOK
  BY <1>1 DEF Writes, RecTyped
<1>5. /\ Len(log'[t]) = Len(log[t]) + 1
      /\ EventsOf(t)' = Append(EventsOf(t), s)
      /\ status'[t] = s /\ Exists(t)'
  <2>1. RecordEvent(t, s, s, h) /\ status' = [status EXCEPT ![t] = s]
    BY <1>4 DEF Updates
  <2>2. Len(log'[t]) = Len(log[t]) + 1 /\ EventsOf(t)' = Append(EventsOf(t), s)
    BY <1>2, <1>4, <2>1, RecordAppends, EventsGrow
  <2>3. status'[t] = s /\ s # "ABSENT"
    BY <1>2, <1>4, <2>1 DEF TypeOK, Status
  <2> QED
    BY <2>2, <2>3 DEF Exists
<1>6. Len(log[t]) \in Nat
  BY <1>4 DEF TypeOK
<1>7. to # "raised" => RowsOf(to) = RowsOf(rec.pc) + 1
  BY DEF Writes, RowsOf
<1>8. RowsOf(rec.pc) \in Nat
  BY DEF RowsOf
<1>9. ASSUME to # "raised", Untouched(t) PROVE Untouched(t)'
  <2>1. PayloadsOf(t)' = PayloadsOf(t) /\ Quiet(t)'
    BY <1>4, <1>9 DEF Updates, PayloadsOf, Untouched, Quiet
  <2>2. EventsOf(t)' = Told(to, s)
    <3>1. ASSUME NEW a \in EventType, NEW b \in EventType, NEW c \in EventType
          PROVE  /\ Append(<<>>, a) = <<a>> /\ Append(<<a>>, b) = <<a, b>>
                 /\ Append(<<a, b>>, c) = <<a, b, c>>
      BY ListsGrow, Zenon
    <3>2. EventsOf(t)' = Append(Told(rec.pc, status[t]), s)
      BY <1>5, <1>9 DEF Untouched
    <3>3. \/ rec.pc = "signed" /\ to = "committed" /\ s = "SIGNED"
          \/ rec.pc = "sent" /\ to = "confirming" /\ s = "BROADCAST"
          \/ rec.pc = "confirming" /\ to = "done"
      BY <1>9 DEF Writes
    <3>4. "SIGNED" \in EventType /\ "BROADCAST" \in EventType
      BY DEF EventType
    <3>5. \/ Told(rec.pc, status[t]) = <<>> /\ Told(to, s) = <<s>>
          \/ Told(rec.pc, status[t]) = <<"SIGNED">> /\ Told(to, s) = <<"SIGNED", s>>
          \/ /\ Told(rec.pc, status[t]) = <<"SIGNED", "BROADCAST">>
             /\ Told(to, s) = <<"SIGNED", "BROADCAST", s>>
      BY <3>3 DEF Told
    <3> QED
      BY <1>2, <3>1, <3>2, <3>4, <3>5
  <2>3. /\ to \in {"inserted", "signed", "committed"} => PayloadsOf(t) = {}
        /\ to \in Taken => PayloadsOf(t) = {rec.held}
    BY <1>9 DEF Writes, Untouched, Taken
  <2>4. to \in {"confirming", "done"} => txHash'[t] = rec.held
    <3>1. CASE to = "confirming"
      BY <1>4, <3>1 DEF Writes, Updates, TypeOK
    <3>2. CASE to = "done"
      BY <1>4, <1>9, <3>2 DEF Writes, Updates, Untouched, Finality
    <3> QED
      BY <3>1, <3>2
  <2>5. receipts' = receipts
    BY <1>4 DEF Updates, chainVars
  <2>6. ASSUME to = "done"
        PROVE  s \in {"SETTLED", "FAILED"} /\ HasReceipt(rec.held, s = "SETTLED")
    <3>1. PICK ok \in BOOLEAN : HasReceipt(rec.held, ok) /\ s = Finality(ok)
      BY <2>6 DEF Writes
    <3>2. (s = "SETTLED") = ok /\ s \in {"SETTLED", "FAILED"}
      BY <3>1 DEF Finality
    <3> QED
      BY <3>1, <3>2
  <2> QED
    BY <1>2, <1>5, <2>1, <2>2, <2>3, <2>4, <2>5, <2>6 DEF Untouched, HasReceipt
<1>10. CASE to # "raised"
  <2>1. /\ Len(log'[t]) >= RowsOf(to)
        /\ Len(log'[t]) = RowsOf(to) => Len(log[t]) = RowsOf(rec.pc)
    BY <1>3, <1>5, <1>6, <1>7, <1>8, <1>10
  <2> QED
    BY <1>2, <1>3, <1>5, <1>9, <1>10, <2>1 DEF OwnInv
<1> QED
  BY <1>2, <1>10 DEF OwnInv, AtWork, Signing

(* OnceInv is inductive. *)
LEMMA OnceNext == RecTyped /\ OnceInv /\ [RecorderNext]_recVars => OnceInv'
<1> SUFFICES ASSUME RecTyped, OnceInv, [RecorderNext]_recVars PROVE OnceInv'
  OBVIOUS
<1>1. [Next]_vars => \A t \in Tx : Absent(t)'
  BY AbsentNext DEF RecTyped, OnceInv
<1>2. CASE [Next]_vars /\ UNCHANGED rec
  BY <1>1, <1>2, OwnNext DEF OnceInv
<1>3. CASE RecInsert /\ [Next]_vars
  <2>1. PICK t \in Tx : /\ ~Exists(t) /\ Insert(t, "ALLOW")
                        /\ rec' = [pc |-> "inserted", tx |-> t, held |-> NoHash]
    BY <1>3, RecInsertTyped DEF RecTyped
  <2>2. log[t] = <<>> /\ PayloadsOf(t) = {} /\ Quiet(t)
    BY <2>1 DEF OnceInv, Absent, Quiet
  <2>3. /\ log'[t] = <<>> /\ Quiet(t)' /\ PayloadsOf(t)' = {}
        /\ status'[t] = "PENDING"
    BY <1>3, <2>1, <2>2, NextSends DEF Insert, InsertRow, InitialStatus, RecTyped, TypeOK
  <2>4. EventsOf(t)' = <<>>
    BY <2>3 DEF EventsOf
  <2>5. Untouched(t)'
    BY <2>1, <2>3, <2>4 DEF Untouched, Told, Taken
  <2>6. OwnInv'
    BY <2>1, <2>3, <2>5 DEF OwnInv, RowsOf, Exists
  <2> QED
    BY <1>1, <1>3, <2>6 DEF OnceInv
<1>4. CASE (RecSign \/ RecRefuse \/ RecRaise) /\ UNCHANGED vars
  <2>1. \/ rec'.pc = "raised"
        \/ rec.pc = "inserted" /\ rec'.pc = "signed"
        \/ rec.pc = "committed" /\ rec'.pc = "refused"
    BY <1>4, RecSignTyped, RecAt DEF RecSign, RecRefuse, RecRaise, Move, RecTyped
  <2>2. rec'.tx = rec.tx
    BY <1>4, RecSignTyped, RecAt DEF RecRefuse, RecRaise, Move, RecTyped
  <2>3. OwnInv'
    <3>1. CASE rec'.pc = "raised"
      BY <3>1 DEF OwnInv, AtWork, Signing
    <3>2. CASE rec'.pc # "raised"
      <4>1. UNCHANGED <<status, txHash, log, req, submitted, receipts>>
        BY <1>4 DEF vars, ledgerVars, chainVars
      <4>2. /\ RowsOf(rec'.pc) = RowsOf(rec.pc) /\ rec.pc \in AtWork
            /\ \A s : Told(rec'.pc, s) = Told(rec.pc, s)
        BY <2>1, <3>2 DEF RowsOf, Told, AtWork, Signing
      <4>3. PICK t : t = rec.tx /\ t = rec'.tx
        BY <2>2
      <4>4. /\ Exists(t) /\ Len(log[t]) >= RowsOf(rec.pc)
            /\ Len(log[t]) = RowsOf(rec.pc) => Untouched(t)
        BY <4>2, <4>3 DEF OnceInv, OwnInv
      <4>5. Untouched(t) => Untouched(t)'
        BY <2>1, <3>2, <4>1, <4>2 DEF Untouched, EventsOf, PayloadsOf, Quiet, Taken
      <4> QED
        BY <4>1, <4>2, <4>3, <4>4, <4>5 DEF OwnInv, Exists
    <3> QED
      BY <3>1, <3>2
  <2> QED
    BY <1>1, <1>4, <2>3 DEF OnceInv
<1>5. CASE RecAccept /\ UNCHANGED <<ledgerVars, lockQ, req>>
  <2>1. PICK t \in Tx : t = rec.tx
    BY <1>5, RecAcceptTyped
  <2>2. /\ rec.pc = "committed" /\ rec'.pc \in {"sent", "refused"}
        /\ rec'.tx = t /\ rec'.held = rec.held
        /\ submitted' = submitted \cup {<<t, rec.held>>}
    BY <1>5, <2>1, RecAcceptTyped DEF RecAccept
  <2>3. /\ Exists(t) /\ Len(log[t]) >= 1
        /\ Len(log[t]) = 1 => Untouched(t)
    BY <2>1, <2>2 DEF OnceInv, OwnInv, AtWork, Signing, RowsOf
  <2>4. UNCHANGED <<status, log, txHash, req>>
    BY <1>5 DEF ledgerVars
  <2>5. \A u \in Tx : PayloadsOf(u)' = IF u = t THEN PayloadsOf(u) \cup {rec.held} ELSE PayloadsOf(u)
    BY <2>2, PayloadsGrow
  <2>6. \A u \in Tx : Absent(u)'
    <3> SUFFICES ASSUME NEW u \in Tx PROVE Absent(u)'
      OBVIOUS
    <3>1. CASE u = t
      BY <2>3, <2>4, <3>1 DEF Absent, Exists
    <3>2. CASE u # t
      BY <2>4, <2>5, <3>2 DEF OnceInv, Absent, Exists
    <3> QED
      BY <3>1, <3>2
  <2>7. Untouched(t) => Untouched(t)'
    <3> SUFFICES ASSUME Untouched(t) PROVE Untouched(t)'
      OBVIOUS
    <3>1. PayloadsOf(t)' = {rec.held}
      BY <2>2, <2>5 DEF Untouched
    <3>2. EventsOf(t)' = EventsOf(t) /\ Quiet(t)'
      BY <2>4 DEF EventsOf, Quiet, Untouched
    <3>3. Told(rec'.pc, status'[t]) = Told(rec.pc, status[t])
      BY <2>2 DEF Told
    <3> QED
      BY <2>2, <3>1, <3>2, <3>3 DEF Untouched, Taken
  <2>8. OwnInv'
    BY <2>2, <2>3, <2>4, <2>7 DEF OwnInv, RowsOf, Exists
  <2> QED
    BY <2>6, <2>8 DEF OnceInv
<1>6. ASSUME NEW to, NEW s, NEW h, Writes(to, s, h) PROVE OnceInv'
  <2>1. PICK t \in Tx : t = rec.tx
    BY <1>6, WriteTyped
  <2>2. Exists(t) /\ s # "ABSENT" /\ s \in Status
    BY <1>6, <2>1, WriteTyped DEF Writes, OnceInv, OwnInv, AtWork, Signing, Status
  <2>3. /\ UNCHANGED <<req, submitted>> /\ status'[t] = s
        /\ \A u \in Tx \ {t} : status'[u] = status[u] /\ log'[u] = log[u]
    BY <1>6, <2>1 DEF Writes, Updates, RecordEvent, RecTyped, TypeOK
  <2>4. \A u \in Tx : Absent(u)'
    <3> SUFFICES ASSUME NEW u \in Tx PROVE Absent(u)'
      OBVIOUS
    <3>1. CASE u = t
      BY <2>2, <2>3, <3>1 DEF Absent, Exists
    <3>2. CASE u # t
      BY <2>3, <3>2 DEF OnceInv, Absent, Exists, PayloadsOf
    <3> QED
      BY <3>1, <3>2
  <2> QED
    BY <1>6, <2>4, OwnWrites DEF OnceInv
<1>7. UNCHANGED recVars => [Next]_vars /\ UNCHANGED rec
  BY DEF recVars
<1> QED
  BY <1>2, <1>3, <1>4, <1>5, <1>6, <1>7, RecSteps

-----------------------------------------------------------------------------
(* The recorder's last row. *)

(* RecordedSurvives is inductive: rows and receipts stay. *)
LEMMA SurvivesNext == RecTyped /\ RecordedSurvives /\ [RecorderNext]_recVars => RecordedSurvives'
<1> SUFFICES ASSUME RecTyped, RecordedSurvives, [RecorderNext]_recVars PROVE RecordedSurvives'
  OBVIOUS
<1>1. CASE [Next]_vars /\ UNCHANGED rec
  <2> SUFFICES ASSUME rec.pc = "done" PROVE RecordedSurvives'
    BY <1>1 DEF RecordedSurvives
  <2>1. PICK t \in Tx : t = rec.tx
    BY RecAt DEF RecTyped, Signing
  <2>2. PICK i \in DOMAIN log[t] : /\ log[t][i].event \in {"SETTLED", "FAILED"}
                                   /\ log[t][i].hash = rec.held
                                   /\ HasReceipt(rec.held, log[t][i].event = "SETTLED")
    BY <2>1 DEF RecordedSurvives
  <2>3. i \in DOMAIN log'[t] /\ log'[t][i] = log[t][i] /\ receipts \subseteq receipts'
    BY <1>1, NextTrail, HistoryGrows DEF RecTyped
  <2> QED
    BY <1>1, <2>1, <2>2, <2>3 DEF RecordedSurvives, HasReceipt
<1>2. rec'.pc # "done" => RecordedSurvives'
  BY DEF RecordedSurvives
<1>3. CASE RecInsert
  BY <1>2, <1>3, RecInsertTyped DEF RecTyped
<1>4. CASE RecSign \/ RecRefuse \/ RecRaise
  BY <1>2, <1>4, RecSignTyped, RecAt DEF RecRefuse, RecRaise, Move, RecTyped
<1>5. CASE RecAccept
  BY <1>2, <1>5, RecAcceptTyped
<1>6. ASSUME NEW to, NEW s, NEW h, Writes(to, s, h) PROVE RecordedSurvives'
  <2> SUFFICES ASSUME to = "done" PROVE RecordedSurvives'
    BY <1>2, <1>6, WriteTyped
  <2>1. PICK t \in Tx : t = rec.tx
    BY <1>6, WriteTyped
  <2>2. /\ h \in Payload \cup {NoHash} /\ s \in Status /\ s \in EventType
        /\ rec'.tx = t /\ rec'.held = rec.held /\ h = rec.held
    BY <1>6, <2>1, WriteTyped DEF Writes
  <2>3. RecordEvent(t, s, s, h) /\ receipts' = receipts
    BY <1>6, <2>1 DEF Writes, Updates, chainVars
  <2>4. PICK ok \in BOOLEAN : HasReceipt(h, ok) /\ s = Finality(ok)
    BY <1>6 DEF Writes
  <2>5. s \in {"SETTLED", "FAILED"} /\ (s = "SETTLED") = ok
    BY <2>4 DEF Finality
  <2>6. PICK n : n = Len(log[t]) + 1
    OBVIOUS
  <2>7. log[t] \in Seq(Event) /\ Len(log[t]) \in Nat
    BY DEF RecTyped, TypeOK
  <2>8. n \in DOMAIN log'[t] /\ log'[t][n] = [event |-> s, status |-> s, hash |-> h]
    BY <2>2, <2>3, <2>6, <2>7, RecordAppends DEF RecTyped
  <2>9. /\ log'[t][n].event = s /\ log'[t][n].hash = rec.held
        /\ HasReceipt(rec.held, log'[t][n].event = "SETTLED")
    BY <2>2, <2>4, <2>5, <2>8
  <2> QED
    BY <2>2, <2>3, <2>5, <2>8, <2>9 DEF RecordedSurvives, HasReceipt
<1>7. UNCHANGED recVars => [Next]_vars /\ UNCHANGED rec
  BY DEF recVars
<1> QED
  BY <1>1, <1>3, <1>4, <1>5, <1>6, <1>7, RecSteps

-----------------------------------------------------------------------------
(* The theorems. *)

(* The recorder and the invariants at the start. *)
LEMMA RecorderStart ==
    RecorderInit => RecTyped /\ RecHashInv /\ RecNonceInv /\ RecAuditInv /\ OnceInv /\ RecordedSurvives
<1> SUFFICES ASSUME RecorderInit
             PROVE  RecTyped /\ RecHashInv /\ RecNonceInv /\ RecAuditInv /\ OnceInv /\ RecordedSurvives
  OBVIOUS
<1>1. Init /\ rec.pc = "started" /\ rec \in RecState
  BY DEF RecorderInit, Fresh, RecState
<1>2. RecTyped /\ RecHashInv
  BY <1>1, InitTyped, HashInit DEF RecTyped, RecHashInv, Taken
<1>3. RecNonceInv
  BY <1>1 DEF Init, ChainInit, RecNonceInv, NonceInv, OneOutstanding, Idle
<1>4. ASSUME NEW t \in Tx PROVE Audited(t, RecOwes(t)) /\ Absent(t)
  <2>1. PayloadsOf(t) = {} /\ Owing(t) = {} /\ log[t] = <<>>
    BY <1>1 DEF Init, LedgerInit, PayloadsOf, Owing, Idle
  <2>2. CountOf(t, "SIGNED") = Cardinality({})
    BY <2>1 DEF CountOf
  <2>3. Audited(t, RecOwes(t))
    BY <1>1, <2>1, <2>2, FS_EmptySet DEF Audited, RecOwes
  <2>4. \A q \in Request : req[q].tx # t
    BY <1>1 DEF Init, Idle, Tx
  <2> QED
    BY <2>1, <2>3, <2>4 DEF Absent
<1>5. OwnInv /\ RecordedSurvives
  BY <1>1 DEF OwnInv, AtWork, Signing, RecordedSurvives
<1> QED
  BY <1>2, <1>3, <1>4, <1>5 DEF RecAuditInv, OnceInv

(* While the recorder, which takes no lock of a server, sends payloads from
   the same account, SETTLED still means that a payload of the withdrawal was
   mined with success. *)
THEOREM RecorderSettles == RecorderSpec => []SettledIsPaid
<1>1. RecHashInv => SettledIsPaid
  BY DEF RecHashInv, HashInv
<1> QED
  BY <1>1, RecorderStart, RecTypedNext, RecHashNext, PTL DEF RecorderSpec

(* The recorder reads the nonce the servers read, without their lock: still at
   most one payload waits to be mined, that of the next nonce. *)
THEOREM RecorderNonce == RecorderSpec => []OneOutstanding
<1>1. RecNonceInv => OneOutstanding
  BY DEF RecNonceInv, NonceInv
<1> QED
  BY <1>1, RecorderStart, RecTypedNext, RecNonceNext, PTL DEF RecorderSpec

(* Every payload the recorder or a server sent has a SIGNED row of its own, the
   recorder dying after it included. *)
THEOREM RecorderAudited == RecorderSpec => []SubmissionsAudited
<1>1. RecTyped /\ RecAuditInv => SubmissionsAudited
  <2> SUFFICES ASSUME RecTyped, RecAuditInv, NEW t \in Tx
               PROVE  Cardinality(PayloadsOf(t)) <= CountOf(t, "SIGNED")
    BY DEF SubmissionsAudited
  <2>1. CountOf(t, "SIGNED") \in Nat /\ Audited(t, RecOwes(t)) /\ RecOwes(t) \in Nat
    BY CountTyped DEF RecAuditInv, RecTyped, RecOwes
  <2>2. Cardinality(PayloadsOf(t)) \in Nat /\ Cardinality(Owing(t)) \in Nat
    BY <2>1, FS_CardinalityType DEF Audited
  <2> QED
    BY <2>1, <2>2 DEF Audited
<1> QED
  BY <1>1, RecorderStart, RecTypedNext, RecAuditNext, PTL DEF RecorderSpec

(* The trail of three rows the recorder prints is its own: nobody else sent a
   payload for the withdrawal, and hash, status and receipt agree. *)
THEOREM RecorderOnce == RecorderSpec => []RecordedOnce
<1>1. OnceInv => RecordedOnce
  <2> SUFFICES ASSUME OnceInv, rec.pc = "done", Len(log[rec.tx]) = 3
               PROVE  /\ EventsOf(rec.tx) \in
                            {<<"SIGNED", "BROADCAST", e>> : e \in {"SETTLED", "FAILED"}}
                      /\ PayloadsOf(rec.tx) = {rec.held}
                      /\ txHash[rec.tx] = rec.held
                      /\ HasReceipt(rec.held, status[rec.tx] = "SETTLED")
    BY DEF RecordedOnce
  <2>1. Untouched(rec.tx)
    BY DEF OnceInv, OwnInv, AtWork, Signing, RowsOf
  <2> QED
    BY <2>1 DEF Untouched, Told, Taken
<1> QED
  BY <1>1, RecorderStart, RecTypedNext, OnceNext, PTL DEF RecorderSpec

(* The outcome the recorder committed stays in the trail, with the hash of its
   payload and true of its receipt, whatever the servers commit after it. *)
THEOREM RecorderSurvives == RecorderSpec => []RecordedSurvives
<1> QED
  BY RecorderStart, RecTypedNext, SurvivesNext, PTL DEF RecorderSpec

=============================================================================
