------------------------------ MODULE Custody ------------------------------
(***************************************************************************)
(* The withdrawal lifecycle: requests of an API server read a row of the   *)
(* ledger, wait for the nonce lock, build, sign and broadcast a payload,   *)
(* review a challenged withdrawal, or reconcile a broadcast one with its   *)
(* receipt.  A server is one operating system process with one event loop: *)
(* two requests of a server interleave at the awaits of the code, which    *)
(* are the boundaries of the actions below, and servers interleave freely. *)
(* The demo recorder, which runs these handlers in one session of its own, *)
(* is added in Recorder.                                                   *)
(*                                                                         *)
(* A request that finds no row, or a row in another status than its        *)
(* handler accepts, answers 404 or 409 and changes nothing: it is no step. *)
(***************************************************************************)
EXTENDS Ledger, Chain, NonceLock, FiniteSets

CONSTANTS
    Request,    \* bound: the requests that reach a lifecycle handler
    NoServer,   \* the home of a request that did not start or is over
    TransferOf, \* TransferOf[t]: the address and amount t asks for
    Dust,       \* transfers whose amount rounds to 0 in Numeric(36, 18)
    PoolSize    \* database connections of a server, overflow included

ASSUME CustodyAssumption ==
    /\ TransferOf \in [Tx -> Transfer]
    /\ Dust \subseteq Transfer
    /\ PoolSize \in Nat \ {0}
    /\ NoServer \notin Server
    /\ NoHash \notin Payload

VARIABLES
    req,        \* req[r]: the local state of the coroutine that serves r
    submitted   \* history: <<t, p>> when the node accepted payload p for t

vars == <<ledgerVars, chainVars, lockQ, req, submitted>>

(* Points at which a coroutine is suspended in an await, or about to be:
     loaded     the row was read in the status the handler requires
     waiting    in `async with nonce_lock'
     signed     the payload is built and signed, its commit is under way
     committed  SIGNED is committed, the payload is about to be sent
     sent       the node answered with a hash, its commit is under way
     refused    send_raw_transaction raised, the commit of FAILED is under way *)
Active == {"loaded", "waiting", "signed", "committed", "sent", "refused"}

Connected == {"loaded", "waiting", "signed"}            \* a session keeps its
                             \* connection from the first read to the commit
Section == {"signed", "committed", "sent", "refused"}   \* inside the lock
Unrecorded == {"sent", "refused"}         \* a second connection is needed

Idle == [pc |-> "idle", op |-> "none", tx |-> 0, home |-> NoServer, held |-> NoHash]
Over == [Idle EXCEPT !.pc = "done"]

Init ==
    /\ LedgerInit
    /\ ChainInit
    /\ LockInit
    /\ req = [r \in Request |-> Idle]
    /\ submitted = {}

Busy(r) == req[r].pc \in Active
FreeConnection(s) ==
    Cardinality({r \in Request : req[r].home = s /\ req[r].pc \in Connected}) < PoolSize

To(r, pc) == req' = [req EXCEPT ![r].pc = pc]
Finish(r) == req' = [req EXCEPT ![r] = Over]

(* The request is over; if it holds the lock, `async with' releases it. *)
Leave(r) ==
    /\ Finish(r)
    /\ IF Holds(req[r].home, r) THEN Release(req[r].home) ELSE UNCHANGED lockQ

-----------------------------------------------------------------------------
(* A withdrawal is requested; the policy's decision is the subject of module
   Gatekeeper and arbitrary here. *)
RequestWithdrawal ==
    /\ \E t \in Tx, d \in Decision : Insert(t, d)
    /\ UNCHANGED <<chainVars, lockQ, req, submitted>>

(* The handler's SELECT: it took a connection of its server's pool, and found
   t in the status it requires. *)
Load(r, s, t, o, h) ==
    /\ req[r].pc = "idle"
    /\ FreeConnection(s)
    /\ req' = [req EXCEPT ![r] = [pc |-> "loaded", op |-> o, tx |-> t, home |-> s, held |-> h]]
    /\ UNCHANGED <<ledgerVars, chainVars, lockQ, submitted>>

\* Mutant: a withdrawal that was left SIGNED can be processed again.
ProcessWithdrawal_Resumes(r, s, t) ==
    status[t] \in {"PENDING", "SIGNED"} /\ Load(r, s, t, "process", NoHash)

ProcessWithdrawal(r, s, t) ==
    status[t] = "PENDING" /\ Load(r, s, t, "process", NoHash)

(* process-next takes the oldest pending withdrawal. *)
ProcessNext(r, s) ==
    \E t \in Tx :
        /\ ProcessWithdrawal(r, s, t)
        /\ \A u \in 1..(t - 1) : status[u] # "PENDING"

\* Mutant: approve does not test the status.
ReviewWithdrawal_Unchecked(r, s, t, o) == Exists(t) /\ Load(r, s, t, o, NoHash)

ReviewWithdrawal(r, s, t, o) ==
    status[t] = "PENDING_REVIEW" /\ Load(r, s, t, o, NoHash)

\* Mutant: the row is reconciled whatever its status and its hash.
Reconcile_Unchecked(r, s, t) ==
    Exists(t) /\ Load(r, s, t, "reconcile", txHash[t])

Reconcile(r, s, t) ==
    /\ status[t] = "BROADCAST" /\ txHash[t] # NoHash
    /\ Load(r, s, t, "reconcile", txHash[t])

Start(r) ==
    \E s \in Server :
        \/ ProcessNext(r, s)
        \/ \E t \in Tx :
            \/ ProcessWithdrawal(r, s, t)
            \/ \E o \in {"approve", "reject"} : ReviewWithdrawal(r, s, t, o)
            \/ Reconcile(r, s, t)

-----------------------------------------------------------------------------
(* EthereumTransactionLifecycleProcessor.process_pending *)

(* The status was tested when the row was read, and is not tested again. *)
AwaitLock(r) ==
    /\ req[r].pc = "loaded" /\ req[r].op = "process"
    /\ Enqueue(req[r].home, r)
    /\ To(r, "waiting")
    /\ UNCHANGED <<ledgerVars, chainVars, submitted>>

\* Mutant: the nonce is read without waiting for the lock.
Sign_Unlocked(r) ==
    /\ req[r].pc = "waiting"
    /\ TransferOf[req[r].tx] \notin Dust
    /\ \E f \in Fee : req' = [req EXCEPT ![r].pc = "signed",
          ![r].held = [nonce |-> NextNonce, transfer |-> TransferOf[req[r].tx], fee |-> f]]
    /\ UNCHANGED <<ledgerVars, chainVars, lockQ, submitted>>

(* build and sign_transaction: the payload of the next nonce. *)
Sign(r) ==
    /\ req[r].pc = "waiting" /\ Holds(req[r].home, r)
    /\ TransferOf[req[r].tx] \notin Dust
    /\ \E f \in Fee : req' = [req EXCEPT ![r].pc = "signed",
          ![r].held = [nonce |-> NextNonce, transfer |-> TransferOf[req[r].tx], fee |-> f]]
    /\ UNCHANGED <<ledgerVars, chainVars, lockQ, submitted>>

\* Mutant: the lock is not released when build raises.
BuildFails_KeepsLock(r) ==
    /\ req[r].pc = "waiting" /\ Holds(req[r].home, r)
    /\ Finish(r)
    /\ UNCHANGED <<ledgerVars, chainVars, lockQ, submitted>>

(* build raises: the node cannot be asked, or the amount is dust. *)
BuildFails(r) ==
    /\ req[r].pc = "waiting" /\ Holds(req[r].home, r)
    /\ Leave(r)
    /\ UNCHANGED <<ledgerVars, chainVars, submitted>>

\* Mutant: the payload can leave before SIGNED is committed.
CommitSigned_Later(r) ==
    /\ req[r].pc = "signed"
    /\ To(r, "committed")
    /\ UNCHANGED <<ledgerVars, chainVars, lockQ, submitted>>

CommitSigned(r) ==
    /\ req[r].pc = "signed"
    /\ UpdateStatus(req[r].tx, "SIGNED", "SIGNED", NoHash)
    /\ To(r, "committed")
    /\ UNCHANGED <<chainVars, lockQ, submitted>>

(* The node takes the payload; its answer may be lost. *)
Accept(r) ==
    /\ req[r].pc = "committed"
    /\ SendRaw(req[r].held)
    /\ submitted' = submitted \cup {<<req[r].tx, req[r].held>>}
    /\ \E pc \in Unrecorded : To(r, pc)
    /\ UNCHANGED <<ledgerVars, lockQ>>

(* The node refuses the payload, or is not reached. *)
Refuse(r) ==
    /\ req[r].pc = "committed"
    /\ To(r, "refused")
    /\ UNCHANGED <<ledgerVars, chainVars, lockQ, submitted>>

\* Mutant: the hash is not stored with the status.
CommitBroadcast_NoHash(r) ==
    /\ req[r].pc = "sent" /\ FreeConnection(req[r].home)
    /\ UpdateStatus(req[r].tx, "BROADCAST", "BROADCAST", req[r].held)
    /\ Leave(r)
    /\ UNCHANGED <<chainVars, submitted>>

CommitBroadcast(r) ==
    /\ req[r].pc = "sent" /\ FreeConnection(req[r].home)
    /\ UpdateBroadcast(req[r].tx, req[r].held)
    /\ Leave(r)
    /\ UNCHANGED <<chainVars, submitted>>

\* Mutant: the failure is committed without its audit row.
CommitFailed_Unaudited(r) ==
    /\ req[r].pc = "refused" /\ FreeConnection(req[r].home)
    /\ status' = [status EXCEPT ![req[r].tx] = "FAILED"]
    /\ Leave(r)
    /\ UNCHANGED <<decision, txHash, settledAt, log, chainVars, submitted>>

\* Mutant: a refused payload is given up without touching the row.
CommitFailed_Silent(r) ==
    /\ req[r].pc = "refused" /\ FreeConnection(req[r].home)
    /\ Leave(r)
    /\ UNCHANGED <<ledgerVars, chainVars, submitted>>

CommitFailed(r) ==
    /\ req[r].pc = "refused" /\ FreeConnection(req[r].home)
    /\ UpdateStatus(req[r].tx, "FAILED", "FAILED", NoHash)
    /\ Leave(r)
    /\ UNCHANGED <<chainVars, submitted>>

-----------------------------------------------------------------------------
(* approve_withdrawal and reject_withdrawal *)

CommitReview(r, o, e, s) ==
    /\ req[r].pc = "loaded" /\ req[r].op = o
    /\ UpdateStatus(req[r].tx, e, s, NoHash)
    /\ Finish(r)
    /\ UNCHANGED <<chainVars, lockQ, submitted>>

CommitApprove(r) == CommitReview(r, "approve", "APPROVED", "PENDING")
CommitReject(r) == CommitReview(r, "reject", "REJECTED", "FAILED")

-----------------------------------------------------------------------------
(* Reconciler.sync *)

NoReceipt(r) ==
    /\ req[r].pc = "loaded" /\ req[r].op = "reconcile"
    /\ \A ok \in BOOLEAN : ~HasReceipt(req[r].held, ok)
    /\ Finish(r)
    /\ UNCHANGED <<ledgerVars, chainVars, lockQ, submitted>>

\* Mutant: a receipt settles the withdrawal whatever its status.
Settle_AnyReceipt(r) ==
    /\ req[r].pc = "loaded" /\ req[r].op = "reconcile"
    /\ \E ok \in BOOLEAN : HasReceipt(req[r].held, ok)
    /\ UpdateSettled(req[r].tx, req[r].held)
    /\ Finish(r)
    /\ UNCHANGED <<chainVars, lockQ, submitted>>

Settle(r) ==
    /\ req[r].pc = "loaded" /\ req[r].op = "reconcile"
    /\ \/ /\ HasReceipt(req[r].held, TRUE)
          /\ UpdateSettled(req[r].tx, req[r].held)
       \/ /\ HasReceipt(req[r].held, FALSE)
          /\ UpdateStatus(req[r].tx, "FAILED", "FAILED", req[r].held)
    /\ Finish(r)
    /\ UNCHANGED <<chainVars, lockQ, submitted>>

-----------------------------------------------------------------------------
(* Faults *)

(* A database or node call of the request raises: what is not committed is
   rolled back and the handler answers 500.  From "committed" it is the commit
   that took effect and whose answer was lost.  BuildFails is the same for a
   request that waits. *)
Abort(r) ==
    /\ \/ req[r].pc \in Section
       \/ req[r].pc = "loaded" /\ req[r].op # "process"
    /\ Leave(r)
    /\ UNCHANGED <<ledgerVars, chainVars, submitted>>

(* The pool has no connection for the second commit and gives up after 30
   seconds: the outcome of the broadcast is never recorded. *)
PoolTimeout(r) ==
    /\ req[r].pc \in Unrecorded /\ ~FreeConnection(req[r].home)
    /\ Leave(r)
    /\ UNCHANGED <<ledgerVars, chainVars, submitted>>

(* A server dies and is started again. *)
Crash(s) ==
    /\ \E r \in Request : req[r].home = s
    /\ req' = [r \in Request |-> IF req[r].home = s THEN Over ELSE req[r]]
    /\ LoseLock(s)
    /\ UNCHANGED <<ledgerVars, chainVars, submitted>>

-----------------------------------------------------------------------------
(* What a request does once its row is loaded, faults excluded. *)
Step(r) ==
    \/ AwaitLock(r) \/ Sign(r) \/ BuildFails(r) \/ CommitSigned(r)
    \/ Accept(r) \/ Refuse(r) \/ CommitBroadcast(r) \/ CommitFailed(r)
    \/ CommitApprove(r) \/ CommitReject(r) \/ NoReceipt(r) \/ Settle(r)
    \/ PoolTimeout(r)

ChainMoves == ChainStep /\ UNCHANGED <<ledgerVars, lockQ, req, submitted>>

Quiescent == (\A r \in Request : ~Busy(r)) /\ UNCHANGED vars

Next ==
    \/ RequestWithdrawal
    \/ \E r \in Request : Start(r) \/ Step(r) \/ Abort(r)
    \/ \E s \in Server : Crash(s)
    \/ ChainMoves
    \/ Quiescent

Spec == Init /\ [][Next]_vars

-----------------------------------------------------------------------------
(* The restrictions of Spec under which more holds. *)

(* Operators wait for a request on a withdrawal to end before they start
   another one on it; requests on different withdrawals still interleave. *)
OneAtATime ==
    \A r \in Request :
        req[r].pc = "idle" /\ req'[r].pc # "idle" =>
            \A q \in Request : Busy(q) => req[q].tx # req'[r].tx

SerialSpec == Init /\ [][Next /\ OneAtATime]_vars

(* No call raises and no server dies: a payload is refused only if the node
   cannot take it, build raises only for dust, and the pool times out only when
   every connection belongs to a request that waits for the lock. *)
Faultless(r) ==
    /\ Step(r)
    /\ req[r].pc = "waiting" /\ req'[r].pc = "done" => TransferOf[req[r].tx] \in Dust
    /\ req[r].pc = "committed" /\ req'[r].pc = "refused" => ~Accepts(req[r].held)
    /\ PoolTimeout(r) => \A q \in Request :
            req[q].home = req[r].home /\ req[q].pc \in Connected => req[q].pc = "waiting"

FaultFreeNext ==
    \/ RequestWithdrawal
    \/ \E r \in Request : Start(r) \/ Faultless(r)
    \/ ChainMoves
    \/ Quiescent

FaultFreeSpec ==
    Init /\ [][FaultFreeNext]_vars /\ \A r \in Request : WF_vars(Faultless(r))

-----------------------------------------------------------------------------
(* Properties of Spec: any interleaving, any number of servers, faults. *)

Event == [event : EventType, status : Status, hash : Payload \cup {NoHash}]

(* What a coroutine holds: nothing before and after its service, the hash
   read from the row while it reconciles, the payload once it is signed. *)
Coroutine(pcs, ops, held) ==
    [pc : pcs, op : ops, tx : Tx, home : Server, held : held]

RequestState ==
    {Idle, Over}
        \cup Coroutine({"loaded"}, {"process", "approve", "reject"}, {NoHash})
        \cup Coroutine({"loaded"}, {"reconcile"}, Payload)
        \cup Coroutine({"waiting"}, {"process"}, {NoHash})
        \cup Coroutine(Section, {"process"}, Payload)

(* The columns, the node's pool and the local variables of the coroutines
   hold values of their types. *)
TypeOK ==
    /\ status \in [Tx -> Status \cup {"ABSENT"}]
    /\ decision \in [Tx -> Decision]
    /\ txHash \in [Tx -> Payload \cup {NoHash}]
    /\ settledAt \in [Tx -> BOOLEAN]
    /\ log \in [Tx -> Seq(Event)]
    /\ accountNonce \in Nat
    /\ mempool \in SUBSET Payload
    /\ receipts \in SUBSET Receipt
    /\ lockQ \in [Server -> Seq(Request)]
    /\ req \in [Request -> RequestState]
    /\ submitted \in SUBSET (Tx \X Payload)

Cleared(t) ==
    \/ decision[t] = "ALLOW"
    \/ decision[t] = "CHALLENGE" /\ HasEvent(t, "APPROVED")

(* No payload reaches the node for a withdrawal the policy blocked, nor for a
   challenged one before its approval is committed (status_map of
   request_withdrawal, the tests of status in approve_withdrawal and
   process_pending), although every handler overwrites the status column on
   the strength of a read that may be long out of date. *)
ClearedBeforePayment == \A x \in submitted : Cleared(x[1])

(* Reconciler.sync writes SETTLED only with the hash of a payload that was
   sent for this very withdrawal and whose receipt reports success. *)
SettledIsPaid ==
    \A t \in Tx : \A i \in DOMAIN log[t] :
        log[t][i].event = "SETTLED" =>
            <<t, log[t][i].hash>> \in submitted /\ HasReceipt(log[t][i].hash, TRUE)

(* Every change of status after the INSERT is committed with its audit row:
   the audit row committed last repeats the status column, whatever the races. *)
AuditMirrorsStatus ==
    \A t \in Tx :
        IF log[t] = <<>> THEN Exists(t) => status[t] = InitialStatus(decision[t])
        ELSE status[t] = log[t][Len(log[t])].status

(* A row in BROADCAST, the only one Reconciler.sync looks up, carries the hash
   of a payload the node accepted for it: sync never reads another's receipt. *)
BroadcastCarriesHash ==
    \A t \in Tx : status[t] = "BROADCAST" => <<t, txHash[t]>> \in submitted

(* nonce_lock: no two requests of a server are between reading the nonce and
   recording the outcome of their broadcast. *)
NonceSectionExclusive ==
    \A q, r \in Request :
        q # r /\ req[q].home = req[r].home =>
            ~(req[q].pc \in Section /\ req[r].pc \in Section)

(* EthereumTransactionBuilder.build takes the count of mined transactions for
   the nonce, so at most one payload waits to be mined, of the next nonce: no
   number of servers can leave a gap or stack a queue of payments. *)
OneOutstanding ==
    \A p \in mempool : p.nonce = accountNonce /\ mempool = {p}

PayloadsOf(t) == {x[2] : x \in {y \in submitted : y[1] = t}}
EventsOf(t) == [i \in DOMAIN log[t] |-> log[t][i].event]
CountOf(t, e) == Cardinality({i \in DOMAIN log[t] : log[t][i].event = e})

(* process_pending commits SIGNED before it sends: a payload the node has seen
   is never absent from the audit trail, even if the server died after it. *)
SubmissionsAudited ==
    \A t \in Tx : Cardinality(PayloadsOf(t)) <= CountOf(t, "SIGNED")

(* A request whose row was read ends, by an answer or by an error: the lock
   passes on after every exit from it, and the commit that waits for a
   connection all waiters for the lock hold is ended by the pool's timeout. *)
RequestsEnd == \A r \in Request : Busy(r) ~> ~Busy(r)

-----------------------------------------------------------------------------
(* Properties of SerialSpec. *)

Edge ==
    {"ABSENT"} \X {"PENDING", "PENDING_REVIEW", "FAILED"}
        \cup {"PENDING_REVIEW"} \X {"PENDING", "FAILED"}
        \cup {"PENDING"} \X {"SIGNED"}
        \cup {"SIGNED", "BROADCAST"} \X {"FAILED"}
        \cup {<<"SIGNED", "BROADCAST">>, <<"BROADCAST", "SETTLED">>}

(* The status moves along the edges README.md:9-12 draws, or to FAILED when the
   broadcast raised (lifecycle.py:116) or the receipt reports a revert
   (reconciler.py:40), which README.md does not draw: no handler takes a
   withdrawal back or past a stage. *)
LifecycleEdges ==
    [][\A t \in Tx : status'[t] # status[t] => <<status[t], status'[t]>> \in Edge]_status

(* A withdrawal is sent to the node once, and not at all if it was rejected:
   crashes, lost answers and retries included. *)
PaidAtMostOnce ==
    \A t \in Tx :
        /\ Cardinality(PayloadsOf(t)) <= 1
        /\ HasEvent(t, "REJECTED") => PayloadsOf(t) = {}

Trail ==
    LET sent == {<<"SIGNED">>, <<"SIGNED", "FAILED">>, <<"SIGNED", "BROADCAST">>}
                \cup {<<"SIGNED", "BROADCAST", e>> : e \in {"SETTLED", "FAILED"}}
    IN  [ALLOW |-> {<<>>} \cup sent,
         CHALLENGE |-> {<<>>, <<"REJECTED">>, <<"APPROVED">>}
                       \cup {<<"APPROVED">> \o s : s \in sent},
         BLOCK |-> {<<>>}]

(* The audit rows of a withdrawal tell one possible story of it, each stage
   once (the trail tests/test_lifecycle_db_e2e.py:107 expects, or an end of
   it), and the story its policy decision calls for. *)
TrailLegal == \A t \in Tx : EventsOf(t) \in Trail[decision[t]]

(* FAILED after BROADCAST means the transfer reverted on chain, and SETTLED
   that it succeeded: the two outcomes Reconciler.sync tells apart. *)
OutcomeIsOnChain ==
    \A t \in Tx :
        /\ status[t] = "SETTLED" => HasReceipt(txHash[t], TRUE) /\ settledAt[t]
        /\ status[t] = "FAILED" /\ HasEvent(t, "BROADCAST") =>
                HasReceipt(txHash[t], FALSE) /\ ~settledAt[t]

-----------------------------------------------------------------------------
(* Statements of the documentation the code does not keep. *)

(* tests/test_ethereum_lifecycle.py:69: process_pending skips a withdrawal
   that is not pending, so none is signed a second time. *)
SkipsNonPending ==
    [][\A t \in Tx :
        log'[t] # log[t] /\ log'[t][Len(log'[t])].event = "SIGNED" => status[t] = "PENDING"]_log

(* broadcast.py:35: the gateway raises if transaction submission fails; the
   lifecycle records FAILED for it, so nothing was sent. *)
FailedMeansNotSent ==
    \A t \in Tx :
        status[t] = "FAILED" /\ ~HasEvent(t, "BROADCAST") => PayloadsOf(t) = {}

(* README.md:10: SIGNED is a stage on the way to BROADCAST. *)
SignedGoesOn == \A t \in Tx : status[t] = "SIGNED" ~> status[t] # "SIGNED"

=============================================================================
