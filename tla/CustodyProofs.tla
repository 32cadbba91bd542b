---------------------------- MODULE CustodyProofs ----------------------------
(***************************************************************************)
(* Custody, for every number of servers, requests, withdrawals and         *)
(* connections, with crashes, aborted requests and lost answers.           *)
(*                                                                         *)
(* First its types and the safety invariants of Spec, each from its        *)
(* inductive strengthening.  Then what holds if the requests on one        *)
(* withdrawal do not overlap (SerialSpec), and that Custody then           *)
(* implements Withdrawal.  Steps the proofs tell apart are grouped by what *)
(* they do to the variables an invariant reads.                            *)
(***************************************************************************)
EXTENDS CustodyRefinement, FiniteSetTheorems, SequenceTheorems, TLAPS

-----------------------------------------------------------------------------
(* Facts about the operators the actions are built from. *)

(* What a busy coroutine holds, by the point it has reached. *)
LEMMA BusyRequest ==
    ASSUME req \in [Request -> RequestState], NEW r \in Request, Busy(r)
    PROVE  /\ req[r].tx \in Tx
           /\ req[r].home \in Server
           /\ req[r].op \in {"process", "approve", "reject", "reconcile"}
           /\ req[r].pc \in Section => req[r].op = "process" /\ req[r].held \in Payload
           /\ req[r].pc = "waiting" => req[r].op = "process"
           /\ req[r].op = "reconcile" => req[r].held \in Payload
<1>1. req[r] \in RequestState
  OBVIOUS
<1>2. req[r].pc \notin {"idle", "done"}
  BY DEF Busy, Active
<1>3. req[r] # Idle /\ req[r] # Over
  BY <1>2 DEF Idle, Over
<1> QED
  BY <1>1, <1>3 DEF RequestState, Coroutine, Section

(* The state a coroutine moves to. *)
LEMMA MoveTyped ==
    ASSUME req \in [Request -> RequestState], NEW r \in Request, NEW pc,
           To(r, pc),
           \/ req[r].pc = "loaded" /\ req[r].op = "process" /\ pc = "waiting"
           \/ req[r].pc \in Section /\ pc \in Section
    PROVE  req' \in [Request -> RequestState]
<1>1. req[r] \in RequestState
  OBVIOUS
<1>2. req[r] # Idle /\ req[r] # Over
  BY DEF Idle, Over, Section
<1>3. [req[r] EXCEPT !.pc = pc] \in RequestState
  BY <1>1, <1>2 DEF RequestState, Coroutine, Section
<1>4. req' = [req EXCEPT ![r] = [req[r] EXCEPT !.pc = pc]]
  BY DEF To
<1> QED
  BY <1>3, <1>4

(* The request is over, and forgets what it held. *)
LEMMA FinishTyped ==
    ASSUME req \in [Request -> RequestState], NEW r \in Request, Finish(r)
    PROVE  req' \in [Request -> RequestState]
BY DEF Finish, RequestState

(* Leaving a handler passes the lock on and keeps its queue a queue. *)
LEMMA LeaveTyped ==
    ASSUME TypeOK, NEW r \in Request, Busy(r), Leave(r)
    PROVE  /\ req' \in [Request -> RequestState]
           /\ lockQ' \in [Server -> Seq(Request)]
<1>1. req' \in [Request -> RequestState]
  BY FinishTyped DEF TypeOK, Leave
<1>2. req[r].home \in Server
  BY BusyRequest DEF TypeOK
<1>3. CASE Holds(req[r].home, r)
  <2>1. Tail(lockQ[req[r].home]) \in Seq(Request)
    BY <1>2, <1>3, HeadTailProperties DEF Holds, TypeOK
  <2> QED
    BY <1>1, <1>2, <1>3, <2>1 DEF Leave, Release, TypeOK
<1>4. CASE ~Holds(req[r].home, r)
  BY <1>1, <1>4 DEF Leave, TypeOK
<1> QED
  BY <1>3, <1>4

(* One audit row is appended to one withdrawal's trail. *)
LEMMA RecordTyped ==
    ASSUME log \in [Tx -> Seq(Event)], NEW t \in Tx, NEW e \in EventType,
           NEW s \in Status, NEW h \in Payload \cup {NoHash}, RecordEvent(t, e, s, h)
    PROVE  log' \in [Tx -> Seq(Event)]
<1>1. [event |-> e, status |-> s, hash |-> h] \in Event
  BY DEF Event
<1> QED
  BY <1>1 DEF RecordEvent

(* Every request's action is a Load or a step of a busy request. *)
LEMMA LoadTyped ==
    ASSUME TypeOK, NEW r \in Request, Start(r)
    PROVE  /\ req' \in [Request -> RequestState]
           /\ UNCHANGED <<ledgerVars, chainVars, lockQ, submitted>>
<1>1. PICK s \in Server, t \in Tx :
        \/ ProcessWithdrawal(r, s, t)
        \/ \E o \in {"approve", "reject"} : ReviewWithdrawal(r, s, t, o)
        \/ Reconcile(r, s, t)
  BY DEF Start, ProcessNext
<1>2. CASE ProcessWithdrawal(r, s, t)
  BY <1>2 DEF ProcessWithdrawal, Load, TypeOK, RequestState, Coroutine
<1>3. CASE \E o \in {"approve", "reject"} : ReviewWithdrawal(r, s, t, o)
  BY <1>3 DEF ReviewWithdrawal, Load, TypeOK, RequestState, Coroutine
<1>4. CASE Reconcile(r, s, t)
  BY <1>4 DEF Reconcile, Load, TypeOK, RequestState, Coroutine
<1> QED
  BY <1>1, <1>2, <1>3, <1>4

(* The columns after an UPDATE with its audit row. *)
LEMMA UpdateStatusTyped ==
    ASSUME TypeOK, NEW t \in Tx, NEW e \in EventType, NEW s \in Status,
           NEW h \in Payload \cup {NoHash}, UpdateStatus(t, e, s, h)
    PROVE  /\ status' \in [Tx -> Status \cup {"ABSENT"}]
           /\ decision' \in [Tx -> Decision]
           /\ txHash' \in [Tx -> Payload \cup {NoHash}]
           /\ settledAt' \in [Tx -> BOOLEAN]
           /\ log' \in [Tx -> Seq(Event)]
<1>1. log' \in [Tx -> Seq(Event)]
  BY RecordTyped DEF TypeOK, UpdateStatus
<1> QED
  BY <1>1 DEF TypeOK, UpdateStatus

(* The columns after the commit of BROADCAST (lifecycle.py). *)
LEMMA UpdateBroadcastTyped ==
    ASSUME TypeOK, NEW t \in Tx, NEW h \in Payload, UpdateBroadcast(t, h)
    PROVE  /\ status' \in [Tx -> Status \cup {"ABSENT"}]
           /\ decision' \in [Tx -> Decision]
           /\ txHash' \in [Tx -> Payload \cup {NoHash}]
           /\ settledAt' \in [Tx -> BOOLEAN]
           /\ log' \in [Tx -> Seq(Event)]
<1>1. log' \in [Tx -> Seq(Event)]
  BY RecordTyped DEF TypeOK, UpdateBroadcast, EventType, Status
<1> QED
  BY <1>1 DEF TypeOK, UpdateBroadcast, Status

(* The columns after the commit of SETTLED (reconciler.py). *)
LEMMA UpdateSettledTyped ==
    ASSUME TypeOK, NEW t \in Tx, NEW h \in Payload, UpdateSettled(t, h)
    PROVE  /\ status' \in [Tx -> Status \cup {"ABSENT"}]
           /\ decision' \in [Tx -> Decision]
           /\ txHash' \in [Tx -> Payload \cup {NoHash}]
           /\ settledAt' \in [Tx -> BOOLEAN]
           /\ log' \in [Tx -> Seq(Event)]
<1>1. log' \in [Tx -> Seq(Event)]
  BY RecordTyped DEF TypeOK, UpdateSettled, EventType, Status
<1> QED
  BY <1>1 DEF TypeOK, UpdateSettled, Status

-----------------------------------------------------------------------------
(* Type correctness. *)

(* The empty ledger, the fresh account and the idle servers. *)
LEMMA InitTyped == Init => TypeOK
BY CustodyAssumption DEF Init, LedgerInit, ChainInit, LockInit, TypeOK, Decision, Status,
   RequestState

(* A new row starts in a status that fits its decision (router.py). *)
LEMMA RequestWithdrawalTyped == TypeOK /\ RequestWithdrawal => TypeOK'
BY DEF TypeOK, RequestWithdrawal, Insert, InsertRow, InitialStatus, Status, Decision, chainVars

(* Every await-to-await step of a request, one case for each. *)
LEMMA StepTyped ==
    ASSUME TypeOK, NEW r \in Request, Step(r) \/ Abort(r)
    PROVE  TypeOK'
<1> USE DEF Busy, Active, Section
<1>1. CASE AwaitLock(r)
  <2>1. Busy(r) /\ req[r].home \in Server
    BY <1>1, BusyRequest DEF AwaitLock, TypeOK
  <2>2. req' \in [Request -> RequestState]
    BY <1>1, MoveTyped DEF AwaitLock, TypeOK
  <2>3. lockQ' \in [Server -> Seq(Request)]
    BY <1>1, <2>1 DEF AwaitLock, Enqueue, TypeOK
  <2> QED
    BY <1>1, <2>2, <2>3 DEF AwaitLock, TypeOK, ledgerVars, chainVars
<1>2. CASE Sign(r)
  <2>1. Busy(r) /\ req[r].tx \in Tx /\ req[r].home \in Server /\ req[r].op = "process"
    BY <1>2, BusyRequest DEF Sign, TypeOK
  <2>2. PICK f \in Fee : req' = [req EXCEPT ![r].pc = "signed",
          ![r].held = [nonce |-> NextNonce, transfer |-> TransferOf[req[r].tx], fee |-> f]]
    BY <1>2 DEF Sign
  <2> DEFINE p == [nonce |-> NextNonce, transfer |-> TransferOf[req[r].tx], fee |-> f]
  <2>3. p \in Payload
    BY <2>1, CustodyAssumption DEF Payload, NextNonce, TypeOK
  <2>4. [req[r] EXCEPT !.pc = "signed", !.held = p] \in RequestState
    <3>1. req[r] \in RequestState /\ req[r].pc = "waiting"
      BY <1>2 DEF Sign, TypeOK
    <3> HIDE DEF p
    <3> QED
      BY <2>1, <2>3, <3>1 DEF RequestState, Coroutine, Idle, Over
  <2>5. req' = [req EXCEPT ![r] = [req[r] EXCEPT !.pc = "signed", !.held = p]]
    BY <2>2 DEF TypeOK
  <2>6. req' \in [Request -> RequestState]
    BY <2>4, <2>5 DEF TypeOK
  <2> QED
    BY <1>2, <2>6 DEF Sign, TypeOK, ledgerVars, chainVars
<1>3. CASE BuildFails(r)
  BY <1>3, LeaveTyped DEF BuildFails, TypeOK, ledgerVars, chainVars
<1>4. CASE CommitSigned(r)
  <2>1. Busy(r) /\ req[r].tx \in Tx
    BY <1>4, BusyRequest DEF CommitSigned, TypeOK
  <2>2. req' \in [Request -> RequestState]
    BY <1>4, MoveTyped DEF CommitSigned, TypeOK
  <2> QED
    BY <1>4, <2>1, <2>2, UpdateStatusTyped
       DEF CommitSigned, TypeOK, EventType, Status, chainVars
<1>5. CASE Accept(r)
  <2>1. Busy(r) /\ req[r].tx \in Tx /\ req[r].held \in Payload
    BY <1>5, BusyRequest DEF Accept, TypeOK
  <2>2. req' \in [Request -> RequestState]
    BY <1>5, MoveTyped DEF Accept, Unrecorded, TypeOK
  <2> QED
    BY <1>5, <2>1, <2>2 DEF Accept, SendRaw, TypeOK, ledgerVars
<1>6. CASE Refuse(r)
  <2>1. req' \in [Request -> RequestState]
    BY <1>6, MoveTyped DEF Refuse, TypeOK
  <2> QED
    BY <1>6, <2>1 DEF Refuse, TypeOK, ledgerVars, chainVars
<1>7. CASE CommitBroadcast(r)
  <2>1. Busy(r) /\ req[r].tx \in Tx /\ req[r].held \in Payload
    BY <1>7, BusyRequest DEF CommitBroadcast, TypeOK
  <2> QED
    BY <1>7, <2>1, LeaveTyped, UpdateBroadcastTyped DEF CommitBroadcast, TypeOK, chainVars
<1>8. CASE CommitFailed(r)
  <2>1. Busy(r) /\ req[r].tx \in Tx
    BY <1>8, BusyRequest DEF CommitFailed, TypeOK
  <2> QED
    BY <1>8, <2>1, LeaveTyped, UpdateStatusTyped
       DEF CommitFailed, TypeOK, EventType, Status, chainVars
<1>9. CASE CommitApprove(r) \/ CommitReject(r)
  <2>1. Busy(r) /\ req[r].tx \in Tx
    BY <1>9, BusyRequest DEF CommitApprove, CommitReject, CommitReview, TypeOK
  <2> QED
    BY <1>9, <2>1, FinishTyped, UpdateStatusTyped
       DEF CommitApprove, CommitReject, CommitReview, TypeOK, EventType, Status, chainVars
<1>10. CASE NoReceipt(r)
  BY <1>10, FinishTyped DEF NoReceipt, TypeOK, ledgerVars, chainVars
<1>11. CASE Settle(r)
  <2>1. Busy(r) /\ req[r].tx \in Tx /\ req[r].held \in Payload
    BY <1>11, BusyRequest DEF Settle, TypeOK
  <2>2. req' \in [Request -> RequestState]
    BY <1>11, FinishTyped DEF Settle, TypeOK
  <2>3. CASE UpdateSettled(req[r].tx, req[r].held)
    BY <1>11, <2>1, <2>2, <2>3, UpdateSettledTyped DEF Settle, TypeOK, chainVars
  <2>4. CASE UpdateStatus(req[r].tx, "FAILED", "FAILED", req[r].held)
    BY <1>11, <2>1, <2>2, <2>4, UpdateStatusTyped
       DEF Settle, TypeOK, EventType, Status, chainVars
  <2> QED
    BY <1>11, <2>3, <2>4 DEF Settle
<1>12. CASE PoolTimeout(r)
  BY <1>12, LeaveTyped DEF PoolTimeout, Unrecorded, TypeOK, ledgerVars, chainVars
<1>13. CASE Abort(r)
  BY <1>13, LeaveTyped DEF Abort, TypeOK, ledgerVars, chainVars
<1> QED
  BY <1>1, <1>2, <1>3, <1>4, <1>5, <1>6, <1>7, <1>8, <1>9, <1>10, <1>11, <1>12, <1>13
     DEF Step

(* The death of a server takes its requests and its lock along. *)
LEMMA CrashTyped ==
    ASSUME TypeOK, NEW s \in Server, Crash(s)
    PROVE  TypeOK'
<1>1. req' \in [Request -> RequestState]
  BY DEF Crash, TypeOK, RequestState
<1>2. lockQ' \in [Server -> Seq(Request)]
  BY DEF Crash, LoseLock, TypeOK
<1> QED
  BY <1>1, <1>2 DEF Crash, TypeOK, ledgerVars, chainVars

(* Mining and forgetting keep payloads and receipts what they are. *)
LEMMA ChainMovesTyped == TypeOK /\ ChainMoves => TypeOK'
BY DEF TypeOK, ChainMoves, ChainStep, Mine, Drop, Receipt, ledgerVars

(* TypeOK is inductive. *)
LEMMA NextTyped == TypeOK /\ [Next]_vars => TypeOK'
<1> SUFFICES ASSUME TypeOK, [Next]_vars PROVE TypeOK'
  OBVIOUS
<1>1. CASE RequestWithdrawal
  BY <1>1, RequestWithdrawalTyped
<1>2. CASE \E r \in Request : Start(r)
  BY <1>2, LoadTyped DEF TypeOK, ledgerVars, chainVars
<1>3. CASE \E r \in Request : Step(r) \/ Abort(r)
  BY <1>3, StepTyped
<1>4. CASE \E s \in Server : Crash(s)
  BY <1>4, CrashTyped
<1>5. CASE ChainMoves
  BY <1>5, ChainMovesTyped
<1>6. CASE UNCHANGED vars
  BY <1>6 DEF TypeOK, vars, ledgerVars, chainVars
<1> QED
  BY <1>1, <1>2, <1>3, <1>4, <1>5, <1>6 DEF Next, Quiescent

(* The tables, the queue of the lock and the local variables of every
   coroutine hold values of their types; in particular a request past signing
   is a process request that holds a payload, and one that reconciles holds
   the hash of one (lifecycle.py, reconciler.py). *)
THEOREM TypeCorrect == Spec => []TypeOK
<1> QED
  BY InitTyped, NextTyped, PTL DEF Spec

-----------------------------------------------------------------------------
(* The handlers that load a row. *)
Operation == {"process", "approve", "reject", "reconcile"}

(* Frames: what the steps do to the other requests. *)
LEMMA OthersKept ==
    ASSUME TypeOK, NEW r \in Request, Step(r) \/ Abort(r) \/ Start(r)
    PROVE  /\ \A q \in Request \ {r} : req'[q] = req[q]
           /\ DOMAIN req' = Request
BY DEF TypeOK, Step, Abort, Start, ProcessNext, ProcessWithdrawal, ReviewWithdrawal,
       Reconcile, Load, AwaitLock, Sign, BuildFails, CommitSigned, Accept, Refuse,
       CommitBroadcast, CommitFailed, CommitApprove, CommitReject, CommitReview,
       NoReceipt, Settle, PoolTimeout, Leave, Finish, To

(* A request that leaves is over. *)
LEMMA LeaveEnds ==
    ASSUME TypeOK, NEW r \in Request, Leave(r) \/ Finish(r)
    PROVE  req'[r] = Over
BY DEF TypeOK, Leave, Finish

(* Moving to another await keeps the operation, the withdrawal and the server. *)
LEMMA ToKeeps ==
    ASSUME TypeOK, NEW r \in Request, NEW pc, To(r, pc)
    PROVE  /\ req'[r].pc = pc
           /\ req'[r].op = req[r].op /\ req'[r].tx = req[r].tx
           /\ req'[r].home = req[r].home /\ req'[r].held = req[r].held
<1>1. req[r] \in RequestState
  BY DEF TypeOK
<1>2. req'[r] = [req[r] EXCEPT !.pc = pc]
  BY DEF To, TypeOK
<1> QED
  BY <1>1, <1>2 DEF RequestState, Coroutine, Idle, Over

(* So does signing, which replaces what the request holds. *)
LEMMA SignKeeps ==
    ASSUME TypeOK, NEW r \in Request, Sign(r)
    PROVE  /\ req'[r].pc = "signed"
           /\ req'[r].op = req[r].op /\ req'[r].tx = req[r].tx
           /\ req'[r].home = req[r].home
           /\ req'[r].held.nonce = accountNonce
<1>1. req[r] \in RequestState
  BY DEF TypeOK
<1>2. PICK f \in Fee : req'[r] = [req[r] EXCEPT !.pc = "signed",
          !.held = [nonce |-> NextNonce, transfer |-> TransferOf[req[r].tx], fee |-> f]]
  BY DEF Sign, TypeOK
<1> QED
  BY <1>1, <1>2 DEF RequestState, Coroutine, Idle, Over, NextNonce

(* A request keeps its operation and its withdrawal until it is over. *)
LEMMA StepRequest ==
    ASSUME TypeOK, NEW r \in Request, Step(r) \/ Abort(r)
    PROVE  /\ Busy(r)
           /\ \/ req'[r] = Over
              \/ /\ req'[r].op = req[r].op /\ req'[r].tx = req[r].tx
                 /\ req'[r].home = req[r].home
           /\ \/ submitted' = submitted
              \/ /\ req[r].op = "process"
                 /\ submitted' = submitted \cup {<<req[r].tx, req[r].held>>}
<1> USE DEF Busy, Active, Section
<1>1. CASE Sign(r)
  BY <1>1, SignKeeps DEF Sign
<1>2. CASE AwaitLock(r) \/ CommitSigned(r) \/ Refuse(r)
  BY <1>2, ToKeeps DEF AwaitLock, CommitSigned, Refuse
<1>3. CASE Accept(r)
  <2>1. req[r].op = "process"
    BY <1>3, BusyRequest DEF Accept, TypeOK
  <2> QED
    BY <1>3, <2>1, ToKeeps DEF Accept
<1>4. CASE \/ BuildFails(r) \/ CommitBroadcast(r) \/ CommitFailed(r)
           \/ PoolTimeout(r) \/ Abort(r)
  <2>1. Leave(r) /\ Busy(r) /\ submitted' = submitted
    BY <1>4 DEF BuildFails, CommitBroadcast, CommitFailed, PoolTimeout, Abort, Unrecorded
  <2> QED
    BY <2>1, LeaveEnds
<1>5. CASE CommitApprove(r) \/ CommitReject(r) \/ NoReceipt(r) \/ Settle(r)
  <2>1. Finish(r) /\ Busy(r) /\ submitted' = submitted
    BY <1>5 DEF CommitApprove, CommitReject, CommitReview, NoReceipt, Settle
  <2> QED
    BY <2>1, LeaveEnds
<1> QED
  BY <1>1, <1>2, <1>3, <1>4, <1>5 DEF Step

(* A crash ends the requests of its server and no others. *)
LEMMA CrashEnds ==
    ASSUME TypeOK, NEW s \in Server, Crash(s), NEW r \in Request
    PROVE  req'[r] = Over \/ (req'[r] = req[r] /\ req[r].home # s)
BY DEF TypeOK, Crash

-----------------------------------------------------------------------------
(* The nonce lock. *)

(* The strengthening: a request inside the section is the head of its
   server's queue. *)
SectionHolds ==
    \A r \in Request : req[r].pc \in Section => Holds(req[r].home, r)

(* Whoever leaves the section was the head of the queue: no other request of
   its server can have been inside. *)
LEMMA LeaveSection ==
    ASSUME TypeOK, SectionHolds, NEW r \in Request, Busy(r), Leave(r)
    PROVE  SectionHolds'
<1> SUFFICES ASSUME NEW q \in Request, req'[q].pc \in Section
             PROVE  Holds(req[q].home, q)' /\ req'[q] = req[q]
  BY DEF SectionHolds, Holds
<1>1. req'[r] = Over
  BY LeaveEnds
<1>2. q # r
  BY <1>1 DEF Over, Idle, Section
<1>3. req'[q] = req[q]
  BY <1>2 DEF Leave, Finish, TypeOK
<1>4. Holds(req[q].home, q)
  BY <1>3 DEF SectionHolds
<1>5. req[q].home \in Server
  BY <1>3, BusyRequest DEF TypeOK, Busy, Active, Section
<1>6. lockQ'[req[q].home] = lockQ[req[q].home]
  <2>1. CASE Holds(req[r].home, r)
    <3>1. req[r].home # req[q].home
      BY <1>2, <1>4, <2>1 DEF Holds
    <3> QED
      BY <1>5, <2>1, <3>1 DEF Leave, Release, TypeOK
  <2>2. CASE ~Holds(req[r].home, r)
    BY <2>2 DEF Leave
  <2> QED
    BY <2>1, <2>2
<1> QED
  BY <1>3, <1>4, <1>6 DEF Holds

(* SectionHolds is inductive. *)
LEMMA SectionNext == TypeOK /\ SectionHolds /\ [Next]_vars => SectionHolds'
<1> SUFFICES ASSUME TypeOK, SectionHolds, [Next]_vars PROVE SectionHolds'
  OBVIOUS
<1> USE DEF Busy, Active
<1>1. CASE UNCHANGED <<lockQ, req>>
  BY <1>1 DEF SectionHolds, Holds
<1>2. ASSUME NEW r \in Request, AwaitLock(r) PROVE SectionHolds'
  <2>1. req[r].home \in Server
    BY <1>2, BusyRequest DEF AwaitLock, TypeOK
  <2> SUFFICES ASSUME NEW q \in Request, req'[q].pc \in Section
               PROVE  Holds(req[q].home, q)' /\ req'[q] = req[q]
    BY DEF SectionHolds, Holds
  <2>2. q # r
    BY <1>2 DEF AwaitLock, To, TypeOK, Section
  <2>3. req'[q] = req[q]
    BY <1>2, <2>2 DEF AwaitLock, To, TypeOK
  <2>4. Holds(req[q].home, q) /\ req[q].home \in Server
    BY <2>3, BusyRequest DEF SectionHolds, TypeOK, Section
  <2>5. lockQ[req[q].home] \in Seq(Request) /\ lockQ[req[q].home] # <<>>
    BY <2>4 DEF Holds, TypeOK
  <2>6. /\ Append(lockQ[req[q].home], r) # <<>>
        /\ Head(Append(lockQ[req[q].home], r)) = Head(lockQ[req[q].home])
    BY <2>5
  <2> QED
    BY <1>2, <2>1, <2>3, <2>4, <2>6 DEF AwaitLock, Enqueue, Holds, TypeOK
<1>3. ASSUME NEW r \in Request, Sign(r) PROVE SectionHolds'
  BY <1>3 DEF Sign, SectionHolds, Holds, TypeOK
<1>4. ASSUME NEW r \in Request, CommitSigned(r) \/ Accept(r) \/ Refuse(r)
      PROVE  SectionHolds'
  <2>1. PICK pc \in Section : To(r, pc)
    BY <1>4 DEF CommitSigned, Accept, Refuse, Unrecorded, Section
  <2>2. req[r].pc \in Section /\ UNCHANGED lockQ
    BY <1>4 DEF CommitSigned, Accept, Refuse, Section
  <2> QED
    BY <2>1, <2>2 DEF To, SectionHolds, Holds, TypeOK
<1>5. ASSUME NEW r \in Request,
             \/ BuildFails(r) \/ CommitBroadcast(r) \/ CommitFailed(r)
             \/ PoolTimeout(r) \/ Abort(r)
      PROVE  SectionHolds'
  <2>1. Leave(r) /\ Busy(r)
    BY <1>5 DEF BuildFails, CommitBroadcast, CommitFailed, PoolTimeout, Abort,
       Unrecorded, Section
  <2> QED
    BY <2>1, LeaveSection
<1>6. ASSUME NEW r \in Request,
             \/ CommitApprove(r) \/ CommitReject(r) \/ NoReceipt(r) \/ Settle(r)
      PROVE  SectionHolds'
  <2>1. Finish(r) /\ UNCHANGED lockQ
    BY <1>6 DEF CommitApprove, CommitReject, CommitReview, NoReceipt, Settle
  <2> QED
    BY <2>1 DEF Finish, SectionHolds, Holds, TypeOK, Section, Over, Idle
<1>7. ASSUME NEW r \in Request, Start(r) PROVE SectionHolds'
  <2>1. PICK s \in Server, t \in Tx, o \in Operation, h \in Payload \cup {NoHash} :
            Load(r, s, t, o, h)
    BY <1>7 DEF Start, ProcessNext, ProcessWithdrawal, ReviewWithdrawal, Reconcile, Operation, TypeOK
  <2> QED
    BY <2>1 DEF Load, SectionHolds, Holds, TypeOK, Section
<1>8. ASSUME NEW s \in Server, Crash(s) PROVE SectionHolds'
  <2> SUFFICES ASSUME NEW q \in Request, req'[q].pc \in Section
               PROVE  Holds(req[q].home, q)' /\ req'[q] = req[q]
    BY DEF SectionHolds, Holds
  <2>1. req'[q] = req[q] /\ req[q].home # s
    BY <1>8, CrashEnds DEF Over, Idle, Section
  <2> QED
    BY <1>8, <2>1 DEF Crash, LoseLock, SectionHolds, Holds, TypeOK
<1> QED
  BY <1>1, <1>2, <1>3, <1>4, <1>5, <1>6, <1>7, <1>8
     DEF Next, Step, RequestWithdrawal, ChainMoves, Quiescent, vars

(* nonce.py: the requests of one server read the nonce, send the payload and
   record the outcome one after the other, whatever aborts or dies. *)
THEOREM NonceSectionSafe == Spec => []NonceSectionExclusive
<1>1. Init => SectionHolds
  BY DEF Init, SectionHolds, Idle, Section
<1>2. SectionHolds => NonceSectionExclusive
  BY DEF SectionHolds, NonceSectionExclusive, Holds
<1> QED
  BY <1>1, <1>2, SectionNext, TypeCorrect, PTL DEF Spec

-----------------------------------------------------------------------------
(* What a step does to the ledger: a row is inserted, nothing, or a busy
   request commits an UPDATE of its row with the audit row that repeats it. *)

Commits(r, e, s, h) ==
    /\ Busy(r)
    /\ e \in EventType /\ s \in Status \ {"PENDING_REVIEW"} /\ h \in Payload \cup {NoHash}
    /\ status' = [status EXCEPT ![req[r].tx] = s]
    /\ RecordEvent(req[r].tx, e, s, h)
    /\ UNCHANGED <<decision, chainVars, submitted>>
    /\ s = "PENDING" => req[r].op = "approve" /\ e = "APPROVED"
    /\ IF s = "BROADCAST"
       THEN /\ req[r].pc = "sent"
            /\ h = req[r].held
            /\ txHash' = [txHash EXCEPT ![req[r].tx] = h]
       ELSE UNCHANGED txHash
    /\ e = "SETTLED" => /\ req[r].pc = "loaded" /\ req[r].op = "reconcile"
                        /\ h = req[r].held /\ HasReceipt(h, TRUE)

(* A step of a request changes the ledger by one of its commits or not at all. *)
LEMMA StepLedger ==
    ASSUME TypeOK, NEW r \in Request, Step(r) \/ Abort(r)
    PROVE  \/ UNCHANGED ledgerVars
           \/ \E e, s, h : Commits(r, e, s, h)
<1> USE DEF Busy, Active, Section, EventType, Status
<1>1. CASE CommitSigned(r)
  <2>1. Commits(r, "SIGNED", "SIGNED", NoHash)
    BY <1>1 DEF CommitSigned, UpdateStatus, Commits
  <2> QED
    BY <2>1
<1>2. CASE CommitBroadcast(r)
  <2>1. req[r].held \in Payload
    BY <1>2, BusyRequest DEF CommitBroadcast, TypeOK
  <2>2. Commits(r, "BROADCAST", "BROADCAST", req[r].held)
    BY <1>2, <2>1 DEF CommitBroadcast, UpdateBroadcast, Commits
  <2> QED
    BY <2>2
<1>3. CASE CommitFailed(r)
  <2>1. Commits(r, "FAILED", "FAILED", NoHash)
    BY <1>3 DEF CommitFailed, UpdateStatus, Commits
  <2> QED
    BY <2>1
<1>4. CASE CommitApprove(r)
  <2>1. Commits(r, "APPROVED", "PENDING", NoHash)
    BY <1>4 DEF CommitApprove, CommitReview, UpdateStatus, Commits
  <2> QED
    BY <2>1
<1>5. CASE CommitReject(r)
  <2>1. Commits(r, "REJECTED", "FAILED", NoHash)
    BY <1>5 DEF CommitReject, CommitReview, UpdateStatus, Commits
  <2> QED
    BY <2>1
<1>6. CASE Settle(r)
  <2>1. req[r].held \in Payload /\ req[r].pc = "loaded" /\ req[r].op = "reconcile"
    BY <1>6, BusyRequest DEF Settle, TypeOK
  <2>2. CASE HasReceipt(req[r].held, TRUE) /\ UpdateSettled(req[r].tx, req[r].held)
    <3>1. Commits(r, "SETTLED", "SETTLED", req[r].held)
      BY <1>6, <2>1, <2>2 DEF Settle, UpdateSettled, Commits
    <3> QED
      BY <3>1
  <2>3. CASE UpdateStatus(req[r].tx, "FAILED", "FAILED", req[r].held)
    <3>1. Commits(r, "FAILED", "FAILED", req[r].held)
      BY <1>6, <2>1, <2>3 DEF Settle, UpdateStatus, Commits
    <3> QED
      BY <3>1
  <2> QED
    BY <1>6, <2>2, <2>3 DEF Settle
<1>7. CASE \/ AwaitLock(r) \/ Sign(r) \/ BuildFails(r) \/ Accept(r) \/ Refuse(r)
           \/ NoReceipt(r) \/ PoolTimeout(r) \/ Abort(r)
  BY <1>7 DEF AwaitLock, Sign, BuildFails, Accept, Refuse, NoReceipt, PoolTimeout, Abort
<1> QED
  BY <1>1, <1>2, <1>3, <1>4, <1>5, <1>6, <1>7 DEF Step

(* The trail of a withdrawal only grows, by the row RecordEvent appends. *)
LEMMA RecordAppends ==
    ASSUME TypeOK, NEW t \in Tx, NEW e \in EventType, NEW s \in Status,
           NEW h \in Payload \cup {NoHash}, RecordEvent(t, e, s, h)
    PROVE  /\ \A u \in Tx \ {t} : log'[u] = log[u]
           /\ Len(log'[t]) = Len(log[t]) + 1
           /\ DOMAIN log'[t] = 1 .. Len(log[t]) + 1
           /\ \A i \in DOMAIN log[t] : i \in DOMAIN log'[t] /\ log'[t][i] = log[t][i]
           /\ log'[t][Len(log[t]) + 1] = [event |-> e, status |-> s, hash |-> h]
<1>1. log[t] \in Seq(Event) /\ log'[t] = Append(log[t], [event |-> e, status |-> s, hash |-> h])
  BY DEF RecordEvent, TypeOK
<1>2. [event |-> e, status |-> s, hash |-> h] \in Event
  BY DEF Event
<1>3. /\ Append(log[t], [event |-> e, status |-> s, hash |-> h]) \in Seq(Event)
      /\ Len(log'[t]) = Len(log[t]) + 1
      /\ \A i \in 1 .. Len(log[t]) : log'[t][i] = log[t][i]
      /\ log'[t][Len(log[t]) + 1] = [event |-> e, status |-> s, hash |-> h]
  BY <1>1, <1>2, AppendProperties
<1>4. Len(log[t]) \in Nat /\ DOMAIN log[t] = 1 .. Len(log[t])
  BY <1>1, LenProperties
<1>5. log'[t] \in Seq(Event)
  BY <1>1, <1>3
<1>6. DOMAIN log'[t] = 1 .. Len(log[t]) + 1
  BY <1>3, <1>5, LenProperties
<1> QED
  BY <1>3, <1>4, <1>6 DEF RecordEvent, TypeOK

(* An audit row, once there, is never lost (audit_log.py only inserts). *)
LEMMA EventsKept ==
    ASSUME TypeOK, NEW t \in Tx, NEW e \in EventType, NEW s \in Status,
           NEW h \in Payload \cup {NoHash}, RecordEvent(t, e, s, h),
           NEW u \in Tx, NEW f
    PROVE  HasEvent(u, f)' <=> HasEvent(u, f) \/ (u = t /\ f = e)
<1> DEFINE n == Len(log[t]) + 1
<1>1. CASE u # t
  <2>1. log'[u] = log[u]
    BY <1>1, RecordAppends
  <2> QED
    BY <1>1, <2>1 DEF HasEvent
<1>2. CASE u = t
  <2>1. DOMAIN log'[t] = DOMAIN log[t] \cup {n} /\ n \notin DOMAIN log[t]
    <3>1. log[t] \in Seq(Event)
      BY DEF TypeOK
    <3>2. Len(log[t]) \in Nat /\ DOMAIN log[t] = 1 .. Len(log[t])
      BY <3>1, LenProperties
    <3>3. DOMAIN log'[t] = 1 .. Len(log[t]) + 1
      BY RecordAppends
    <3> QED
      BY <3>2, <3>3
  <2>2. log'[t][n] = [event |-> e, status |-> s, hash |-> h]
    BY RecordAppends
  <2>3. \A i \in DOMAIN log[t] : log'[t][i] = log[t][i]
    BY RecordAppends
  <2> HIDE DEF n
  <2> QED
    BY <1>2, <2>1, <2>2, <2>3 DEF HasEvent
<1> QED
  BY <1>1, <1>2

-----------------------------------------------------------------------------
(* The policy. *)

(* The strengthening of ClearedBeforePayment: a withdrawal is cleared as soon
   as it is queued, and stays so for the requests that read it queued. *)
ClearInv ==
    /\ \A t \in Tx : status[t] = "ABSENT" => decision[t] = "BLOCK"
    /\ \A t \in Tx : status[t] = "PENDING" => Cleared(t)
    /\ \A t \in Tx : status[t] = "PENDING_REVIEW" => decision[t] = "CHALLENGE"
    /\ \A r \in Request, t \in Tx :
            req[r].op = "process" /\ req[r].tx = t => Cleared(t)
    /\ \A r \in Request, t \in Tx :
            req[r].op = "approve" /\ req[r].tx = t => decision[t] = "CHALLENGE"
    /\ ClearedBeforePayment

(* A decision is not taken back, and an approval stays in the audit trail. *)
LEMMA ClearedStable ==
    ASSUME TypeOK, ClearInv, [Next]_vars, NEW t \in Tx
    PROVE  /\ Cleared(t) => Cleared(t)'
           /\ decision[t] = "CHALLENGE" => decision'[t] = "CHALLENGE"
<1>1. CASE RequestWithdrawal
  <2>1. PICK u \in Tx, d \in Decision : Insert(u, d)
    BY <1>1 DEF RequestWithdrawal
  <2>2. decision[u] = "BLOCK"
    BY <2>1 DEF Insert, InsertRow, Exists, ClearInv
  <2>3. u # t => decision'[t] = decision[t] /\ log' = log
    BY <2>1 DEF Insert, InsertRow, TypeOK
  <2> QED
    BY <2>2, <2>3 DEF Cleared, HasEvent
<1>2. CASE UNCHANGED ledgerVars
  BY <1>2 DEF Cleared, HasEvent, ledgerVars
<1>3. ASSUME NEW r \in Request, NEW e, NEW s, NEW h, Commits(r, e, s, h)
      PROVE  /\ Cleared(t) => Cleared(t)'
             /\ decision[t] = "CHALLENGE" => decision'[t] = "CHALLENGE"
  <2>1. req[r].tx \in Tx
    BY <1>3, BusyRequest DEF Commits, TypeOK
  <2>2. HasEvent(t, "APPROVED") => HasEvent(t, "APPROVED")'
    BY <1>3, <2>1, EventsKept DEF Commits
  <2> QED
    BY <1>3, <2>2 DEF Commits, Cleared
<1> QED
  BY <1>1, <1>2, <1>3, StepLedger
     DEF Next, Start, ProcessNext, ProcessWithdrawal, ReviewWithdrawal, Reconcile, Load,
         Crash, ChainMoves, Quiescent, vars

(* Nothing is paid or in service at the start. *)
LEMMA ClearInit == Init => ClearInv
BY DEF Init, LedgerInit, ClearInv, ClearedBeforePayment, Idle

(* ClearInv is inductive. *)
LEMMA ClearNext == TypeOK /\ ClearInv /\ [Next]_vars => ClearInv'
<1> SUFFICES ASSUME TypeOK, ClearInv, [Next]_vars PROVE ClearInv'
  OBVIOUS
<1>1. /\ \A t \in Tx : Cleared(t) => Cleared(t)'
      /\ \A t \in Tx : decision[t] = "CHALLENGE" => decision'[t] = "CHALLENGE"
  BY ClearedStable
<1>2. CASE RequestWithdrawal
  <2>1. PICK u \in Tx, d \in Decision : Insert(u, d)
    BY <1>2 DEF RequestWithdrawal
  <2>2. UNCHANGED <<req, submitted>>
    BY <1>2 DEF RequestWithdrawal
  <2>3. \A t \in Tx \ {u} : status'[t] = status[t] /\ decision'[t] = decision[t]
    BY <2>1 DEF Insert, InsertRow, TypeOK
  <2>4. status'[u] = InitialStatus(d) /\ decision'[u] = d
    BY <2>1 DEF Insert, InsertRow, TypeOK
  <2>5. /\ d = "ALLOW" => InitialStatus(d) = "PENDING"
        /\ d = "CHALLENGE" => InitialStatus(d) = "PENDING_REVIEW"
        /\ d = "BLOCK" => InitialStatus(d) = "FAILED"
        /\ d \in {"ALLOW", "CHALLENGE", "BLOCK"}
    BY DEF InitialStatus, Decision
  <2>6. /\ status'[u] = "PENDING" => Cleared(u)'
        /\ status'[u] = "PENDING_REVIEW" => decision'[u] = "CHALLENGE"
        /\ status'[u] # "ABSENT"
    BY <2>4, <2>5 DEF Cleared
  <2>7. /\ \A t \in Tx : status'[t] = "ABSENT" => decision'[t] = "BLOCK"
        /\ \A t \in Tx : status'[t] = "PENDING" => Cleared(t)'
        /\ \A t \in Tx : status'[t] = "PENDING_REVIEW" => decision'[t] = "CHALLENGE"
    BY <1>1, <2>3, <2>6 DEF ClearInv
  <2>8. \A x \in submitted : x[1] \in Tx
    BY DEF TypeOK
  <2> QED
    BY <1>1, <2>2, <2>7, <2>8 DEF ClearInv, ClearedBeforePayment
<1>3. ASSUME NEW r \in Request, Start(r) PROVE ClearInv'
  <2>1. PICK s \in Server, t \in Tx, o \in Operation, h \in Payload \cup {NoHash} :
            /\ Load(r, s, t, o, h)
            /\ o = "process" => status[t] = "PENDING"
            /\ o = "approve" => status[t] = "PENDING_REVIEW"
    BY <1>3 DEF Start, ProcessNext, ProcessWithdrawal, ReviewWithdrawal, Reconcile, Operation, TypeOK
  <2>2. /\ req'[r].op = o /\ req'[r].tx = t
        /\ \A q \in Request \ {r} : req'[q] = req[q]
        /\ UNCHANGED <<status, decision, log, submitted>>
    BY <2>1 DEF Load, TypeOK, ledgerVars
  <2>3. \A u : Cleared(u)' <=> Cleared(u)
    BY <2>2 DEF Cleared, HasEvent
  <2> QED
    BY <2>1, <2>2, <2>3 DEF ClearInv, ClearedBeforePayment
<1>4. ASSUME NEW r \in Request, Step(r) \/ Abort(r) PROVE ClearInv'
  <2>1. PICK u \in Tx : u = req[r].tx
    BY <1>4, StepRequest, BusyRequest DEF TypeOK
  <2>2. /\ \A t \in Tx : status'[t] = "ABSENT" => decision'[t] = "BLOCK"
        /\ \A t \in Tx : status'[t] = "PENDING" => Cleared(t)'
        /\ \A t \in Tx : status'[t] = "PENDING_REVIEW" => decision'[t] = "CHALLENGE"
    <3>1. CASE UNCHANGED ledgerVars
      BY <1>1, <3>1 DEF ledgerVars, ClearInv
    <3>2. ASSUME NEW e, NEW s, NEW h, Commits(r, e, s, h)
          PROVE  /\ \A t \in Tx : status'[t] = "ABSENT" => decision'[t] = "BLOCK"
                 /\ \A t \in Tx : status'[t] = "PENDING" => Cleared(t)'
                 /\ \A t \in Tx : status'[t] = "PENDING_REVIEW" => decision'[t] = "CHALLENGE"
      <4>1. \A t \in Tx : status'[t] = IF t = u THEN s ELSE status[t]
        BY <2>1, <3>2 DEF Commits, TypeOK
      <4>2. s \notin {"ABSENT", "PENDING_REVIEW"} /\ decision' = decision
        BY <3>2 DEF Commits, Status
      <4>3. s = "PENDING" => Cleared(u)'
        <5>1. HasEvent(u, e)'
          BY <2>1, <3>2, EventsKept DEF Commits
        <5> QED
          BY <2>1, <3>2, <4>2, <5>1 DEF Commits, ClearInv, Cleared
      <4> QED
        BY <1>1, <4>1, <4>2, <4>3 DEF ClearInv
    <3> QED
      BY <1>4, <3>1, <3>2, StepLedger
  <2>3. \A q \in Request : \/ req'[q] = Over
                           \/ req'[q].op = req[q].op /\ req'[q].tx = req[q].tx
    BY <1>4, StepRequest, OthersKept
  <2>4. /\ \A q \in Request, t \in Tx :
                req'[q].op = "process" /\ req'[q].tx = t => Cleared(t)'
        /\ \A q \in Request, t \in Tx :
                req'[q].op = "approve" /\ req'[q].tx = t => decision'[t] = "CHALLENGE"
    BY <1>1, <2>3 DEF ClearInv, Over, Idle
  <2>5. \A x \in submitted' : Cleared(x[1])'
    <3>1. \A x \in submitted : x[1] \in Tx /\ Cleared(x[1])
      BY DEF TypeOK, ClearInv, ClearedBeforePayment
    <3>2. req[r].op = "process" => Cleared(u)'
      BY <1>1, <2>1 DEF ClearInv
    <3>3. \A x \in submitted' :
              x \in submitted \/ (req[r].op = "process" /\ x[1] = u)
      BY <1>4, <2>1, StepRequest
    <3> QED
      BY <1>1, <3>1, <3>2, <3>3
  <2> QED
    BY <2>2, <2>4, <2>5 DEF ClearInv, ClearedBeforePayment
<1>5. ASSUME NEW s \in Server, Crash(s) PROVE ClearInv'
  <2>1. UNCHANGED <<status, decision, log, submitted>>
    BY <1>5 DEF Crash, ledgerVars
  <2>2. \A q \in Request : req'[q] = Over \/ req'[q] = req[q]
    BY <1>5, CrashEnds
  <2>3. \A u : Cleared(u)' <=> Cleared(u)
    BY <2>1 DEF Cleared, HasEvent
  <2> QED
    BY <2>1, <2>2, <2>3 DEF ClearInv, ClearedBeforePayment, Over, Idle
<1>6. CASE UNCHANGED <<ledgerVars, req, submitted>>
  BY <1>6 DEF ClearInv, ClearedBeforePayment, Cleared, HasEvent, ledgerVars
<1> QED
  BY <1>2, <1>3, <1>4, <1>5, <1>6 DEF Next, ChainMoves, Quiescent, vars

(* No withdrawal is sent to the node unless the policy allowed it, or
   challenged it and its approval was committed before: for any number of
   servers and stale requests. *)
THEOREM PaymentsCleared == Spec => []ClearedBeforePayment
<1>1. ClearInv => ClearedBeforePayment
  BY DEF ClearInv
<1> QED
  BY <1>1, ClearInit, ClearNext, TypeCorrect, PTL DEF Spec

-----------------------------------------------------------------------------
(* The audit trail. *)

(* The strengthening: a row that is not inserted has no trail. *)
MirrorInv ==
    /\ \A t \in Tx : status[t] = "ABSENT" => log[t] = <<>>
    /\ AuditMirrorsStatus

(* MirrorInv is inductive. *)
LEMMA MirrorNext == TypeOK /\ MirrorInv /\ [Next]_vars => MirrorInv'
<1> SUFFICES ASSUME TypeOK, MirrorInv, [Next]_vars PROVE MirrorInv'
  OBVIOUS
<1>1. CASE RequestWithdrawal
  <2>1. PICK u \in Tx, d \in Decision : Insert(u, d)
    BY <1>1 DEF RequestWithdrawal
  <2>2. /\ log' = log /\ log[u] = <<>>
        /\ \A t \in Tx \ {u} : status'[t] = status[t] /\ decision'[t] = decision[t]
        /\ status'[u] = InitialStatus(d) /\ decision'[u] = d
    BY <2>1 DEF Insert, InsertRow, Exists, MirrorInv, TypeOK
  <2>3. InitialStatus(d) # "ABSENT"
    BY DEF InitialStatus, Decision
  <2>4. InitialStatus(d)' = InitialStatus(d)
    BY DEF InitialStatus
  <2> QED
    BY <2>2, <2>3, <2>4 DEF MirrorInv, AuditMirrorsStatus, Exists, InitialStatus
<1>2. CASE UNCHANGED ledgerVars
  BY <1>2 DEF MirrorInv, AuditMirrorsStatus, Exists, ledgerVars
<1>3. ASSUME NEW r \in Request, NEW e, NEW s, NEW h, Commits(r, e, s, h)
      PROVE  MirrorInv'
  <2>1. PICK u \in Tx : u = req[r].tx
    BY <1>3, BusyRequest DEF Commits, TypeOK
  <2>2. /\ \A t \in Tx \ {u} : status'[t] = status[t] /\ log'[t] = log[t]
        /\ status'[u] = s /\ s # "ABSENT" /\ decision' = decision
    <3>1. s # "ABSENT"
      BY <1>3 DEF Commits, Status
    <3>2. \A t \in Tx \ {u} : log'[t] = log[t]
      BY <1>3, <2>1 DEF Commits, RecordEvent, TypeOK
    <3> QED
      BY <1>3, <2>1, <3>1, <3>2 DEF Commits, TypeOK
  <2>3. log[u] \in Seq(Event) /\ Len(log[u]) \in Nat
    BY LenProperties DEF TypeOK
  <2>4. /\ Len(log'[u]) = Len(log[u]) + 1
        /\ log'[u][Len(log[u]) + 1] = [event |-> e, status |-> s, hash |-> h]
    BY <1>3, <2>1, RecordAppends DEF Commits
  <2>5. log'[u] # <<>> /\ log'[u][Len(log'[u])].status = s
    BY <2>3, <2>4
  <2> QED
    BY <2>2, <2>5 DEF MirrorInv, AuditMirrorsStatus, Exists
<1> QED
  BY <1>1, <1>2, <1>3, StepLedger
     DEF Next, Start, ProcessNext, ProcessWithdrawal, ReviewWithdrawal, Reconcile, Load,
         Crash, ChainMoves, Quiescent, vars

(* The status column and the last audit row of a withdrawal never disagree:
   the two are written in one commit by every handler. *)
THEOREM AuditFaithful == Spec => []AuditMirrorsStatus
<1>1. Init => MirrorInv
  BY DEF Init, LedgerInit, MirrorInv, AuditMirrorsStatus, Exists
<1>2. MirrorInv => AuditMirrorsStatus
  BY DEF MirrorInv
<1> QED
  BY <1>1, <1>2, MirrorNext, TypeCorrect, PTL DEF Spec

-----------------------------------------------------------------------------
(* Nonces. *)

(* The strengthening of OneOutstanding: a signed payload has a nonce that was
   the account's when it was built, and the account's only grows. *)
NonceInv ==
    /\ OneOutstanding
    /\ \A r \in Request :
        req[r].pc \in {"signed", "committed"} => req[r].held.nonce <= accountNonce

(* A payload of a past or the present nonce is taken only if the mempool is empty
   and the nonce is the next. *)
LEMMA AcceptNonce ==
    ASSUME accountNonce \in Nat, OneOutstanding, NEW p \in Payload,
           p.nonce <= accountNonce, SendRaw(p)
    PROVE  OneOutstanding' /\ accountNonce' = accountNonce
<1>1. p.nonce \in Nat
  BY DEF Payload
<1>2. p.nonce = accountNonce /\ mempool = {}
  BY <1>1 DEF SendRaw, Accepts, OneOutstanding
<1>3. mempool' = {p} /\ accountNonce' = accountNonce
  BY <1>2 DEF SendRaw
<1> QED
  BY <1>2, <1>3 DEF OneOutstanding

(* NonceInv is inductive. *)
LEMMA NonceNext == TypeOK /\ NonceInv /\ [Next]_vars => NonceInv'
<1> SUFFICES ASSUME TypeOK, NonceInv, [Next]_vars PROVE NonceInv'
  OBVIOUS
<1> USE DEF Busy, Active, Section
<1>1. CASE UNCHANGED <<chainVars, req>>
  BY <1>1 DEF NonceInv, OneOutstanding, chainVars
<1>2. ASSUME NEW r \in Request, UNCHANGED chainVars,
             \A q \in Request \ {r} : req'[q] = req[q],
             \/ req'[r].pc \notin {"signed", "committed"}
             \/ req'[r].held.nonce = accountNonce
             \/ req[r].pc = "signed" /\ req'[r].held = req[r].held
      PROVE  NonceInv'
  <2>1. accountNonce \in Nat /\ accountNonce' = accountNonce /\ mempool' = mempool
    BY <1>2 DEF chainVars, TypeOK
  <2>2. OneOutstanding'
    BY <2>1 DEF NonceInv, OneOutstanding
  <2>3. ASSUME NEW q \in Request, req'[q].pc \in {"signed", "committed"}
        PROVE  req'[q].held.nonce <= accountNonce
    <3>1. CASE q # r
      BY <1>2, <2>3, <3>1 DEF NonceInv
    <3>2. CASE q = r
      BY <1>2, <2>1, <2>3, <3>2 DEF NonceInv
    <3> QED
      BY <3>1, <3>2
  <2> QED
    BY <2>1, <2>2, <2>3 DEF NonceInv
<1>3. ASSUME NEW r \in Request, Start(r) PROVE NonceInv'
  <2>1. PICK s \in Server, t \in Tx, o \in Operation, h \in Payload \cup {NoHash} :
            Load(r, s, t, o, h)
    BY <1>3 DEF Start, ProcessNext, ProcessWithdrawal, ReviewWithdrawal, Reconcile, Operation, TypeOK
  <2>2. req'[r].pc = "loaded" /\ UNCHANGED chainVars
    BY <2>1 DEF Load, TypeOK
  <2> QED
    BY <1>2, <1>3, <2>2, OthersKept
<1>4. ASSUME NEW r \in Request, Accept(r) PROVE NonceInv'
  <2>1. req[r].held \in Payload
    BY <1>4, BusyRequest DEF Accept, TypeOK
  <2>2. req[r].held.nonce <= accountNonce /\ SendRaw(req[r].held)
    BY <1>4 DEF Accept, NonceInv
  <2>3. OneOutstanding' /\ accountNonce' = accountNonce
    BY <2>1, <2>2, AcceptNonce DEF NonceInv, TypeOK
  <2>6. PICK pc \in Unrecorded : To(r, pc)
    BY <1>4 DEF Accept
  <2>7. req'[r].pc \notin {"signed", "committed"}
    BY <2>6, ToKeeps DEF Unrecorded
  <2> QED
    BY <1>4, <2>3, <2>7, OthersKept DEF NonceInv, Step
<1>5. ASSUME NEW r \in Request, Step(r) \/ Abort(r), ~Accept(r) PROVE NonceInv'
  <2>1. UNCHANGED chainVars
    BY <1>5 DEF Step, Abort, AwaitLock, Sign, BuildFails, CommitSigned, Refuse,
       CommitBroadcast, CommitFailed, CommitApprove, CommitReject, CommitReview, NoReceipt,
       Settle, PoolTimeout
  <2>2. CASE Sign(r)
    BY <1>2, <1>5, <2>1, <2>2, SignKeeps, OthersKept
  <2>3. CASE AwaitLock(r) \/ CommitSigned(r) \/ Refuse(r)
    <3>1. \/ req'[r].pc \notin {"signed", "committed"}
          \/ req[r].pc = "signed" /\ req'[r].held = req[r].held
      BY <2>3, ToKeeps DEF AwaitLock, CommitSigned, Refuse
    <3> QED
      BY <1>2, <1>5, <2>1, <3>1, OthersKept
  <2>4. CASE Leave(r) \/ Finish(r)
    <3>1. req'[r].pc \notin {"signed", "committed"}
      BY <2>4, LeaveEnds DEF Over, Idle
    <3> QED
      BY <1>2, <1>5, <2>1, <3>1, OthersKept
  <2> QED
    BY <1>5, <2>2, <2>3, <2>4 DEF Step, Abort, BuildFails, CommitBroadcast, CommitFailed,
       CommitApprove, CommitReject, CommitReview, NoReceipt, Settle, PoolTimeout
<1>6. ASSUME NEW s \in Server, Crash(s) PROVE NonceInv'
  <2>1. \A q \in Request : req'[q] = Over \/ req'[q] = req[q]
    BY <1>6, CrashEnds
  <2>2. UNCHANGED chainVars
    BY <1>6 DEF Crash
  <2> QED
    BY <2>1, <2>2 DEF NonceInv, OneOutstanding, chainVars, Over, Idle
<1>7. CASE ChainMoves
  <2>1. PICK p \in mempool : Drop(p) \/ \E ok \in BOOLEAN : Mine(p, ok)
    BY <1>7 DEF ChainMoves, ChainStep
  <2>2. mempool' = {} /\ accountNonce' \in {accountNonce, accountNonce + 1}
    BY <2>1 DEF Drop, Mine, NonceInv, OneOutstanding
  <2>3. \A q \in Request : req[q].pc \in {"signed", "committed"} => req[q].held.nonce \in Nat
    BY BusyRequest DEF TypeOK, Payload
  <2> QED
    BY <1>7, <2>2, <2>3 DEF ChainMoves, NonceInv, OneOutstanding, TypeOK
<1> QED
  BY <1>1, <1>3, <1>4, <1>5, <1>6, <1>7 DEF Next, RequestWithdrawal, Quiescent, vars, Step

(* transaction_builder.py: since the nonce is the count of mined transactions,
   the account never has more than one payload waiting, and it is the next. *)
THEOREM NoncesConsecutive == Spec => []OneOutstanding
<1>1. Init => NonceInv
  BY DEF Init, ChainInit, NonceInv, OneOutstanding, Idle
<1>2. NonceInv => OneOutstanding
  BY DEF NonceInv
<1> QED
  BY <1>1, <1>2, NonceNext, TypeCorrect, PTL DEF Spec

-----------------------------------------------------------------------------
(* Hashes and receipts. *)

(* The strengthening of BroadcastCarriesHash and SettledIsPaid: the hash a
   coroutine is about to record, or has read, is one that was submitted for
   its withdrawal. *)
HashInv ==
    /\ \A r \in Request :
        req[r].pc = "sent" \/ req[r].op = "reconcile" =>
            <<req[r].tx, req[r].held>> \in submitted
    /\ BroadcastCarriesHash
    /\ SettledIsPaid

(* Submissions and receipts are final. *)
LEMMA HistoryGrows ==
    ASSUME TypeOK, [Next]_vars
    PROVE  submitted \subseteq submitted' /\ receipts \subseteq receipts'
<1>1. ASSUME NEW r \in Request, Step(r) PROVE receipts' = receipts
  BY <1>1 DEF Step, AwaitLock, Sign, BuildFails, CommitSigned, Accept, SendRaw, Refuse,
     CommitBroadcast, CommitFailed, CommitApprove, CommitReject, CommitReview, NoReceipt,
     Settle, PoolTimeout, chainVars
<1>2. ASSUME NEW r \in Request, Step(r) PROVE submitted \subseteq submitted'
  BY <1>2, StepRequest
<1>3. CASE ChainMoves
  BY <1>3 DEF ChainMoves, ChainStep, Drop, Mine
<1> QED
  BY <1>1, <1>2, <1>3 DEF Next, RequestWithdrawal, Start, ProcessNext, ProcessWithdrawal,
     ReviewWithdrawal, Reconcile, Load, Abort, Crash, Quiescent, vars, chainVars

(* The local part, for the request that moves. *)
LEMMA StepHash ==
    ASSUME TypeOK, HashInv, NEW r \in Request, Step(r) \/ Abort(r)
    PROVE  req'[r].pc = "sent" \/ req'[r].op = "reconcile" =>
               <<req'[r].tx, req'[r].held>> \in submitted'
<1> USE DEF Busy, Active, Section
<1>1. CASE Sign(r)
  <2>1. req[r].op = "process"
    BY <1>1, BusyRequest DEF Sign, TypeOK
  <2> QED
    BY <1>1, <2>1, SignKeeps
<1>2. CASE AwaitLock(r) \/ CommitSigned(r) \/ Refuse(r)
  <2>1. req[r].op = "process"
    BY <1>2, BusyRequest DEF AwaitLock, CommitSigned, Refuse, TypeOK
  <2>2. req'[r].pc # "sent" /\ req'[r].op = "process"
    BY <1>2, <2>1, ToKeeps DEF AwaitLock, CommitSigned, Refuse
  <2> QED
    BY <2>2
<1>3. CASE Accept(r)
  <2>1. <<req[r].tx, req[r].held>> \in submitted'
    BY <1>3 DEF Accept
  <2>2. req'[r].tx = req[r].tx /\ req'[r].held = req[r].held
    BY <1>3, ToKeeps DEF Accept
  <2> QED
    BY <2>1, <2>2
<1>4. CASE Leave(r) \/ Finish(r)
  BY <1>4, LeaveEnds DEF Over, Idle
<1> QED
  BY <1>1, <1>2, <1>3, <1>4 DEF Step, Abort, BuildFails, CommitBroadcast, CommitFailed,
     CommitApprove, CommitReject, CommitReview, NoReceipt, Settle, PoolTimeout

(* The ledger's part: an UPDATE with its audit row records no hash that was not
   submitted, and no settlement without its receipt. *)
LEMMA UpdateHash ==
    ASSUME TypeOK, HashInv, NEW u \in Tx, NEW e \in EventType, NEW s \in Status,
           NEW h \in Payload \cup {NoHash}, RecordEvent(u, e, s, h),
           status' = [status EXCEPT ![u] = s], UNCHANGED <<submitted, receipts>>,
           IF s = "BROADCAST" THEN txHash' = [txHash EXCEPT ![u] = h] ELSE UNCHANGED txHash,
           s = "BROADCAST" \/ e = "SETTLED" => <<u, h>> \in submitted,
           e = "SETTLED" => HasReceipt(h, TRUE)
    PROVE  BroadcastCarriesHash' /\ SettledIsPaid'
<1>1. ASSUME NEW t \in Tx, status'[t] = "BROADCAST" PROVE <<t, txHash'[t]>> \in submitted
  <2>1. CASE t = u /\ s = "BROADCAST"
    BY <2>1 DEF TypeOK
  <2>2. CASE t # u
    <3>1. status'[t] = status[t] /\ txHash'[t] = txHash[t]
      BY <2>2 DEF TypeOK
    <3> QED
      BY <1>1, <3>1 DEF HashInv, BroadcastCarriesHash
  <2>3. CASE t = u /\ s # "BROADCAST"
    BY <1>1, <2>3 DEF TypeOK
  <2> QED
    BY <2>1, <2>2, <2>3
<1>2. ASSUME NEW t \in Tx, NEW i \in DOMAIN log'[t], log'[t][i].event = "SETTLED"
      PROVE  <<t, log'[t][i].hash>> \in submitted /\ HasReceipt(log'[t][i].hash, TRUE)
  <2>1. CASE t # u
    <3>1. log'[t] = log[t]
      BY <2>1 DEF RecordEvent, TypeOK
    <3> QED
      BY <1>2, <3>1 DEF HashInv, SettledIsPaid
  <2>2. CASE t = u
    <3>1. log[u] \in Seq(Event)
      BY DEF TypeOK
    <3>2. Len(log[u]) \in Nat /\ DOMAIN log[u] = 1 .. Len(log[u])
      BY <3>1, LenProperties
    <3>3. /\ DOMAIN log'[u] = 1 .. Len(log[u]) + 1
          /\ \A j \in DOMAIN log[u] : log'[u][j] = log[u][j]
          /\ log'[u][Len(log[u]) + 1] = [event |-> e, status |-> s, hash |-> h]
      BY RecordAppends
    <3>4. CASE i \in DOMAIN log[u]
      BY <1>2, <2>2, <3>3, <3>4 DEF HashInv, SettledIsPaid
    <3>5. CASE i = Len(log[u]) + 1
      <4>1. log'[t][i] = [event |-> e, status |-> s, hash |-> h]
        BY <2>2, <3>3, <3>5
      <4>2. e = "SETTLED" /\ log'[t][i].hash = h
        BY <1>2, <4>1
      <4>3. <<u, h>> \in submitted /\ HasReceipt(h, TRUE)
        BY <4>2
      <4> QED
        BY <2>2, <4>2, <4>3
    <3>6. i \in 1 .. Len(log[u]) + 1
      BY <1>2, <2>2, <3>3
    <3>7. i \in DOMAIN log[u] \/ i = Len(log[u]) + 1
      BY <3>2, <3>6
    <3> QED
      BY <3>4, <3>5, <3>7
  <2> QED
    BY <2>1, <2>2
<1> QED
  BY <1>1, <1>2 DEF BroadcastCarriesHash, SettledIsPaid, HasReceipt

(* A request's commit is such an UPDATE. *)
LEMMA CommitHash ==
    ASSUME TypeOK, HashInv, NEW r \in Request, NEW e, NEW s, NEW h, Commits(r, e, s, h)
    PROVE  BroadcastCarriesHash' /\ SettledIsPaid'
<1>1. req[r].tx \in Tx
  BY BusyRequest DEF Commits, TypeOK
<1>2. s = "BROADCAST" \/ e = "SETTLED" => <<req[r].tx, h>> \in submitted
  BY DEF Commits, HashInv
<1> QED
  BY <1>1, <1>2, UpdateHash DEF Commits, chainVars

(* HashInv is inductive. *)
LEMMA HashNext == TypeOK /\ HashInv /\ [Next]_vars => HashInv'
<1> SUFFICES ASSUME TypeOK, HashInv, [Next]_vars PROVE HashInv'
  OBVIOUS
<1>1. submitted \subseteq submitted' /\ receipts \subseteq receipts'
  BY HistoryGrows
<1>2. UNCHANGED <<status, txHash, log>> => BroadcastCarriesHash' /\ SettledIsPaid'
  BY <1>1 DEF HashInv, BroadcastCarriesHash, SettledIsPaid, HasReceipt
<1>3. CASE RequestWithdrawal
  <2>1. PICK u \in Tx, d \in Decision : Insert(u, d)
    BY <1>3 DEF RequestWithdrawal
  <2>2. UNCHANGED <<req, submitted, txHash, log, receipts>>
    BY <1>3, <2>1 DEF RequestWithdrawal, Insert, InsertRow, chainVars
  <2>3. \A t \in Tx : status'[t] = "BROADCAST" => status[t] = "BROADCAST"
    BY <2>1 DEF Insert, InsertRow, InitialStatus, Decision, TypeOK
  <2> QED
    BY <2>2, <2>3 DEF HashInv, BroadcastCarriesHash, SettledIsPaid, HasReceipt
<1>4. ASSUME NEW r \in Request, Start(r) PROVE HashInv'
  <2>1. PICK s \in Server, t \in Tx, o \in Operation, h \in Payload \cup {NoHash} :
            /\ Load(r, s, t, o, h)
            /\ o = "reconcile" => status[t] = "BROADCAST" /\ h = txHash[t]
    BY <1>4 DEF Start, ProcessNext, ProcessWithdrawal, ReviewWithdrawal, Reconcile, Operation, TypeOK
  <2>2. /\ req'[r].pc = "loaded" /\ req'[r].op = o /\ req'[r].tx = t /\ req'[r].held = h
        /\ \A q \in Request \ {r} : req'[q] = req[q]
        /\ UNCHANGED <<status, txHash, log, submitted>>
    BY <2>1 DEF Load, TypeOK, ledgerVars
  <2> QED
    BY <1>2, <2>1, <2>2 DEF HashInv, BroadcastCarriesHash
<1>5. ASSUME NEW r \in Request, Step(r) \/ Abort(r) PROVE HashInv'
  <2>1. \A q \in Request : req'[q].pc = "sent" \/ req'[q].op = "reconcile" =>
            <<req'[q].tx, req'[q].held>> \in submitted'
    BY <1>1, <1>5, StepHash, OthersKept DEF HashInv
  <2>2. BroadcastCarriesHash' /\ SettledIsPaid'
    BY <1>2, <1>5, StepLedger, CommitHash DEF ledgerVars
  <2> QED
    BY <2>1, <2>2 DEF HashInv
<1>6. ASSUME NEW s \in Server, Crash(s) PROVE HashInv'
  <2>1. \A q \in Request : req'[q] = Over \/ req'[q] = req[q]
    BY <1>6, CrashEnds
  <2>2. UNCHANGED <<status, txHash, log>>
    BY <1>6 DEF Crash, ledgerVars
  <2> QED
    BY <1>1, <1>2, <2>1, <2>2 DEF HashInv, Over, Idle
<1>7. CASE UNCHANGED <<ledgerVars, req>>
  BY <1>1, <1>2, <1>7 DEF HashInv, ledgerVars
<1> QED
  BY <1>3, <1>4, <1>5, <1>6, <1>7 DEF Next, ChainMoves, Quiescent, vars

(* No hash is anywhere at the start. *)
LEMMA HashInit == Init => HashInv
BY DEF Init, LedgerInit, HashInv, BroadcastCarriesHash, SettledIsPaid, Idle

(* A withdrawal in BROADCAST carries the hash of a payload the node accepted
   for it, so Reconciler.sync looks up a receipt of its own payload. *)
THEOREM BroadcastHasHash == Spec => []BroadcastCarriesHash
<1>1. HashInv => BroadcastCarriesHash
  BY DEF HashInv
<1> QED
  BY <1>1, HashInit, HashNext, TypeCorrect, PTL DEF Spec

(* SETTLED is recorded only with the hash of a payload that was submitted for
   the withdrawal and mined with success. *)
THEOREM SettlementsPaid == Spec => []SettledIsPaid
<1>1. HashInv => SettledIsPaid
  BY DEF HashInv
<1> QED
  BY <1>1, HashInit, HashNext, TypeCorrect, PTL DEF Spec

-----------------------------------------------------------------------------
(* Payloads and audit rows.  A committed SIGNED row allows for one payload, of
   the request that committed it, until that request has sent it or is over;
   requests that signed the same withdrawal are counted apart.  Others than the
   requests may owe n payloads more. *)

Owing(t) == {r \in Request : req[r].pc = "committed" /\ req[r].tx = t}

Audited(t, n) ==
    /\ IsFiniteSet(PayloadsOf(t)) /\ IsFiniteSet(Owing(t))
    /\ Cardinality(PayloadsOf(t)) + Cardinality(Owing(t)) + n <= CountOf(t, "SIGNED")

AuditInv == \A t \in Tx : Audited(t, 0)

(* The audit rows of a withdrawal can be counted. *)
LEMMA CountTyped ==
    ASSUME TypeOK, NEW t \in Tx, NEW e
    PROVE  /\ IsFiniteSet({i \in DOMAIN log[t] : log[t][i].event = e})
           /\ CountOf(t, e) \in Nat
<1> DEFINE R == {i \in DOMAIN log[t] : log[t][i].event = e}
<1>1. log[t] \in Seq(Event)
  BY DEF TypeOK
<1>2. Len(log[t]) \in Nat /\ DOMAIN log[t] = 1 .. Len(log[t])
  BY <1>1, LenProperties
<1>3. IsFiniteSet(DOMAIN log[t])
  BY <1>2, FS_Interval
<1>4. R \in SUBSET DOMAIN log[t]
  OBVIOUS
<1>5. IsFiniteSet(R)
  BY <1>3, <1>4, FS_Subset
<1> QED
  BY <1>5, FS_CardinalityType DEF CountOf

(* A commit adds one to the count of its own event in its own trail. *)
LEMMA CountGrows ==
    ASSUME TypeOK, NEW t \in Tx, NEW e \in EventType, NEW s \in Status,
           NEW h \in Payload \cup {NoHash}, RecordEvent(t, e, s, h), NEW u \in Tx
    PROVE  CountOf(u, "SIGNED")' =
               CountOf(u, "SIGNED") + (IF u = t /\ e = "SIGNED" THEN 1 ELSE 0)
<1> DEFINE R == {i \in DOMAIN log[u] : log[u][i].event = "SIGNED"}
           R1 == {i \in DOMAIN log'[u] : log'[u][i].event = "SIGNED"}
           n == Len(log[u]) + 1
<1>1. CountOf(u, "SIGNED") = Cardinality(R) /\ CountOf(u, "SIGNED")' = Cardinality(R1)
  BY DEF CountOf
<1>2. IsFiniteSet(R) /\ Cardinality(R) \in Nat
  BY <1>1, CountTyped
<1>3. CASE u # t
  <2>1. log'[u] = log[u]
    BY <1>3, RecordAppends
  <2>2. R1 = R
    BY <2>1
  <2> HIDE DEF R, R1
  <2> QED
    BY <1>1, <1>2, <1>3, <2>2
<1>4. CASE u = t
  <2>1. log[u] \in Seq(Event)
    BY DEF TypeOK
  <2>2. DOMAIN log'[u] = DOMAIN log[u] \cup {n} /\ n \notin DOMAIN log[u]
    <3>1. Len(log[u]) \in Nat /\ DOMAIN log[u] = 1 .. Len(log[u])
      BY <2>1, LenProperties
    <3>2. DOMAIN log'[u] = 1 .. Len(log[u]) + 1
      BY <1>4, RecordAppends
    <3> QED
      BY <3>1, <3>2
  <2>3. log'[u][n] = [event |-> e, status |-> s, hash |-> h]
    BY <1>4, RecordAppends
  <2>4. \A i \in DOMAIN log[u] : log'[u][i] = log[u][i]
    BY <1>4, RecordAppends
  <2> HIDE DEF n
  <2>5. R1 = IF e = "SIGNED" THEN R \cup {n} ELSE R
    BY <2>2, <2>3, <2>4
  <2>6. n \notin R
    BY <2>2
  <2> HIDE DEF R, R1
  <2>7. Cardinality(R \cup {n}) = Cardinality(R) + 1
    BY <1>2, <2>6, FS_AddElement
  <2> QED
    BY <1>1, <1>2, <1>4, <2>5, <2>7
<1> QED
  BY <1>3, <1>4

(* What is sent and owed, less what was lost. *)
LEMMA AuditedKept ==
    ASSUME TypeOK, NEW t \in Tx, NEW n \in Nat, Audited(t, n), PayloadsOf(t)' = PayloadsOf(t),
           Owing(t)' \subseteq Owing(t),
           CountOf(t, "SIGNED")' \in Nat, CountOf(t, "SIGNED") <= CountOf(t, "SIGNED")'
    PROVE  Audited(t, n)'
<1>1. CountOf(t, "SIGNED") \in Nat
  BY CountTyped
<1>2. /\ IsFiniteSet(Owing(t)') /\ Cardinality(Owing(t)') <= Cardinality(Owing(t))
      /\ Cardinality(Owing(t)') \in Nat /\ Cardinality(Owing(t)) \in Nat
  BY FS_Subset, FS_CardinalityType DEF Audited
<1>3. Cardinality(PayloadsOf(t)) \in Nat
  BY FS_CardinalityType DEF Audited
<1> QED
  BY <1>1, <1>2, <1>3 DEF Audited

(* Nobody comes to owe a payload but by committing SIGNED. *)
LEMMA OwingShrinks ==
    ASSUME TypeOK, NEW r \in Request, NEW t \in Tx,
           \A q \in Request \ {r} : req'[q] = req[q], req'[r].pc # "committed"
    PROVE  Owing(t)' = Owing(t) \ {r}
BY DEF Owing

-----------------------------------------------------------------------------
(* The commit of SIGNED. *)
LEMMA SignAudited ==
    ASSUME TypeOK, NEW r \in Request, CommitSigned(r), NEW t \in Tx, NEW n \in Nat,
           Audited(t, n)
    PROVE  Audited(t, n)'
<1> USE DEF Busy, Active
<1>1. req[r].tx \in Tx
  BY BusyRequest DEF CommitSigned, TypeOK
<1>2. /\ RecordEvent(req[r].tx, "SIGNED", "SIGNED", NoHash)
      /\ PayloadsOf(t)' = PayloadsOf(t)
  BY DEF CommitSigned, UpdateStatus, PayloadsOf
<1>3. CountOf(t, "SIGNED")' =
          CountOf(t, "SIGNED") + (IF t = req[r].tx THEN 1 ELSE 0)
  BY <1>1, <1>2, CountGrows DEF EventType, Status
<1>4. CountOf(t, "SIGNED") \in Nat
  BY CountTyped
<1>5. \A q \in Request \ {r} : req'[q] = req[q]
  BY OthersKept DEF Step
<1>6. req'[r].pc = "committed" /\ req'[r].tx = req[r].tx
  BY ToKeeps DEF CommitSigned
<1>7. r \notin Owing(t)
  BY DEF Owing, CommitSigned
<1>9. CASE t = req[r].tx
  <2>1. Owing(t)' = Owing(t) \cup {r}
    BY <1>5, <1>6, <1>9 DEF Owing
  <2>2. IsFiniteSet(Owing(t)') /\ Cardinality(Owing(t)') = Cardinality(Owing(t)) + 1
    BY <1>7, <2>1, FS_AddElement DEF Audited
  <2>3. Cardinality(Owing(t)) \in Nat /\ Cardinality(PayloadsOf(t)) \in Nat
    BY FS_CardinalityType DEF Audited
  <2> QED
    BY <1>2, <1>3, <1>4, <1>9, <2>2, <2>3 DEF Audited
<1>10. CASE t # req[r].tx
  <2>1. Owing(t)' = Owing(t)
    BY <1>5, <1>6, <1>7, <1>10 DEF Owing
  <2> QED
    BY <1>2, <1>3, <1>4, <1>10, <2>1, AuditedKept
<1> QED
  BY <1>9, <1>10

(* A payload more. *)
LEMMA PayloadsGrow ==
    ASSUME NEW u, NEW p, submitted' = submitted \cup {<<u, p>>}, NEW t
    PROVE  /\ PayloadsOf(t)' = IF t = u THEN PayloadsOf(t) \cup {p} ELSE PayloadsOf(t)
           /\ IsFiniteSet(PayloadsOf(t)) =>
                /\ IsFiniteSet(PayloadsOf(t)')
                /\ Cardinality(PayloadsOf(t)) \in Nat /\ Cardinality(PayloadsOf(t)') \in Nat
                /\ Cardinality(PayloadsOf(t)') <= Cardinality(PayloadsOf(t)) + 1
<1> DEFINE P == PayloadsOf(t)
           Q == PayloadsOf(t)'
<1>1. \A v : v \in P <=> \E x \in submitted : x[1] = t /\ x[2] = v
  BY DEF PayloadsOf
<1>2. \A v : v \in Q <=> \E x \in submitted' : x[1] = t /\ x[2] = v
  BY DEF PayloadsOf
<1> HIDE DEF P, Q
<1>3. PICK y : y = <<u, p>>
  OBVIOUS
<1>4. y[1] = u /\ y[2] = p
  BY <1>3
<1>5. \A v : v \in Q <=> v \in P \/ (t = u /\ v = p)
  BY <1>1, <1>2, <1>3, <1>4
<1>6. Q = IF t = u THEN P \cup {p} ELSE P
  <2>1. CASE t = u
    BY <1>5, <2>1
  <2>2. CASE t # u
    BY <1>5, <2>2
  <2> QED
    BY <2>1, <2>2
<1>7. ASSUME IsFiniteSet(P)
      PROVE  /\ IsFiniteSet(Q) /\ Cardinality(P) \in Nat /\ Cardinality(Q) \in Nat
             /\ Cardinality(Q) <= Cardinality(P) + 1
  <2>1. /\ Cardinality(P) \in Nat /\ IsFiniteSet(P \cup {p})
        /\ Cardinality(P \cup {p}) \in {Cardinality(P), Cardinality(P) + 1}
    BY <1>7, FS_AddElement, FS_CardinalityType
  <2> QED
    BY <1>6, <1>7, <2>1
<1> QED
  BY <1>6, <1>7 DEF P, Q

(* The node takes the payload the request owed. *)
LEMMA AcceptAudited ==
    ASSUME TypeOK, NEW r \in Request, Accept(r), NEW t \in Tx, NEW n \in Nat, Audited(t, n)
    PROVE  Audited(t, n)'
<1>1. PICK pc \in Unrecorded : To(r, pc)
  BY DEF Accept
<1>2. req'[r].pc # "committed" /\ \A q \in Request \ {r} : req'[q] = req[q]
  BY <1>1, ToKeeps, OthersKept DEF Unrecorded, Step
<1>3. Owing(t)' = Owing(t) \ {r}
  BY <1>2, OwingShrinks
<1>4. /\ submitted' = submitted \cup {<<req[r].tx, req[r].held>>}
      /\ log' = log
  BY DEF Accept, ledgerVars
<1>5. CountOf(t, "SIGNED")' = CountOf(t, "SIGNED") /\ CountOf(t, "SIGNED") \in Nat
  BY <1>4, CountTyped DEF CountOf
<1>7. CASE t = req[r].tx
  <2>1. r \in Owing(t)
    BY <1>7 DEF Owing, Accept
  <2>2. /\ IsFiniteSet(Owing(t)') /\ Cardinality(Owing(t)') = Cardinality(Owing(t)) - 1
        /\ Cardinality(Owing(t)) \in Nat
    BY <1>3, <2>1, FS_RemoveElement, FS_CardinalityType DEF Audited
  <2>3. /\ IsFiniteSet(PayloadsOf(t)')
        /\ Cardinality(PayloadsOf(t)) \in Nat /\ Cardinality(PayloadsOf(t)') \in Nat
        /\ Cardinality(PayloadsOf(t)') <= Cardinality(PayloadsOf(t)) + 1
    BY <1>4, PayloadsGrow DEF Audited
  <2> QED
    BY <1>5, <2>2, <2>3 DEF Audited
<1>8. CASE t # req[r].tx
  <2>1. PayloadsOf(t)' = PayloadsOf(t)
    BY <1>4, <1>8, PayloadsGrow
  <2> QED
    BY <1>3, <1>5, <2>1, AuditedKept
<1> QED
  BY <1>7, <1>8

(* Whatever others owe, the balance is kept. *)
LEMMA AuditedNext ==
    ASSUME TypeOK, [Next]_vars, NEW t \in Tx, NEW n \in Nat, Audited(t, n)
    PROVE  Audited(t, n)'
<1> USE DEF Busy, Active
<1>1. CountOf(t, "SIGNED") \in Nat
  BY CountTyped
<1>2. ASSUME UNCHANGED <<log, submitted>>, Owing(t)' \subseteq Owing(t) PROVE Audited(t, n)'
  BY <1>1, <1>2, AuditedKept DEF PayloadsOf, CountOf
<1>3. ASSUME NEW r \in Request, Start(r) PROVE Audited(t, n)'
  <2>1. PICK s \in Server, u \in Tx, o \in Operation, h \in Payload \cup {NoHash} :
            Load(r, s, u, o, h)
    BY <1>3 DEF Start, ProcessNext, ProcessWithdrawal, ReviewWithdrawal, Reconcile, Operation, TypeOK
  <2>2. req'[r].pc = "loaded" /\ UNCHANGED <<log, submitted>>
    BY <2>1 DEF Load, TypeOK, ledgerVars
  <2>3. Owing(t)' = Owing(t) \ {r}
    BY <1>3, <2>2, OthersKept, OwingShrinks
  <2> QED
    BY <1>2, <2>2, <2>3
<1>4. ASSUME NEW r \in Request, Step(r) \/ Abort(r), ~CommitSigned(r), ~Accept(r)
      PROVE  Audited(t, n)'
  <2>1. req'[r].pc # "committed" /\ submitted' = submitted
    <3>1. CASE Sign(r)
      BY <3>1, SignKeeps DEF Sign
    <3>2. CASE AwaitLock(r) \/ Refuse(r)
      BY <3>2, ToKeeps DEF AwaitLock, Refuse
    <3>3. CASE Leave(r) \/ Finish(r)
      BY <1>4, <3>3, LeaveEnds DEF Over, Idle, Step, Abort, AwaitLock, Sign, Refuse, BuildFails,
         CommitBroadcast, CommitFailed, CommitApprove, CommitReject, CommitReview, NoReceipt,
         Settle, PoolTimeout
    <3> QED
      BY <1>4, <3>1, <3>2, <3>3 DEF Step, Abort, BuildFails, CommitBroadcast, CommitFailed,
         CommitApprove, CommitReject, CommitReview, NoReceipt, Settle, PoolTimeout
  <2>2. Owing(t)' = Owing(t) \ {r}
    BY <1>4, <2>1, OthersKept, OwingShrinks
  <2>3. CASE UNCHANGED ledgerVars
    BY <1>2, <2>1, <2>2, <2>3 DEF ledgerVars
  <2>4. ASSUME NEW e, NEW s, NEW h, Commits(r, e, s, h) PROVE Audited(t, n)'
    <3>1. req[r].tx \in Tx
      BY <2>4, BusyRequest DEF Commits, TypeOK
    <3>2. CountOf(t, "SIGNED")' \in {CountOf(t, "SIGNED"), CountOf(t, "SIGNED") + 1}
      BY <1>1, <2>4, <3>1, CountGrows DEF Commits
    <3>3. PayloadsOf(t)' = PayloadsOf(t)
      BY <2>1 DEF PayloadsOf
    <3> QED
      BY <1>1, <2>2, <3>2, <3>3, AuditedKept
  <2> QED
    BY <1>4, <2>3, <2>4, StepLedger
<1>5. ASSUME NEW s \in Server, Crash(s) PROVE Audited(t, n)'
  <2>1. Owing(t)' \subseteq Owing(t)
    BY <1>5, CrashEnds DEF Owing, Over, Idle
  <2> QED
    BY <1>2, <1>5, <2>1 DEF Crash, ledgerVars
<1>6. CASE UNCHANGED <<log, submitted, req>>
  <2>1. Owing(t)' = Owing(t)
    BY <1>6 DEF Owing
  <2> QED
    BY <1>2, <1>6, <2>1
<1> QED
  BY <1>3, <1>4, <1>5, <1>6, SignAudited, AcceptAudited
     DEF Next, Step, RequestWithdrawal, Insert, InsertRow, ChainMoves, Quiescent, vars, ledgerVars

LEMMA AuditNext == TypeOK /\ AuditInv /\ [Next]_vars => AuditInv'
BY AuditedNext DEF AuditInv

(* process_pending commits SIGNED before it sends: a withdrawal has at most as
   many payloads as SIGNED audit rows, for any number of requests and servers
   that race on it, die or lose answers. *)
THEOREM PayloadsAudited == Spec => []SubmissionsAudited
<1>1. Init => AuditInv
  <2> SUFFICES ASSUME Init, NEW t \in Tx PROVE Audited(t, 0)
    BY DEF AuditInv
  <2>1. PayloadsOf(t) = {} /\ Owing(t) = {}
    BY DEF Init, PayloadsOf, Owing, Idle
  <2>2. CountOf(t, "SIGNED") = Cardinality({})
    BY DEF Init, LedgerInit, CountOf
  <2> QED
    BY <2>1, <2>2, FS_EmptySet DEF Audited
<1>2. TypeOK /\ AuditInv => SubmissionsAudited
  <2> SUFFICES ASSUME TypeOK, AuditInv, NEW t \in Tx
               PROVE  Cardinality(PayloadsOf(t)) <= CountOf(t, "SIGNED")
    BY DEF SubmissionsAudited
  <2>1. CountOf(t, "SIGNED") \in Nat /\ Audited(t, 0)
    BY CountTyped DEF AuditInv
  <2>2. Cardinality(PayloadsOf(t)) \in Nat /\ Cardinality(Owing(t)) \in Nat
    BY <2>1, FS_CardinalityType DEF Audited
  <2> QED
    BY <2>1, <2>2 DEF Audited
<1> QED
  BY <1>1, <1>2, AuditNext, TypeCorrect, PTL DEF Spec

-----------------------------------------------------------------------------
(* The inductive invariant.  SerialSpec only says when a request may start;
   what it buys is that a request's read is still true at each of its steps. *)

Alone ==
    \A q, r \in Request : Busy(q) /\ Busy(r) /\ req[q].tx = req[r].tx => q = r

Unsent(t) == \A x \in submitted : x[1] # t

InStep(r) ==
    /\ req[r].op = "process" /\ req[r].pc \in {"loaded", "waiting", "signed"} =>
            status[req[r].tx] = "PENDING"
    /\ req[r].pc \in {"committed", "sent", "refused"} => status[req[r].tx] = "SIGNED"
    /\ req[r].pc = "committed" => Unsent(req[r].tx)
    /\ req[r].pc \in Section => req[r].held.transfer = TransferOf[req[r].tx]
    /\ req[r].op \in {"approve", "reject"} => status[req[r].tx] = "PENDING_REVIEW"
    /\ req[r].op = "reconcile" =>
            status[req[r].tx] = "BROADCAST" /\ req[r].held = txHash[req[r].tx]

Sent == {"SIGNED", "BROADCAST", "SETTLED", "FAILED"}

SentInv ==
    /\ \A x, y \in submitted : x[1] = y[1] => x = y
    /\ \A x \in submitted : status[x[1]] \in Sent /\ x[2].transfer = TransferOf[x[1]]
    /\ \A t \in Tx : HasEvent(t, "REJECTED") => status[t] = "FAILED" /\ Unsent(t)

StepsInv == Alone /\ \A r \in Request : Busy(r) => InStep(r)

SerialInv == StepsInv /\ SentInv

SerialNext == Next /\ OneAtATime

(* Nothing is in service, nothing was sent. *)
LEMMA SerialInit == Init => SerialInv
BY DEF Init, LedgerInit, SerialInv, StepsInv, Alone, SentInv, HasEvent, Busy, Active, Idle

-----------------------------------------------------------------------------
(* A step of one request leaves the others in step, since they are on other
   withdrawals. *)
LEMMA Frame ==
    ASSUME TypeOK, StepsInv, NEW r \in Request, Busy(r),
           \A q \in Request \ {r} : req'[q] = req[q],
           req'[r] = Over \/ req'[r].tx = req[r].tx,
           \A t \in Tx \ {req[r].tx} : status'[t] = status[t] /\ txHash'[t] = txHash[t],
           \A x \in submitted' : x \in submitted \/ x[1] = req[r].tx,
           Busy(r)' => InStep(r)'
    PROVE  StepsInv'
<1>1. ASSUME NEW q \in Request, Busy(q)'
      PROVE  Busy(q) /\ req'[q].tx = req[q].tx
  <2>1. CASE q = r
    <3>1. req'[r] # Over
      BY <1>1, <2>1 DEF Busy, Active, Over, Idle
    <3> QED
      BY <2>1, <3>1
  <2>2. CASE q # r
    BY <1>1, <2>2 DEF Busy
  <2> QED
    BY <2>1, <2>2
<1>2. Alone'
  BY <1>1 DEF Alone, StepsInv
<1>3. ASSUME NEW q \in Request, Busy(q)' PROVE InStep(q)'
  <2>1. CASE q = r
    BY <1>3, <2>1
  <2>2. CASE q # r
    <3>1. Busy(q) /\ InStep(q) /\ req'[q] = req[q]
      BY <1>1, <1>3, <2>2 DEF StepsInv
    <3>2. req[q].tx # req[r].tx /\ req[q].tx \in Tx
      BY <2>2, <3>1, BusyRequest DEF StepsInv, Alone, TypeOK
    <3>3. status'[req[q].tx] = status[req[q].tx] /\ txHash'[req[q].tx] = txHash[req[q].tx]
      BY <3>2
    <3>4. Unsent(req[q].tx) => Unsent(req[q].tx)'
      BY <3>1, <3>2 DEF Unsent
    <3> QED
      BY <3>1, <3>3, <3>4 DEF InStep
  <2> QED
    BY <2>1, <2>2
<1> QED
  BY <1>2, <1>3 DEF StepsInv

(* The commit of a handler whose withdrawal has not failed. *)
LEMMA CommitSent ==
    ASSUME TypeOK, SentInv, NEW t \in Tx, NEW e \in EventType, NEW s \in Status,
           NEW h \in Payload \cup {NoHash},
           status' = [status EXCEPT ![t] = s], RecordEvent(t, e, s, h), UNCHANGED submitted,
           status[t] # "FAILED",
           s \in Sent \/ Unsent(t),
           e = "REJECTED" => s = "FAILED" /\ Unsent(t)
    PROVE  SentInv'
<1>1. ASSUME NEW x \in submitted PROVE status'[x[1]] \in Sent
  <2>1. x[1] \in Tx
    BY DEF TypeOK
  <2>2. CASE x[1] = t
    BY <2>1, <2>2 DEF Unsent, TypeOK
  <2>3. CASE x[1] # t
    BY <2>1, <2>3 DEF SentInv, TypeOK
  <2> QED
    BY <2>2, <2>3
<1>2. ASSUME NEW u \in Tx, HasEvent(u, "REJECTED")'
      PROVE  status'[u] = "FAILED" /\ Unsent(u)
  <2>1. HasEvent(u, "REJECTED") \/ (u = t /\ e = "REJECTED")
    BY <1>2, EventsKept
  <2>2. CASE HasEvent(u, "REJECTED")
    BY <2>2 DEF SentInv, TypeOK
  <2>3. CASE u = t /\ e = "REJECTED"
    BY <2>3 DEF TypeOK
  <2> QED
    BY <2>1, <2>2, <2>3
<1> QED
  BY <1>1, <1>2 DEF SentInv, Unsent

(* Nothing is sent or committed. *)
LEMMA NothingSent ==
    SentInv /\ UNCHANGED <<status, log, submitted>> => SentInv'
BY DEF SentInv, Unsent, HasEvent

-----------------------------------------------------------------------------
(* The steps, grouped by what they do. *)

(* A request that ends without a commit. *)
LEMMA EndSerial ==
    ASSUME TypeOK, SerialInv, NEW r \in Request, Busy(r), Leave(r) \/ Finish(r),
           UNCHANGED <<ledgerVars, submitted>>
    PROVE  SerialInv'
<1>1. req'[r] = Over /\ \A q \in Request \ {r} : req'[q] = req[q]
  BY LeaveEnds DEF Leave, Finish, TypeOK
<1>2. ~Busy(r)'
  BY <1>1 DEF Busy, Active, Over, Idle
<1>3. StepsInv'
  BY <1>1, <1>2, Frame DEF SerialInv, ledgerVars
<1> QED
  BY <1>3, NothingSent DEF SerialInv, ledgerVars

(* A handler's last commit: it ends its request. *)
LEMMA LastCommitSerial ==
    ASSUME TypeOK, SerialInv, NEW r \in Request, Busy(r), Leave(r) \/ Finish(r),
           NEW e \in EventType \ {"REJECTED"}, NEW s \in Status,
           NEW h \in Payload \cup {NoHash},
           status' = [status EXCEPT ![req[r].tx] = s], RecordEvent(req[r].tx, e, s, h),
           UNCHANGED submitted,
           \A t \in Tx \ {req[r].tx} : txHash'[t] = txHash[t],
           status[req[r].tx] # "FAILED",
           s \in Sent \/ Unsent(req[r].tx)
    PROVE  SerialInv'
<1>1. req'[r] = Over /\ \A q \in Request \ {r} : req'[q] = req[q]
  BY LeaveEnds DEF Leave, Finish, TypeOK
<1>2. ~Busy(r)'
  BY <1>1 DEF Busy, Active, Over, Idle
<1>3. req[r].tx \in Tx
  BY BusyRequest DEF TypeOK
<1>4. \A t \in Tx \ {req[r].tx} : status'[t] = status[t] /\ txHash'[t] = txHash[t]
  BY DEF TypeOK
<1>5. StepsInv'
  BY <1>1, <1>2, <1>4, Frame DEF SerialInv
<1>6. SentInv'
  BY <1>3, CommitSent DEF SerialInv
<1> QED
  BY <1>5, <1>6 DEF SerialInv

(* A withdrawal that waits for its review, or to be signed, was not sent. *)
LEMMA UnsentBefore ==
    ASSUME TypeOK, SentInv, NEW t \in Tx, status[t] \notin Sent
    PROVE  Unsent(t)
BY DEF SentInv, Unsent

(* process_pending, up to the commit of SIGNED. *)
LEMMA SigningSerial ==
    ASSUME TypeOK, SerialInv, NEW r \in Request, AwaitLock(r) \/ Sign(r) \/ CommitSigned(r)
    PROVE  SerialInv'
<1> USE DEF Busy, Active
<1>1. Busy(r) /\ InStep(r)
  BY DEF AwaitLock, Sign, CommitSigned, SerialInv, StepsInv
<1>2. req[r].tx \in Tx /\ req[r].op = "process"
  BY <1>1, BusyRequest DEF AwaitLock, Sign, CommitSigned, TypeOK, Section
<1>3. \A q \in Request \ {r} : req'[q] = req[q]
  BY OthersKept DEF Step
<1>4. status[req[r].tx] = "PENDING"
  BY <1>1, <1>2 DEF AwaitLock, Sign, CommitSigned, InStep
<1>5. CASE AwaitLock(r)
  <2>1. /\ req'[r].pc = "waiting" /\ req'[r].op = "process"
        /\ req'[r].tx = req[r].tx
    BY <1>2, <1>5, ToKeeps DEF AwaitLock
  <2>2. InStep(r)'
    BY <1>4, <1>5, <2>1 DEF InStep, AwaitLock, ledgerVars, Section
  <2>3. StepsInv'
    BY <1>1, <1>3, <1>5, <2>1, <2>2, Frame DEF SerialInv, AwaitLock, ledgerVars
  <2> QED
    BY <1>5, <2>3, NothingSent DEF SerialInv, AwaitLock, ledgerVars
<1>6. CASE Sign(r)
  <2>1. /\ req'[r].pc = "signed" /\ req'[r].op = "process"
        /\ req'[r].tx = req[r].tx
    BY <1>2, <1>6, SignKeeps
  <2>2. req'[r].held.transfer = TransferOf[req[r].tx]
    <3>1. req[r] \in RequestState
      BY DEF TypeOK
    <3>2. PICK f \in Fee : req'[r] = [req[r] EXCEPT !.pc = "signed",
              !.held = [nonce |-> NextNonce, transfer |-> TransferOf[req[r].tx], fee |-> f]]
      BY <1>6 DEF Sign, TypeOK
    <3> QED
      BY <3>1, <3>2 DEF RequestState, Coroutine, Idle, Over
  <2>3. InStep(r)'
    BY <1>4, <1>6, <2>1, <2>2 DEF InStep, Sign, ledgerVars, Section
  <2>4. StepsInv'
    BY <1>1, <1>3, <1>6, <2>1, <2>3, Frame DEF SerialInv, Sign, ledgerVars
  <2> QED
    BY <1>6, <2>4, NothingSent DEF SerialInv, Sign, ledgerVars
<1>7. CASE CommitSigned(r)
  <2>1. /\ req'[r].pc = "committed" /\ req'[r].op = "process"
        /\ req'[r].tx = req[r].tx /\ req'[r].held = req[r].held
    BY <1>2, <1>7, ToKeeps DEF CommitSigned
  <2>2. Unsent(req[r].tx)
    BY <1>2, <1>4, UnsentBefore DEF SerialInv, Sent
  <2>3. status' = [status EXCEPT ![req[r].tx] = "SIGNED"] /\ UNCHANGED <<txHash, submitted>>
    BY <1>7 DEF CommitSigned, UpdateStatus
  <2>4. req[r].held.transfer = TransferOf[req[r].tx]
    BY <1>1, <1>7 DEF InStep, CommitSigned, Section
  <2>5. status'[req[r].tx] = "SIGNED"
    BY <1>2, <2>3 DEF TypeOK
  <2>6. InStep(r)'
    BY <2>1, <2>2, <2>3, <2>4, <2>5 DEF InStep, Unsent
  <2>7. \A t \in Tx \ {req[r].tx} : status'[t] = status[t] /\ txHash'[t] = txHash[t]
    BY <2>3 DEF TypeOK
  <2>8. StepsInv'
    BY <1>1, <1>3, <2>1, <2>3, <2>6, <2>7, Frame DEF SerialInv
  <2>9. SentInv'
    BY <1>2, <1>4, <1>7, <2>2, <2>3, CommitSent
       DEF SerialInv, CommitSigned, UpdateStatus, EventType, Status
  <2> QED
    BY <2>8, <2>9 DEF SerialInv
<1> QED
  BY <1>5, <1>6, <1>7

(* The broadcast, and the commit of its outcome. *)
LEMMA SendingSerial ==
    ASSUME TypeOK, SerialInv, NEW r \in Request,
           Accept(r) \/ Refuse(r) \/ CommitBroadcast(r) \/ CommitFailed(r)
    PROVE  SerialInv'
<1> USE DEF Busy, Active
<1>1. Busy(r) /\ InStep(r) /\ req[r].pc \in Section
  BY DEF Accept, Refuse, CommitBroadcast, CommitFailed, SerialInv, StepsInv, Section
<1>2. req[r].tx \in Tx /\ req[r].op = "process" /\ req[r].held \in Payload
  BY <1>1, BusyRequest DEF TypeOK
<1>3. \A q \in Request \ {r} : req'[q] = req[q]
  BY OthersKept DEF Step
<1>4. status[req[r].tx] = "SIGNED" /\ req[r].held.transfer = TransferOf[req[r].tx]
  BY <1>1 DEF Accept, Refuse, CommitBroadcast, CommitFailed, InStep
<1>5. CASE Accept(r)
  <2>1. PICK pc \in Unrecorded : To(r, pc)
    BY <1>5 DEF Accept
  <2>2. /\ req'[r].pc \in Unrecorded /\ req'[r].op = "process"
        /\ req'[r].tx = req[r].tx /\ req'[r].held = req[r].held
    BY <1>2, <2>1, ToKeeps
  <2>3. InStep(r)'
    BY <1>4, <1>5, <2>2 DEF InStep, Accept, ledgerVars, Unrecorded
  <2>4. submitted' = submitted \cup {<<req[r].tx, req[r].held>>}
    BY <1>5 DEF Accept
  <2>5. StepsInv'
    BY <1>1, <1>3, <1>5, <2>2, <2>3, <2>4, Frame DEF SerialInv, Accept, ledgerVars
  <2>6. Unsent(req[r].tx)
    BY <1>1, <1>5 DEF InStep, Accept
  <2>7. ~HasEvent(req[r].tx, "REJECTED")
    BY <1>2, <1>4 DEF SerialInv, SentInv
  <2>8. SentInv'
    <3>1. UNCHANGED <<status, log>>
      BY <1>5 DEF Accept, ledgerVars
    <3>2. \A x, y \in submitted' : x[1] = y[1] => x = y
      BY <2>4, <2>6 DEF SerialInv, SentInv, Unsent
    <3>3. \A x \in submitted' : status'[x[1]] \in Sent /\ x[2].transfer = TransferOf[x[1]]
      BY <1>4, <2>4, <3>1 DEF SerialInv, SentInv, Sent
    <3>4. \A t \in Tx : HasEvent(t, "REJECTED")' => status'[t] = "FAILED" /\ Unsent(t)'
      BY <2>4, <2>7, <3>1 DEF SerialInv, SentInv, Unsent, HasEvent
    <3> QED
      BY <3>2, <3>3, <3>4 DEF SentInv
  <2> QED
    BY <2>5, <2>8 DEF SerialInv
<1>6. CASE Refuse(r)
  <2>1. /\ req'[r].pc = "refused" /\ req'[r].op = "process"
        /\ req'[r].tx = req[r].tx /\ req'[r].held = req[r].held
    BY <1>2, <1>6, ToKeeps DEF Refuse
  <2>2. InStep(r)'
    BY <1>4, <1>6, <2>1 DEF InStep, Refuse, ledgerVars
  <2>3. StepsInv'
    BY <1>1, <1>3, <1>6, <2>1, <2>2, Frame DEF SerialInv, Refuse, ledgerVars
  <2> QED
    BY <1>6, <2>3, NothingSent DEF SerialInv, Refuse, ledgerVars
<1>7. CASE CommitBroadcast(r)
  <2>1. \A t \in Tx \ {req[r].tx} : txHash'[t] = txHash[t]
    BY <1>7 DEF CommitBroadcast, UpdateBroadcast, TypeOK
  <2> QED
    BY <1>1, <1>2, <1>4, <1>7, <2>1, LastCommitSerial
       DEF CommitBroadcast, UpdateBroadcast, EventType, Status, Sent
<1>8. CASE CommitFailed(r)
  BY <1>1, <1>4, <1>8, LastCommitSerial
     DEF CommitFailed, UpdateStatus, EventType, Status, Sent
<1> QED
  BY <1>5, <1>6, <1>7, <1>8

(* Approval, rejection and reconciliation. *)
LEMMA ReviewSerial ==
    ASSUME TypeOK, SerialInv, NEW r \in Request,
           CommitApprove(r) \/ CommitReject(r) \/ Settle(r)
    PROVE  SerialInv'
<1> USE DEF Busy, Active
<1>1. Busy(r) /\ InStep(r)
  BY DEF CommitApprove, CommitReject, CommitReview, Settle, SerialInv, StepsInv
<1>2. req[r].tx \in Tx
  BY <1>1, BusyRequest DEF TypeOK
<1>3. CASE CommitApprove(r)
  <2>1. status[req[r].tx] = "PENDING_REVIEW"
    BY <1>1, <1>3 DEF CommitApprove, CommitReview, InStep
  <2>2. Unsent(req[r].tx)
    BY <1>2, <2>1, UnsentBefore DEF SerialInv, Sent
  <2> QED
    BY <1>1, <1>3, <2>1, <2>2, LastCommitSerial
       DEF CommitApprove, CommitReview, UpdateStatus, EventType, Status
<1>4. CASE CommitReject(r)
  <2>1. status[req[r].tx] = "PENDING_REVIEW"
    BY <1>1, <1>4 DEF CommitReject, CommitReview, InStep
  <2>2. Unsent(req[r].tx)
    BY <1>2, <2>1, UnsentBefore DEF SerialInv, Sent
  <2>3. req'[r] = Over /\ \A q \in Request \ {r} : req'[q] = req[q]
    BY <1>4, LeaveEnds DEF CommitReject, CommitReview, Finish, TypeOK
  <2>4. ~Busy(r)'
    BY <2>3 DEF Over, Idle
  <2>5. \A t \in Tx \ {req[r].tx} : status'[t] = status[t] /\ txHash'[t] = txHash[t]
    BY <1>4 DEF CommitReject, CommitReview, UpdateStatus, TypeOK
  <2>6. StepsInv'
    BY <1>1, <1>4, <2>3, <2>4, <2>5, Frame DEF SerialInv, CommitReject, CommitReview
  <2>7. SentInv'
    BY <1>2, <1>4, <2>1, <2>2, CommitSent
       DEF SerialInv, CommitReject, CommitReview, UpdateStatus, EventType, Status
  <2> QED
    BY <2>6, <2>7 DEF SerialInv
<1>5. CASE Settle(r)
  <2>1. status[req[r].tx] = "BROADCAST" /\ req[r].held \in Payload
    BY <1>1, <1>5, BusyRequest DEF Settle, InStep, TypeOK
  <2>2. CASE UpdateSettled(req[r].tx, req[r].held)
    BY <1>1, <1>5, <2>1, <2>2, LastCommitSerial
       DEF Settle, UpdateSettled, EventType, Status, Sent
  <2>3. CASE UpdateStatus(req[r].tx, "FAILED", "FAILED", req[r].held)
    BY <1>1, <1>5, <2>1, <2>3, LastCommitSerial
       DEF Settle, UpdateStatus, EventType, Status, Sent
  <2> QED
    BY <1>5, <2>2, <2>3 DEF Settle
<1> QED
  BY <1>3, <1>4, <1>5

(* A request starts on a withdrawal no other request is on, and finds the row
   in the status its handler tests. *)
LEMMA StartSerial ==
    ASSUME TypeOK, SerialInv, OneAtATime, NEW r \in Request, Start(r)
    PROVE  SerialInv'
<1>1. PICK s \in Server, t \in Tx, o \in Operation, h \in Payload \cup {NoHash} :
          /\ Load(r, s, t, o, h)
          /\ o = "process" => status[t] = "PENDING"
          /\ o \in {"approve", "reject"} => status[t] = "PENDING_REVIEW"
          /\ o = "reconcile" => status[t] = "BROADCAST" /\ h = txHash[t]
  BY DEF Start, ProcessNext, ProcessWithdrawal, ReviewWithdrawal, Reconcile, Operation, TypeOK
<1>2. /\ req[r].pc = "idle"
      /\ req'[r] = [pc |-> "loaded", op |-> o, tx |-> t, home |-> s, held |-> h]
      /\ \A q \in Request \ {r} : req'[q] = req[q]
      /\ UNCHANGED <<status, txHash, log, submitted>>
  BY <1>1 DEF Load, TypeOK, ledgerVars
<1>3. ASSUME NEW q \in Request \ {r}, Busy(q)' PROVE Busy(q) /\ req[q].tx # t
  BY <1>2, <1>3 DEF OneAtATime, Busy
<1>4. Alone'
  BY <1>2, <1>3 DEF Alone, SerialInv, StepsInv
<1>5. InStep(r)'
  BY <1>1, <1>2 DEF InStep, Section, Operation
<1>6. ASSUME NEW q \in Request \ {r}, Busy(q)' PROVE InStep(q)'
  <2>1. InStep(q) /\ req'[q] = req[q]
    BY <1>2, <1>3, <1>6 DEF SerialInv, StepsInv
  <2> QED
    BY <1>2, <2>1 DEF InStep, Unsent
<1> QED
  BY <1>2, <1>4, <1>5, <1>6, NothingSent DEF SerialInv, StepsInv

(* A server that dies takes its requests along and leaves the others in step. *)
LEMMA CrashSerial ==
    ASSUME TypeOK, SerialInv, NEW s \in Server, Crash(s)
    PROVE  SerialInv'
<1>1. UNCHANGED <<status, txHash, log, submitted>>
  BY DEF Crash, ledgerVars
<1>2. ASSUME NEW q \in Request, Busy(q)' PROVE Busy(q) /\ req'[q] = req[q]
  <2>1. req'[q] # Over
    BY <1>2 DEF Busy, Active, Over, Idle
  <2> QED
    BY <1>2, <2>1, CrashEnds DEF Busy
<1>3. Alone'
  BY <1>2 DEF Alone, SerialInv, StepsInv
<1>4. ASSUME NEW q \in Request, Busy(q)' PROVE InStep(q)'
  <2>1. InStep(q) /\ req'[q] = req[q]
    BY <1>2, <1>4 DEF SerialInv, StepsInv
  <2> QED
    BY <1>1, <2>1 DEF InStep, Unsent
<1> QED
  BY <1>1, <1>3, <1>4, NothingSent DEF SerialInv, StepsInv

(* Nobody knows of a withdrawal before its row is inserted. *)
LEMMA RequestSerial == TypeOK /\ SerialInv /\ RequestWithdrawal => SerialInv'
<1> SUFFICES ASSUME TypeOK, SerialInv, RequestWithdrawal PROVE SerialInv'
  OBVIOUS
<1>1. PICK u \in Tx, d \in Decision : Insert(u, d)
  BY DEF RequestWithdrawal
<1>2. /\ status[u] = "ABSENT"
      /\ \A t \in Tx \ {u} : status'[t] = status[t]
      /\ UNCHANGED <<txHash, log, req, submitted>>
  BY <1>1 DEF RequestWithdrawal, Insert, InsertRow, Exists, TypeOK
<1>3. Unsent(u)
  BY <1>2, UnsentBefore DEF SerialInv, Sent
<1>4. ASSUME NEW q \in Request, Busy(q) PROVE InStep(q) /\ req[q].tx # u
  <2>1. InStep(q)
    BY <1>4 DEF SerialInv, StepsInv
  <2> QED
    BY <1>2, <1>4, <2>1, BusyRequest DEF InStep, TypeOK, Busy, Active, Section
<1>5. StepsInv'
  <2>1. Alone'
    BY <1>2 DEF Alone, Busy, SerialInv, StepsInv
  <2>2. ASSUME NEW q \in Request, Busy(q)' PROVE InStep(q)'
    <3>1. Busy(q) /\ InStep(q) /\ req[q].tx # u /\ req[q].tx \in Tx
      BY <1>2, <1>4, <2>2, BusyRequest DEF Busy, TypeOK
    <3> QED
      BY <1>2, <3>1 DEF InStep, Unsent
  <2> QED
    BY <2>1, <2>2 DEF StepsInv
<1>6. SentInv'
  <2>1. \A x \in submitted : x[1] \in Tx /\ x[1] # u
    BY <1>3 DEF Unsent, TypeOK
  <2>2. ~HasEvent(u, "REJECTED")
    BY <1>2 DEF SerialInv, SentInv
  <2> QED
    BY <1>2, <2>1, <2>2 DEF SerialInv, SentInv, HasEvent, Unsent
<1> QED
  BY <1>5, <1>6 DEF SerialInv

(* SerialInv is inductive. *)
LEMMA SerialInvNext == TypeOK /\ SerialInv /\ [SerialNext]_vars => SerialInv'
<1> SUFFICES ASSUME TypeOK, SerialInv, [SerialNext]_vars PROVE SerialInv'
  OBVIOUS
<1>1. CASE RequestWithdrawal
  BY <1>1, RequestSerial
<1>2. ASSUME NEW r \in Request, Start(r), OneAtATime PROVE SerialInv'
  BY <1>2, StartSerial
<1>3. ASSUME NEW r \in Request, Step(r) \/ Abort(r) PROVE SerialInv'
  <2>1. CASE BuildFails(r) \/ NoReceipt(r) \/ PoolTimeout(r) \/ Abort(r)
    <3>1. Leave(r) \/ Finish(r)
      BY <2>1 DEF BuildFails, NoReceipt, PoolTimeout, Abort
    <3>2. Busy(r) /\ UNCHANGED <<ledgerVars, submitted>>
      BY <2>1 DEF BuildFails, NoReceipt, PoolTimeout, Abort, Busy, Active, Section, Unrecorded
    <3> QED
      BY <3>1, <3>2, EndSerial
  <2> QED
    BY <1>3, <2>1, SigningSerial, SendingSerial, ReviewSerial DEF Step
<1>4. ASSUME NEW s \in Server, Crash(s) PROVE SerialInv'
  BY <1>4, CrashSerial
<1>5. CASE UNCHANGED <<ledgerVars, req, submitted>>
  <2>1. StepsInv'
    BY <1>5 DEF SerialInv, StepsInv, Alone, Busy, InStep, Unsent, ledgerVars
  <2> QED
    BY <1>5, <2>1, NothingSent DEF SerialInv, ledgerVars
<1> QED
  BY <1>1, <1>2, <1>3, <1>4, <1>5 DEF SerialNext, Next, ChainMoves, Quiescent, vars

-----------------------------------------------------------------------------
(* What follows from SerialInv alone. *)

(* What was sent for a withdrawal, by the pairs of the history. *)
LEMMA SentPayloads ==
    ASSUME TypeOK, SentInv, NEW t \in Tx
    PROVE  /\ Unsent(t) <=> PayloadsOf(t) = {}
           /\ \A p : <<t, p>> \in submitted => PayloadsOf(t) = {p}
<1>1. \A x \in submitted : x = <<x[1], x[2]>>
  BY DEF TypeOK
<1>2. Unsent(t) <=> PayloadsOf(t) = {}
  BY DEF Unsent, PayloadsOf
<1>3. ASSUME NEW p, <<t, p>> \in submitted PROVE PayloadsOf(t) = {p}
  BY <1>1, <1>3 DEF PayloadsOf, SentInv
<1> QED
  BY <1>2, <1>3

(* However its servers die, its answers are lost and its operators retry, a
   withdrawal is sent to the node at most once, and never after a rejection, if
   the requests on it do not overlap. *)
THEOREM PaidOnce == SerialSpec => []PaidAtMostOnce
<1>1. TypeOK /\ SerialInv => PaidAtMostOnce
  <2> SUFFICES ASSUME TypeOK, SerialInv, NEW t \in Tx
               PROVE  /\ Cardinality(PayloadsOf(t)) <= 1
                      /\ HasEvent(t, "REJECTED") => PayloadsOf(t) = {}
    BY DEF PaidAtMostOnce
  <2>1. HasEvent(t, "REJECTED") => PayloadsOf(t) = {}
    BY SentPayloads DEF SerialInv, SentInv
  <2>2. CASE Unsent(t)
    <3>1. PayloadsOf(t) = {}
      BY <2>2, SentPayloads DEF SerialInv
    <3> QED
      BY <2>1, <3>1, FS_EmptySet
  <2>3. CASE ~Unsent(t)
    <3>1. PICK x \in submitted : x[1] = t
      BY <2>3 DEF Unsent
    <3>2. x = <<x[1], x[2]>>
      BY DEF TypeOK
    <3>3. PayloadsOf(t) = {x[2]}
      BY <3>1, <3>2, SentPayloads DEF SerialInv
    <3>4. Cardinality({x[2]}) = 1
      BY FS_Singleton
    <3> QED
      BY <2>1, <3>3, <3>4
  <2> QED
    BY <2>2, <2>3
<1>2. TypeOK /\ [SerialNext]_vars => TypeOK'
  BY NextTyped DEF SerialNext
<1> QED
  BY <1>1, <1>2, InitTyped, SerialInit, SerialInvNext, PTL DEF SerialSpec, SerialNext

(* No handler moves a withdrawal back or past a stage. *)
LEMMA StepEdge ==
    ASSUME TypeOK, SerialInv, NEW r \in Request, Step(r) \/ Abort(r)
    PROVE  \/ status' = status
           \/ \E s : /\ status' = [status EXCEPT ![req[r].tx] = s]
                     /\ req[r].tx \in Tx
                     /\ <<status[req[r].tx], s>> \in Edge
<1> USE DEF Busy, Active
<1>1. Busy(r) /\ InStep(r) /\ req[r].tx \in Tx
  BY StepRequest, BusyRequest DEF SerialInv, StepsInv, TypeOK
<1>2. CASE CommitSigned(r)
  <2>1. status[req[r].tx] = "PENDING"
    BY <1>1, <1>2, BusyRequest DEF CommitSigned, InStep, Section, TypeOK
  <2> QED
    BY <1>1, <1>2, <2>1 DEF CommitSigned, UpdateStatus, Edge
<1>3. CASE CommitBroadcast(r)
  BY <1>1, <1>3 DEF CommitBroadcast, UpdateBroadcast, InStep, Edge
<1>4. CASE CommitFailed(r)
  BY <1>1, <1>4 DEF CommitFailed, UpdateStatus, InStep, Edge
<1>5. CASE CommitApprove(r) \/ CommitReject(r)
  BY <1>1, <1>5 DEF CommitApprove, CommitReject, CommitReview, UpdateStatus, InStep, Edge
<1>6. CASE Settle(r)
  BY <1>1, <1>6 DEF Settle, UpdateSettled, UpdateStatus, InStep, Edge
<1>7. CASE \/ AwaitLock(r) \/ Sign(r) \/ BuildFails(r) \/ Accept(r) \/ Refuse(r)
           \/ NoReceipt(r) \/ PoolTimeout(r) \/ Abort(r)
  BY <1>7 DEF AwaitLock, Sign, BuildFails, Accept, Refuse, NoReceipt, PoolTimeout, Abort,
     ledgerVars
<1> QED
  BY <1>2, <1>3, <1>4, <1>5, <1>6, <1>7 DEF Step

(* If the requests on one withdrawal do not overlap, the status column moves along
   the edges of README.md:9-12, or to FAILED from SIGNED and BROADCAST, only. *)
THEOREM StatusForward == SerialSpec => LifecycleEdges
<1> DEFINE Moves ==
        \A t \in Tx : status'[t] # status[t] => <<status[t], status'[t]>> \in Edge
<1>1. TypeOK /\ SerialInv /\ [SerialNext]_vars => [Moves]_status
  <2> SUFFICES ASSUME TypeOK, SerialInv, Next PROVE Moves \/ status' = status
    BY DEF SerialNext, vars, ledgerVars
  <2>1. CASE RequestWithdrawal
    <3>1. PICK u \in Tx, d \in Decision : Insert(u, d)
      BY <2>1 DEF RequestWithdrawal
    <3>2. InitialStatus(d) \in {"PENDING", "PENDING_REVIEW", "FAILED"}
      BY DEF InitialStatus, Decision
    <3>3. status[u] = "ABSENT" /\ status' = [status EXCEPT ![u] = InitialStatus(d)]
      BY <3>1 DEF Insert, InsertRow, Exists
    <3> QED
      BY <3>2, <3>3 DEF Edge, TypeOK
  <2>2. ASSUME NEW r \in Request, Step(r) \/ Abort(r) PROVE Moves \/ status' = status
    BY <2>2, StepEdge DEF TypeOK
  <2> QED
    BY <2>1, <2>2 DEF Next, Start, ProcessNext, ProcessWithdrawal, ReviewWithdrawal,
       Reconcile, Load, Crash, ChainMoves, Quiescent, vars, ledgerVars
<1>2. TypeOK /\ [SerialNext]_vars => TypeOK'
  BY NextTyped DEF SerialNext
<1> QED
  BY <1>1, <1>2, InitTyped, SerialInit, SerialInvNext, PTL
     DEF SerialSpec, SerialNext, LifecycleEdges

-----------------------------------------------------------------------------
(* Outcomes. *)

Concluded == {"BROADCAST", "SETTLED", "FAILED"}

(* The strengthening of OutcomeIsOnChain: what a row was before it ended. *)
OutcomeInv ==
    /\ \A t \in Tx : settledAt[t] => status[t] = "SETTLED"
    /\ \A t \in Tx : HasEvent(t, "BROADCAST") => status[t] \in Concluded
    /\ OutcomeIsOnChain

(* A commit that keeps the row it commits right keeps OutcomeInv. *)
LEMMA CommitOutcome ==
    ASSUME TypeOK, OutcomeInv, NEW t \in Tx, NEW e \in EventType, NEW s \in Status,
           NEW h \in Payload \cup {NoHash},
           status' = [status EXCEPT ![t] = s], RecordEvent(t, e, s, h), UNCHANGED receipts,
           \A u \in Tx \ {t} : txHash'[u] = txHash[u] /\ settledAt'[u] = settledAt[u],
           settledAt'[t] => s = "SETTLED",
           HasEvent(t, "BROADCAST") \/ e = "BROADCAST" =>
                s \in Concluded /\ (s = "FAILED" => HasReceipt(txHash'[t], FALSE)),
           s = "SETTLED" => HasReceipt(txHash'[t], TRUE) /\ settledAt'[t]
    PROVE  OutcomeInv'
<1> SUFFICES ASSUME NEW u \in Tx
             PROVE  /\ settledAt'[u] => status'[u] = "SETTLED"
                    /\ HasEvent(u, "BROADCAST")' => status'[u] \in Concluded
                    /\ status'[u] = "SETTLED" => HasReceipt(txHash[u], TRUE)' /\ settledAt'[u]
                    /\ status'[u] = "FAILED" /\ HasEvent(u, "BROADCAST")' =>
                            HasReceipt(txHash[u], FALSE)' /\ ~settledAt'[u]
  BY DEF OutcomeInv, OutcomeIsOnChain, HasReceipt, HasEvent
<1>1. HasEvent(u, "BROADCAST")' <=> HasEvent(u, "BROADCAST") \/ (u = t /\ e = "BROADCAST")
  BY EventsKept
<1>2. CASE u = t
  BY <1>1, <1>2 DEF TypeOK, HasReceipt
<1>3. CASE u # t
  <2>1. status'[u] = status[u]
    BY <1>3 DEF TypeOK
  <2> QED
    BY <1>1, <1>3, <2>1 DEF OutcomeInv, OutcomeIsOnChain, HasReceipt
<1> QED
  BY <1>2, <1>3

(* So does one that neither broadcasts nor settles, of a row that was never broadcast. *)
LEMMA CommitBefore ==
    ASSUME TypeOK, OutcomeInv, NEW t \in Tx, NEW e \in EventType, NEW s \in Status,
           NEW h \in Payload \cup {NoHash}, UpdateStatus(t, e, s, h), UNCHANGED receipts,
           ~settledAt[t], ~HasEvent(t, "BROADCAST"), e # "BROADCAST", s # "SETTLED"
    PROVE  OutcomeInv'
<1>1. /\ status' = [status EXCEPT ![t] = s] /\ RecordEvent(t, e, s, h)
      /\ UNCHANGED <<txHash, settledAt>>
  BY DEF UpdateStatus
<1>2. \A u \in Tx \ {t} : txHash'[u] = txHash[u] /\ settledAt'[u] = settledAt[u]
  BY <1>1
<1>3. ~settledAt'[t]
  BY <1>1
<1> QED
  BY <1>1, <1>2, <1>3, CommitOutcome

(* The commits of the handlers are such. *)
LEMMA StepOutcome ==
    ASSUME TypeOK, SerialInv, OutcomeInv, NEW r \in Request,
           \/ CommitSigned(r) \/ CommitBroadcast(r) \/ CommitFailed(r)
           \/ CommitApprove(r) \/ CommitReject(r) \/ Settle(r)
    PROVE  OutcomeInv'
<1> USE DEF Busy, Active, EventType, Status
<1>1. Busy(r)
  BY DEF CommitSigned, CommitBroadcast, CommitFailed, CommitApprove, CommitReject,
     CommitReview, Settle
<1>2. InStep(r)
  BY <1>1 DEF SerialInv, StepsInv
<1>3. PICK t \in Tx : t = req[r].tx
  BY <1>1, BusyRequest DEF TypeOK
<1>4. UNCHANGED receipts
  BY DEF CommitSigned, CommitBroadcast, CommitFailed, CommitApprove, CommitReject,
     CommitReview, Settle, chainVars
<1>5. status[t] \in {"PENDING", "PENDING_REVIEW", "SIGNED"} =>
          ~settledAt[t] /\ ~HasEvent(t, "BROADCAST")
  BY DEF OutcomeInv, Concluded
<1>6. CASE CommitSigned(r)
  <2>1. status[t] = "PENDING"
    BY <1>1, <1>2, <1>3, <1>6, BusyRequest DEF CommitSigned, InStep, Section, TypeOK
  <2>2. ~settledAt[t] /\ ~HasEvent(t, "BROADCAST")
    BY <1>5, <2>1
  <2> QED
    BY <1>3, <1>4, <1>6, <2>2, CommitBefore DEF CommitSigned
<1>7. CASE CommitBroadcast(r)
  <2>1. status[t] = "SIGNED" /\ req[r].held \in Payload
    BY <1>1, <1>2, <1>3, <1>7, BusyRequest DEF CommitBroadcast, InStep, Section, TypeOK
  <2>2. /\ status' = [status EXCEPT ![t] = "BROADCAST"]
        /\ RecordEvent(t, "BROADCAST", "BROADCAST", req[r].held)
        /\ txHash' = [txHash EXCEPT ![t] = req[r].held] /\ settledAt' = settledAt
    BY <1>3, <1>7 DEF CommitBroadcast, UpdateBroadcast
  <2>3. \A u \in Tx \ {t} : txHash'[u] = txHash[u] /\ settledAt'[u] = settledAt[u]
    BY <2>2 DEF TypeOK
  <2>4. ~settledAt'[t]
    BY <1>5, <2>1, <2>2
  <2>5. "BROADCAST" \in EventType /\ "BROADCAST" \in Status /\ "BROADCAST" \in Concluded
    BY DEF Concluded
  <2> HIDE DEF EventType, Status
  <2> QED
    BY <1>4, <2>1, <2>2, <2>3, <2>4, <2>5, CommitOutcome
<1>8. CASE CommitFailed(r)
  <2>1. status[t] = "SIGNED"
    BY <1>2, <1>3, <1>8 DEF CommitFailed, InStep
  <2> QED
    BY <1>3, <1>4, <1>5, <1>8, <2>1, CommitOutcome DEF CommitFailed, UpdateStatus, Concluded
<1>9. CASE CommitApprove(r) \/ CommitReject(r)
  <2>1. status[t] = "PENDING_REVIEW"
    BY <1>2, <1>3, <1>9 DEF CommitApprove, CommitReject, CommitReview, InStep
  <2>2. ~settledAt[t] /\ ~HasEvent(t, "BROADCAST")
    BY <1>5, <2>1
  <2>3. \/ UpdateStatus(t, "APPROVED", "PENDING", NoHash)
        \/ UpdateStatus(t, "REJECTED", "FAILED", NoHash)
    BY <1>3, <1>9 DEF CommitApprove, CommitReject, CommitReview
  <2> QED
    BY <1>4, <2>2, <2>3, CommitBefore
<1>10. CASE Settle(r)
  <2>1. req[r].held \in Payload /\ status[t] = "BROADCAST" /\ req[r].held = txHash[t]
    BY <1>1, <1>2, <1>3, <1>10, BusyRequest DEF Settle, InStep, TypeOK
  <2>2. ~settledAt[t]
    BY <2>1 DEF OutcomeInv
  <2>3. CASE HasReceipt(req[r].held, TRUE) /\ UpdateSettled(req[r].tx, req[r].held)
    BY <1>3, <1>4, <2>1, <2>3, CommitOutcome DEF UpdateSettled, Concluded, TypeOK
  <2>4. CASE /\ HasReceipt(req[r].held, FALSE)
             /\ UpdateStatus(req[r].tx, "FAILED", "FAILED", req[r].held)
    BY <1>3, <1>4, <2>1, <2>2, <2>4, CommitOutcome DEF UpdateStatus, Concluded
  <2> QED
    BY <1>10, <2>3, <2>4 DEF Settle
<1> QED
  BY <1>6, <1>7, <1>8, <1>9, <1>10

(* OutcomeInv is inductive. *)
LEMMA OutcomeNext == TypeOK /\ SerialInv /\ OutcomeInv /\ [SerialNext]_vars => OutcomeInv'
<1> SUFFICES ASSUME TypeOK, SerialInv, OutcomeInv, [Next]_vars PROVE OutcomeInv'
  BY DEF SerialNext
<1>1. CASE RequestWithdrawal
  <2>1. PICK t \in Tx, d \in Decision : Insert(t, d)
    BY <1>1 DEF RequestWithdrawal
  <2>2. /\ status[t] = "ABSENT" /\ status' = [status EXCEPT ![t] = InitialStatus(d)]
        /\ UNCHANGED <<txHash, settledAt, log, receipts>>
    BY <1>1, <2>1 DEF RequestWithdrawal, Insert, InsertRow, Exists, chainVars
  <2>3. InitialStatus(d) # "SETTLED"
    BY DEF InitialStatus, Decision
  <2>4. ~settledAt[t] /\ ~HasEvent(t, "BROADCAST")
    BY <2>2 DEF OutcomeInv, Concluded
  <2> QED
    BY <2>2, <2>3, <2>4 DEF OutcomeInv, OutcomeIsOnChain, HasEvent, HasReceipt, TypeOK
<1>2. UNCHANGED ledgerVars => OutcomeInv'
  <2>1. receipts \subseteq receipts'
    BY HistoryGrows
  <2> QED
    BY <2>1 DEF OutcomeInv, OutcomeIsOnChain, HasEvent, HasReceipt, ledgerVars
<1>3. ASSUME NEW r \in Request, Step(r) \/ Abort(r) PROVE OutcomeInv'
  BY <1>2, <1>3, StepOutcome DEF Step, AwaitLock, Sign, BuildFails, Accept, Refuse,
     NoReceipt, PoolTimeout, Abort
<1> QED
  BY <1>1, <1>2, <1>3 DEF Next, Start, ProcessNext, ProcessWithdrawal, ReviewWithdrawal,
     Reconcile, Load, Crash, ChainMoves, Quiescent, vars

(* SETTLED and a FAILED that follows BROADCAST say what the chain says, if the
   requests on one withdrawal do not overlap. *)
THEOREM OutcomesTrue == SerialSpec => []OutcomeIsOnChain
<1>1. Init => OutcomeInv
  BY DEF Init, LedgerInit, OutcomeInv, OutcomeIsOnChain, HasEvent
<1>2. OutcomeInv => OutcomeIsOnChain
  BY DEF OutcomeInv
<1>3. TypeOK /\ [SerialNext]_vars => TypeOK'
  BY NextTyped DEF SerialNext
<1> QED
  BY <1>1, <1>2, <1>3, InitTyped, SerialInit, SerialInvNext, OutcomeNext, PTL
     DEF SerialSpec, SerialNext

-----------------------------------------------------------------------------
(* Short sequences, a row at a time. *)

(* A row more, at the end of a list of three or less. *)
LEMMA ListsGrow ==
    ASSUME NEW S, NEW a \in S, NEW b \in S, NEW c \in S
    PROVE  /\ Append(<<>>, a) = <<a>>
           /\ Append(<<a>>, b) = <<a, b>>
           /\ Append(<<a, b>>, c) = <<a, b, c>>
<1>1. <<a>> \in Seq(S) /\ <<a, b>> \in Seq(S) /\ <<a, b, c>> \in Seq(S)
  OBVIOUS
<1>2. Append(<<a>>, b) = <<a, b>>
  <2>1. Append(<<a>>, b) \in Seq(S) /\ Len(Append(<<a>>, b)) = Len(<<a, b>>)
    BY <1>1
  <2>2. \A i \in 1 .. 2 : Append(<<a>>, b)[i] = <<a, b>>[i]
    OBVIOUS
  <2> QED
    BY <1>1, <2>1, <2>2, SeqEqual
<1>3. Append(<<a, b>>, c) = <<a, b, c>>
  <2>1. Append(<<a, b>>, c) \in Seq(S) /\ Len(Append(<<a, b>>, c)) = Len(<<a, b, c>>)
    BY <1>1
  <2>2. \A i \in 1 .. 3 : Append(<<a, b>>, c)[i] = <<a, b, c>>[i]
    OBVIOUS
  <2> QED
    BY <1>1, <2>1, <2>2, SeqEqual
<1>4. Append(<<>>, a) = <<a>>
  OBVIOUS
<1> QED
  BY <1>2, <1>3, <1>4

(* A row more after two stories is a row more of the second. *)
LEMMA ConcatAppend ==
    ASSUME NEW S, NEW s \in Seq(S), NEW u \in Seq(S), NEW e \in S
    PROVE  s \o Append(u, e) = Append(s \o u, e)
<1>1. Len(s) \in Nat /\ Len(u) \in Nat
  OBVIOUS
<1>2. /\ Append(u, e) \in Seq(S) /\ Len(Append(u, e)) = Len(u) + 1
      /\ \A i \in 1 .. Len(u) + 1 : Append(u, e)[i] = IF i <= Len(u) THEN u[i] ELSE e
  OBVIOUS
<1>3. /\ s \o u \in Seq(S) /\ Len(s \o u) = Len(s) + Len(u)
      /\ \A i \in 1 .. Len(s) + Len(u) : (s \o u)[i] = IF i <= Len(s) THEN s[i] ELSE u[i - Len(s)]
  BY ConcatProperties
<1>4. /\ s \o Append(u, e) \in Seq(S) /\ Len(s \o Append(u, e)) = Len(s) + Len(u) + 1
      /\ \A i \in 1 .. Len(s) + Len(u) + 1 :
            (s \o Append(u, e))[i] = IF i <= Len(s) THEN s[i] ELSE Append(u, e)[i - Len(s)]
  <2> DEFINE v == Append(u, e)
  <2> HIDE DEF v
  <2>1. v \in Seq(S) /\ Len(v) = Len(u) + 1
    BY <1>2 DEF v
  <2>2. /\ s \o v \in Seq(S) /\ Len(s \o v) = Len(s) + Len(v)
        /\ \A i \in 1 .. Len(s) + Len(v) :
                (s \o v)[i] = IF i <= Len(s) THEN s[i] ELSE v[i - Len(s)]
    BY <2>1, ConcatProperties
  <2>3. Len(s) + Len(v) = Len(s) + Len(u) + 1
    BY <1>1, <2>1
  <2> QED
    BY <2>2, <2>3 DEF v
<1>5. /\ Append(s \o u, e) \in Seq(S) /\ Len(Append(s \o u, e)) = Len(s) + Len(u) + 1
      /\ \A i \in 1 .. Len(s) + Len(u) + 1 :
            Append(s \o u, e)[i] = IF i <= Len(s) + Len(u) THEN (s \o u)[i] ELSE e
  BY <1>1, <1>3
<1>6. \A i \in 1 .. Len(s) + Len(u) + 1 : (s \o Append(u, e))[i] = Append(s \o u, e)[i]
  BY <1>1, <1>2, <1>3, <1>4, <1>5
<1> QED
  BY <1>4, <1>5, <1>6, SeqEqual

-----------------------------------------------------------------------------
(* The inductive invariant: the status tells how far the story has come. *)

Begun(d) == IF d = "CHALLENGE" THEN <<"APPROVED">> ELSE <<>>
Signed(d) == Append(Begun(d), "SIGNED")
Sending(d) == Append(Signed(d), "BROADCAST")

Story(d, s, events) ==
    /\ events \in Trail[d]
    /\ s = "ABSENT" => events = <<>>
    /\ s = "PENDING_REVIEW" => d = "CHALLENGE" /\ events = <<>>
    /\ s = "PENDING" => d # "BLOCK" /\ events = Begun(d)
    /\ s = "SIGNED" => d # "BLOCK" /\ events = Signed(d)
    /\ s = "BROADCAST" => d # "BLOCK" /\ events = Sending(d)

StoryInv == \A t \in Tx : Story(decision[t], status[t], EventsOf(t))

(* The trails of an allowed withdrawal after its review, if it had one. *)
AfterReview == {<<"SIGNED">>, <<"SIGNED", "FAILED">>, <<"SIGNED", "BROADCAST">>}
         \cup {<<"SIGNED", "BROADCAST", e>> : e \in {"SETTLED", "FAILED"}}

(* The legal trails, a row at a time. *)
LEMMA TrailsGrow ==
    /\ \A d \in Decision : <<>> \in Trail[d]
    /\ Append(<<>>, "REJECTED") \in Trail["CHALLENGE"]
    /\ Append(<<>>, "APPROVED") = Begun("CHALLENGE")
    /\ \A d \in Decision \ {"BLOCK"} :
        /\ Begun(d) \in Trail[d]
        /\ Signed(d) \in Trail[d]
        /\ Sending(d) \in Trail[d]
        /\ Append(Signed(d), "FAILED") \in Trail[d]
        /\ \A e \in {"SETTLED", "FAILED"} : Append(Sending(d), e) \in Trail[d]
<1>1. /\ Trail["ALLOW"] = {<<>>} \cup AfterReview
      /\ Trail["CHALLENGE"] = {<<>>, <<"REJECTED">>, <<"APPROVED">>}
                       \cup {<<"APPROVED">> \o s : s \in AfterReview}
      /\ Trail["BLOCK"] = {<<>>}
  BY DEF Trail, AfterReview
<1>2. /\ Append(<<>>, "REJECTED") = <<"REJECTED">> /\ Append(<<>>, "APPROVED") = <<"APPROVED">>
      /\ Append(<<>>, "SIGNED") = <<"SIGNED">>
      /\ Append(<<"SIGNED">>, "FAILED") = <<"SIGNED", "FAILED">>
      /\ Append(<<"SIGNED">>, "BROADCAST") = <<"SIGNED", "BROADCAST">>
      /\ Append(<<"SIGNED", "BROADCAST">>, "SETTLED") = <<"SIGNED", "BROADCAST", "SETTLED">>
      /\ Append(<<"SIGNED", "BROADCAST">>, "FAILED") = <<"SIGNED", "BROADCAST", "FAILED">>
  <2>1. ASSUME NEW a \in EventType, NEW b \in EventType, NEW c \in EventType
        PROVE  /\ Append(<<>>, a) = <<a>> /\ Append(<<a>>, b) = <<a, b>>
               /\ Append(<<a, b>>, c) = <<a, b, c>>
    BY ListsGrow, Zenon
  <2> QED
    BY <2>1 DEF EventType
<1> DEFINE one == Append(<<>>, "SIGNED")
           two == Append(one, "BROADCAST")
<1>3. /\ one \in AfterReview /\ Append(one, "FAILED") \in AfterReview /\ two \in AfterReview
      /\ Append(two, "SETTLED") \in AfterReview /\ Append(two, "FAILED") \in AfterReview
  BY <1>2 DEF AfterReview
<1>4. /\ one \in Seq(EventType) /\ two \in Seq(EventType) /\ <<"APPROVED">> \in Seq(EventType)
      /\ <<>> \in Seq(EventType)
  <2>1. <<>> \in Seq(EventType)
    BY EmptySeq
  <2>2. one \in Seq(EventType)
    BY <2>1 DEF EventType
  <2>3. two \in Seq(EventType)
    <3> HIDE DEF one
    <3> QED
      BY <2>2 DEF EventType
  <2>4. <<"APPROVED">> \in Seq(EventType)
    BY DEF EventType
  <2> QED
    BY <2>1, <2>2, <2>3, <2>4
<1>5. /\ <<"APPROVED">> \o one = Append(<<"APPROVED">>, "SIGNED")
      /\ <<"APPROVED">> \o Append(one, "FAILED") = Append(<<"APPROVED">> \o one, "FAILED")
      /\ <<"APPROVED">> \o two = Append(<<"APPROVED">> \o one, "BROADCAST")
      /\ \A e \in EventType : <<"APPROVED">> \o Append(two, e) = Append(<<"APPROVED">> \o two, e)
  <2> HIDE DEF two
  <2>1. <<"APPROVED">> \o one = Append(<<"APPROVED">>, "SIGNED")
    <3>1. <<"APPROVED">> \o one = Append(<<"APPROVED">> \o <<>>, "SIGNED")
      BY <1>4, ConcatAppend DEF EventType
    <3>2. <<"APPROVED">> \o <<>> = <<"APPROVED">>
      BY <1>4, ConcatEmptySeq
    <3> QED
      BY <3>1, <3>2
  <2> HIDE DEF one
  <2>2. <<"APPROVED">> \o Append(one, "FAILED") = Append(<<"APPROVED">> \o one, "FAILED")
    BY <1>4, ConcatAppend DEF EventType
  <2>3. <<"APPROVED">> \o two = Append(<<"APPROVED">> \o one, "BROADCAST")
    BY <1>4, ConcatAppend DEF EventType, two
  <2>4. \A e \in EventType : <<"APPROVED">> \o Append(two, e) = Append(<<"APPROVED">> \o two, e)
    BY <1>4, ConcatAppend
  <2> QED
    BY <2>1, <2>2, <2>3, <2>4
<1>6. /\ Begun("ALLOW") = <<>> /\ Signed("ALLOW") = one /\ Sending("ALLOW") = two
  BY DEF Begun, Signed, Sending
<1>7. /\ Begun("CHALLENGE") = <<"APPROVED">> /\ Signed("CHALLENGE") = <<"APPROVED">> \o one
      /\ Sending("CHALLENGE") = <<"APPROVED">> \o two
  BY <1>5 DEF Begun, Signed, Sending
<1> HIDE DEF one, two
<1>8. \A s \in AfterReview : s \in Trail["ALLOW"] /\ <<"APPROVED">> \o s \in Trail["CHALLENGE"]
  BY <1>1
<1>9. ASSUME NEW d \in {"ALLOW", "CHALLENGE"}
      PROVE  /\ Begun(d) \in Trail[d] /\ Signed(d) \in Trail[d] /\ Sending(d) \in Trail[d]
             /\ Append(Signed(d), "FAILED") \in Trail[d]
             /\ Append(Sending(d), "SETTLED") \in Trail[d]
             /\ Append(Sending(d), "FAILED") \in Trail[d]
  <2>1. CASE d = "ALLOW"
    BY <1>1, <1>3, <1>6, <1>8, <2>1
  <2>2. CASE d = "CHALLENGE"
    <3>1. <<"APPROVED">> \in Trail["CHALLENGE"]
      BY <1>1
    <3>2. /\ Append(<<"APPROVED">> \o one, "FAILED") \in Trail["CHALLENGE"]
          /\ Append(<<"APPROVED">> \o two, "SETTLED") \in Trail["CHALLENGE"]
          /\ Append(<<"APPROVED">> \o two, "FAILED") \in Trail["CHALLENGE"]
      BY <1>3, <1>5, <1>8 DEF EventType
    <3>3. <<"APPROVED">> \o one \in Trail["CHALLENGE"] /\ <<"APPROVED">> \o two \in Trail["CHALLENGE"]
      BY <1>3, <1>8
    <3> QED
      BY <1>7, <2>2, <3>1, <3>2, <3>3
  <2> QED
    BY <2>1, <2>2
<1>10. \A d \in Decision : <<>> \in Trail[d]
  BY <1>1 DEF Decision
<1> QED
  BY <1>1, <1>2, <1>7, <1>9, <1>10 DEF Decision

(* A commit adds its event to the events of its withdrawal. *)
LEMMA EventsGrow ==
    ASSUME TypeOK, NEW t \in Tx, NEW e \in EventType, NEW s \in Status,
           NEW h \in Payload \cup {NoHash}, RecordEvent(t, e, s, h)
    PROVE  /\ EventsOf(t)' = Append(EventsOf(t), e)
           /\ \A u \in Tx \ {t} : EventsOf(u)' = EventsOf(u)
<1>1. /\ \A u \in Tx \ {t} : log'[u] = log[u]
      /\ Len(log'[t]) = Len(log[t]) + 1
      /\ DOMAIN log'[t] = 1 .. Len(log[t]) + 1
      /\ \A i \in DOMAIN log[t] : log'[t][i] = log[t][i]
      /\ log'[t][Len(log[t]) + 1] = [event |-> e, status |-> s, hash |-> h]
  BY RecordAppends
<1>2. log[t] \in Seq(Event) /\ Len(log[t]) \in Nat /\ DOMAIN log[t] = 1 .. Len(log[t])
  BY LenProperties DEF TypeOK
<1>3. \A i \in 1 .. Len(log[t]) : log[t][i].event \in EventType
  <2>1. log[t] \in [1 .. Len(log[t]) -> Event]
    BY <1>2, LenProperties
  <2> QED
    BY <2>1 DEF Event
<1> DEFINE n == Len(log[t])
           events == [i \in 1 .. n |-> log[t][i].event]
           later == [i \in 1 .. n + 1 |-> log'[t][i].event]
<1>4. EventsOf(t) = events /\ EventsOf(t)' = later
  BY <1>1, <1>2 DEF EventsOf
<1>5. events \in Seq(EventType) /\ Len(events) = n
  BY <1>2, <1>3
<1>6. \A i \in 1 .. n + 1 : later[i] = IF i <= n THEN events[i] ELSE e
  <2>n. n \in Nat
    BY <1>2
  <2>1. \A i \in 1 .. n + 1 : later[i] = log'[t][i].event
    OBVIOUS
  <2>2. \A i \in 1 .. n : log'[t][i] = log[t][i] /\ events[i] = log[t][i].event
    BY <1>1, <1>2
  <2>3. log'[t][n + 1].event = e
    BY <1>1
  <2> HIDE DEF n, events, later
  <2>4. \A i \in 1 .. n + 1 : (i <= n /\ i \in 1 .. n) \/ (~(i <= n) /\ i = n + 1)
    BY <2>n
  <2> QED
    BY <2>1, <2>2, <2>3, <2>4
<1>7. later \in Seq(EventType) /\ Len(later) = n + 1
  <2>1. \A i \in 1 .. n + 1 : log'[t][i].event \in EventType
    BY <1>1, <1>2, <1>3
  <2> QED
    BY <1>2, <2>1
<1>8. /\ Append(events, e) \in Seq(EventType) /\ Len(Append(events, e)) = n + 1
      /\ \A i \in 1 .. n + 1 : Append(events, e)[i] = IF i <= n THEN events[i] ELSE e
  <2> HIDE DEF events
  <2> QED
    BY <1>2, <1>5
<1>9. later = Append(events, e)
  <2> HIDE DEF events, later
  <2> QED
    BY <1>6, <1>7, <1>8, SeqEqual
<1> QED
  BY <1>1, <1>4, <1>9 DEF EventsOf

(* A commit that goes on with the story of its withdrawal keeps StoryInv. *)
LEMMA CommitStory ==
    ASSUME TypeOK, StoryInv, NEW t \in Tx, NEW e \in EventType, NEW s \in Status,
           NEW h \in Payload \cup {NoHash},
           status' = [status EXCEPT ![t] = s], RecordEvent(t, e, s, h), UNCHANGED decision,
           Story(decision[t], s, Append(EventsOf(t), e))
    PROVE  StoryInv'
<1>1. EventsOf(t)' = Append(EventsOf(t), e) /\ \A u \in Tx \ {t} : EventsOf(u)' = EventsOf(u)
  BY EventsGrow
<1>2. status'[t] = s /\ \A u \in Tx \ {t} : status'[u] = status[u]
  BY DEF TypeOK
<1>3. ASSUME NEW u \in Tx PROVE Story(decision'[u], status'[u], EventsOf(u)')
  BY <1>1, <1>2 DEF StoryInv
<1> QED
  BY <1>3 DEF StoryInv

(* The commits of the handlers are such. *)
LEMMA StepStory ==
    ASSUME TypeOK, SerialInv, StoryInv, NEW r \in Request,
           \/ CommitSigned(r) \/ CommitBroadcast(r) \/ CommitFailed(r)
           \/ CommitApprove(r) \/ CommitReject(r) \/ Settle(r)
    PROVE  StoryInv'
<1>1. Busy(r)
  BY DEF Busy, Active, CommitSigned, CommitBroadcast, CommitFailed, CommitApprove, CommitReject,
     CommitReview, Settle
<1>2. InStep(r)
  BY <1>1 DEF SerialInv, StepsInv
<1>3. PICK t \in Tx : t = req[r].tx
  BY <1>1, BusyRequest DEF TypeOK
<1> DEFINE d == decision[t]
           events == EventsOf(t)
<1>4. Story(d, status[t], events) /\ d \in Decision
  BY DEF StoryInv, TypeOK
<1>5. CASE CommitSigned(r)
  <2>1. status[t] = "PENDING"
    BY <1>1, <1>2, <1>3, <1>5, BusyRequest DEF CommitSigned, InStep, Section, TypeOK
  <2>2. Story(d, "SIGNED", Append(events, "SIGNED"))
    BY <1>4, <2>1, TrailsGrow DEF Story, Signed
  <2> QED
    BY <1>3, <1>5, <2>2, CommitStory DEF CommitSigned, UpdateStatus, EventType, Status
<1>6. CASE CommitBroadcast(r)
  <2>1. status[t] = "SIGNED" /\ req[r].held \in Payload
    BY <1>1, <1>2, <1>3, <1>6, BusyRequest DEF CommitBroadcast, InStep, Section, TypeOK
  <2>2. Story(d, "BROADCAST", Append(events, "BROADCAST"))
    BY <1>4, <2>1, TrailsGrow DEF Story, Sending
  <2> QED
    BY <1>3, <1>6, <2>1, <2>2, CommitStory DEF CommitBroadcast, UpdateBroadcast, EventType, Status
<1>7. CASE CommitFailed(r)
  <2>1. status[t] = "SIGNED"
    BY <1>2, <1>3, <1>7 DEF CommitFailed, InStep
  <2>2. Story(d, "FAILED", Append(events, "FAILED"))
    BY <1>4, <2>1, TrailsGrow DEF Story
  <2> QED
    BY <1>3, <1>7, <2>2, CommitStory DEF CommitFailed, UpdateStatus, EventType, Status
<1>8. CASE CommitApprove(r) \/ CommitReject(r)
  <2>1. status[t] = "PENDING_REVIEW"
    BY <1>2, <1>3, <1>8 DEF CommitApprove, CommitReject, CommitReview, InStep
  <2>2. d = "CHALLENGE" /\ events = <<>>
    BY <1>4, <2>1 DEF Story
  <2>3. /\ Story(d, "PENDING", Append(events, "APPROVED"))
        /\ Story(d, "FAILED", Append(events, "REJECTED"))
    BY <1>4, <2>2, TrailsGrow DEF Story
  <2> QED
    BY <1>3, <1>8, <2>3, CommitStory
       DEF CommitApprove, CommitReject, CommitReview, UpdateStatus, EventType, Status
<1>9. CASE Settle(r)
  <2>1. status[t] = "BROADCAST" /\ req[r].held \in Payload
    BY <1>1, <1>2, <1>3, <1>9, BusyRequest DEF Settle, InStep, TypeOK
  <2>2. \A e \in {"SETTLED", "FAILED"} : Story(d, e, Append(events, e))
    BY <1>4, <2>1, TrailsGrow DEF Story
  <2>3. UNCHANGED decision /\ \E e \in {"SETTLED", "FAILED"} :
            status' = [status EXCEPT ![t] = e] /\ RecordEvent(t, e, e, req[r].held)
    BY <1>3, <1>9 DEF Settle, UpdateSettled, UpdateStatus
  <2>4. {"SETTLED", "FAILED"} \in SUBSET EventType /\ {"SETTLED", "FAILED"} \in SUBSET Status
    BY DEF EventType, Status
  <2> QED
    BY <2>1, <2>2, <2>3, <2>4, CommitStory
<1> QED
  BY <1>5, <1>6, <1>7, <1>8, <1>9

(* StoryInv is inductive. *)
LEMMA StoryNext == TypeOK /\ SerialInv /\ StoryInv /\ [SerialNext]_vars => StoryInv'
<1> SUFFICES ASSUME TypeOK, SerialInv, StoryInv, [Next]_vars PROVE StoryInv'
  BY DEF SerialNext
<1>1. CASE RequestWithdrawal
  <2>1. PICK t \in Tx, d \in Decision : Insert(t, d)
    BY <1>1 DEF RequestWithdrawal
  <2>2. /\ status[t] = "ABSENT" /\ status' = [status EXCEPT ![t] = InitialStatus(d)]
        /\ decision' = [decision EXCEPT ![t] = d] /\ UNCHANGED log
    BY <2>1 DEF Insert, InsertRow, Exists
  <2>3. EventsOf(t) = <<>>
    BY <2>2 DEF StoryInv, Story
  <2>4. Story(d, InitialStatus(d), <<>>)
    BY TrailsGrow DEF InitialStatus, Decision, Story, Begun
  <2>5. \A u \in Tx : EventsOf(u)' = EventsOf(u)
    BY <2>2 DEF EventsOf
  <2>6. /\ status'[t] = InitialStatus(d) /\ decision'[t] = d
        /\ \A u \in Tx \ {t} : status'[u] = status[u] /\ decision'[u] = decision[u]
    BY <2>2 DEF TypeOK
  <2>7. ASSUME NEW u \in Tx PROVE Story(decision'[u], status'[u], EventsOf(u)')
    BY <2>3, <2>4, <2>5, <2>6 DEF StoryInv
  <2> QED
    BY <2>7 DEF StoryInv
<1>2. UNCHANGED ledgerVars => StoryInv'
  BY DEF StoryInv, EventsOf, ledgerVars
<1>3. ASSUME NEW r \in Request, Step(r) \/ Abort(r) PROVE StoryInv'
  BY <1>2, <1>3, StepStory DEF Step, AwaitLock, Sign, BuildFails, Accept, Refuse,
     NoReceipt, PoolTimeout, Abort
<1> QED
  BY <1>1, <1>2, <1>3 DEF Next, Start, ProcessNext, ProcessWithdrawal, ReviewWithdrawal,
     Reconcile, Load, Crash, ChainMoves, Quiescent, vars

(* The audit rows of a withdrawal are one of the stories its policy decision allows,
   each stage once, if the requests on one withdrawal do not overlap. *)
THEOREM TrailsLegal == SerialSpec => []TrailLegal
<1>1. Init => StoryInv
  <2> SUFFICES ASSUME Init, NEW t \in Tx PROVE Story(decision[t], status[t], EventsOf(t))
    BY DEF StoryInv
  <2>1. decision[t] = "BLOCK" /\ status[t] = "ABSENT" /\ log[t] = <<>>
    BY DEF Init, LedgerInit
  <2>2. EventsOf(t) = <<>>
    BY <2>1 DEF EventsOf
  <2> QED
    BY <2>1, <2>2, TrailsGrow DEF Story, Decision
<1>2. StoryInv => TrailLegal
  BY DEF StoryInv, Story, TrailLegal
<1>3. TypeOK /\ [SerialNext]_vars => TypeOK'
  BY NextTyped DEF SerialNext
<1> QED
  BY <1>1, <1>2, <1>3, InitTyped, SerialInit, SerialInvNext, StoryNext, PTL
     DEF SerialSpec, SerialNext

-----------------------------------------------------------------------------
(* The refinement: Custody implements Withdrawal if, besides, no two withdrawals ask for
   the same transfer. *)

(* Receipts: a mined payload used up its nonce, and was mined once. *)
MinedInv ==
    /\ \A x \in receipts : x.payload.nonce < accountNonce
    /\ \A x, y \in receipts : x.payload = y.payload => x = y

(* A step of a request does not touch the blocks. *)
LEMMA StepReceipts ==
    ASSUME NEW r \in Request, Step(r) \/ Abort(r)
    PROVE  UNCHANGED <<accountNonce, receipts>>
BY DEF Step, Abort, AwaitLock, Sign, BuildFails, CommitSigned, Accept, SendRaw, Refuse,
   CommitBroadcast, CommitFailed, CommitApprove, CommitReject, CommitReview, NoReceipt,
   Settle, PoolTimeout, chainVars

(* MinedInv is inductive. *)
LEMMA MinedNext == TypeOK /\ MinedInv /\ [Next]_vars => MinedInv'
<1> SUFFICES ASSUME TypeOK, MinedInv, [Next]_vars PROVE MinedInv'
  OBVIOUS
<1>1. CASE UNCHANGED <<accountNonce, receipts>>
  BY <1>1 DEF MinedInv
<1>2. ASSUME NEW p \in mempool, NEW ok \in BOOLEAN, Mine(p, ok) PROVE MinedInv'
  <2> DEFINE new == [payload |-> p, ok |-> ok]
  <2>1. /\ accountNonce \in Nat /\ accountNonce' = accountNonce + 1
        /\ p.nonce = accountNonce /\ receipts' = receipts \cup {new}
        /\ new.payload = p
    BY <1>2 DEF Mine, TypeOK
  <2>2. \A x \in receipts : x.payload.nonce \in Nat
    BY DEF TypeOK, Receipt, Payload
  <2> HIDE DEF new
  <2>3. \A x \in receipts' : x.payload.nonce < accountNonce'
    BY <2>1, <2>2 DEF MinedInv
  <2>4. \A x \in receipts : x.payload # p
    BY <2>1, <2>2 DEF MinedInv
  <2>5. \A x, y \in receipts' : x.payload = y.payload => x = y
    BY <2>1, <2>4 DEF MinedInv
  <2> QED
    BY <2>3, <2>5 DEF MinedInv
<1>3. CASE ChainMoves
  BY <1>1, <1>2, <1>3 DEF ChainMoves, ChainStep, Drop
<1> QED
  BY <1>1, <1>3, StepReceipts DEF Next, RequestWithdrawal, Start, ProcessNext,
     ProcessWithdrawal, ReviewWithdrawal, Reconcile, Load, Crash, Quiescent, vars, chainVars

-----------------------------------------------------------------------------
(* The payment of a withdrawal, before and after a step. *)

RefinementInv == TypeOK /\ SerialInv /\ NonceInv /\ HashInv /\ MinedInv

(* What became of payload p. *)
Fate(p) ==
    IF HasReceipt(p, TRUE) THEN "succeeded"
    ELSE IF HasReceipt(p, FALSE) THEN "reverted" ELSE "sent"

(* The payment is that of the one payload sent. *)
LEMMA PaymentIsFate ==
    ASSUME TypeOK, SentInv, NEW t \in Tx
    PROVE  /\ Unsent(t) => PaymentOf(t) = "none"
           /\ \A p : <<t, p>> \in submitted => PaymentOf(t) = Fate(p)
<1>1. Unsent(t) => PaymentOf(t) = "none"
  BY SentPayloads DEF PaymentOf
<1>2. ASSUME NEW p, <<t, p>> \in submitted PROVE PaymentOf(t) = Fate(p)
  <2>1. PayloadsOf(t) = {p}
    BY <1>2, SentPayloads
  <2> QED
    BY <2>1 DEF PaymentOf, Paid, Fate
<1> QED
  BY <1>1, <1>2

(* The same, after a step. *)
LEMMA PaymentIsFateNext ==
    ASSUME TypeOK', SentInv', NEW t \in Tx
    PROVE  /\ Unsent(t)' => PaymentOf(t)' = "none"
           /\ \A p : <<t, p>> \in submitted' => PaymentOf(t)' = Fate(p)'
<1>1. \A x \in submitted' : x = <<x[1], x[2]>>
  BY DEF TypeOK
<1>2. Unsent(t)' => PaymentOf(t)' = "none"
  BY DEF Unsent, PaymentOf, PayloadsOf
<1>3. ASSUME NEW p, <<t, p>> \in submitted' PROVE PaymentOf(t)' = Fate(p)'
  <2>1. PayloadsOf(t)' = {p}
    BY <1>1, <1>3 DEF PayloadsOf, SentInv
  <2> QED
    BY <2>1 DEF PaymentOf, Paid, Fate
<1> QED
  BY <1>2, <1>3

(* Payments change only when a payload is sent or mined. *)
LEMMA PaymentsKept ==
    ASSUME UNCHANGED <<submitted, receipts>>
    PROVE  [t \in Tx |-> PaymentOf(t)]' = [t \in Tx |-> PaymentOf(t)]
BY DEF PaymentOf, PayloadsOf, Paid, HasReceipt

(* A commit moves the stage. *)
LEMMA CommitMoves ==
    ASSUME TypeOK, NEW t \in Tx, NEW s, status' = [status EXCEPT ![t] = s],
           UNCHANGED <<submitted, receipts>>
    PROVE  W!MoveStage(t, status[t], s)
BY PaymentsKept DEF W!MoveStage

(* Whatever changes the fate of one payment and leaves the others and the
   status alone moves the payment. *)
LEMMA FateMoves ==
    ASSUME NEW t \in Tx, NEW v, PaymentOf(t)' = v, status' = status,
           \A u \in Tx \ {t} : PaymentOf(u)' = PaymentOf(u)
    PROVE  W!MovePayment(t, PaymentOf(t), v)
<1> DEFINE pay == [u \in Tx |-> PaymentOf(u)]
           pay1 == [u \in Tx |-> PaymentOf(u)']
<1>1. pay1 = [pay EXCEPT ![t] = v]
  OBVIOUS
<1>2. pay[t] = PaymentOf(t)
  OBVIOUS
<1> QED
  BY <1>1, <1>2 DEF W!MovePayment

-----------------------------------------------------------------------------
(* Step by step. *)

Stutters == UNCHANGED <<status, submitted, receipts>>

(* A step that commits, sends and mines nothing is a stutter. *)
LEMMA StutterRefines == Stutters => UNCHANGED W!withdrawalVars
BY PaymentsKept DEF Stutters, W!withdrawalVars

(* A commit of a handler is the action of Withdrawal it is named for. *)
LEMMA CommitRefines ==
    ASSUME RefinementInv, NEW r \in Request,
           \/ CommitSigned(r) \/ CommitBroadcast(r) \/ CommitFailed(r)
           \/ CommitApprove(r) \/ CommitReject(r) \/ Settle(r)
    PROVE  W!WithdrawalNext
<1> USE DEF Busy, Active
<1>1. Busy(r)
  BY DEF CommitSigned, CommitBroadcast, CommitFailed, CommitApprove, CommitReject,
     CommitReview, Settle
<1>2. InStep(r) /\ SentInv /\ TypeOK
  BY <1>1 DEF RefinementInv, SerialInv, StepsInv
<1>3. PICK t \in Tx : t = req[r].tx
  BY <1>1, <1>2, BusyRequest DEF TypeOK
<1>4. UNCHANGED <<submitted, receipts>>
  BY DEF CommitSigned, CommitBroadcast, CommitFailed, CommitApprove, CommitReject,
     CommitReview, Settle, chainVars
<1>5. ASSUME NEW s, status' = [status EXCEPT ![t] = s] PROVE W!MoveStage(t, status[t], s)
  BY <1>2, <1>4, <1>5, CommitMoves
<1>6. CASE CommitSigned(r)
  <2>1. status[t] = "PENDING"
    BY <1>1, <1>2, <1>3, <1>6, BusyRequest DEF CommitSigned, InStep, Section, TypeOK
  <2>2. PaymentOf(t) = "none"
    BY <1>2, <2>1, UnsentBefore, PaymentIsFate DEF Sent
  <2>3. W!MoveStage(t, "PENDING", "SIGNED")
    BY <1>3, <1>5, <1>6, <2>1 DEF CommitSigned, UpdateStatus
  <2> QED
    BY <2>2, <2>3 DEF W!WithdrawalNext, W!RecordSigned
<1>7. CASE CommitBroadcast(r)
  <2>1. status[t] = "SIGNED"
    BY <1>2, <1>3, <1>7 DEF CommitBroadcast, InStep
  <2>2. <<t, req[r].held>> \in submitted
    BY <1>3, <1>7 DEF CommitBroadcast, RefinementInv, HashInv
  <2>3. PaymentOf(t) # "none"
    BY <1>2, <2>2, PaymentIsFate DEF Fate
  <2>4. W!MoveStage(t, "SIGNED", "BROADCAST")
    BY <1>3, <1>5, <1>7, <2>1 DEF CommitBroadcast, UpdateBroadcast
  <2> QED
    BY <2>3, <2>4 DEF W!WithdrawalNext, W!RecordBroadcast
<1>8. CASE CommitFailed(r)
  <2>1. status[t] = "SIGNED"
    BY <1>2, <1>3, <1>8 DEF CommitFailed, InStep
  <2>2. W!MoveStage(t, "SIGNED", "FAILED")
    BY <1>3, <1>5, <1>8, <2>1 DEF CommitFailed, UpdateStatus
  <2> QED
    BY <2>2 DEF W!WithdrawalNext, W!GiveUp
<1>9. CASE CommitApprove(r) \/ CommitReject(r)
  <2>1. status[t] = "PENDING_REVIEW"
    BY <1>2, <1>3, <1>9 DEF CommitApprove, CommitReject, CommitReview, InStep
  <2>2. \E s \in {"PENDING", "FAILED"} : W!MoveStage(t, "PENDING_REVIEW", s)
    BY <1>3, <1>5, <1>9, <2>1 DEF CommitApprove, CommitReject, CommitReview, UpdateStatus
  <2> QED
    BY <2>2 DEF W!WithdrawalNext, W!Review
<1>10. CASE Settle(r)
  <2>1. status[t] = "BROADCAST"
    BY <1>2, <1>3, <1>10 DEF Settle, InStep
  <2>2. <<t, req[r].held>> \in submitted
    BY <1>3, <1>10 DEF Settle, RefinementInv, HashInv
  <2>3. PaymentOf(t) = Fate(req[r].held)
    BY <1>2, <2>2, PaymentIsFate
  <2>4. CASE /\ HasReceipt(req[r].held, TRUE)
             /\ UpdateSettled(req[r].tx, req[r].held)
    <3>1. PaymentOf(t) = "succeeded"
      BY <2>3, <2>4 DEF Fate
    <3>2. W!MoveStage(t, "BROADCAST", "SETTLED")
      BY <1>3, <1>5, <2>1, <2>4 DEF UpdateSettled
    <3> QED
      BY <3>1, <3>2 DEF W!WithdrawalNext, W!Conclude
  <2>5. CASE /\ HasReceipt(req[r].held, FALSE)
             /\ UpdateStatus(req[r].tx, "FAILED", "FAILED", req[r].held)
    <3>1. ~HasReceipt(req[r].held, TRUE)
      BY <2>5 DEF RefinementInv, MinedInv, HasReceipt
    <3>2. PaymentOf(t) = "reverted"
      BY <2>3, <2>5, <3>1 DEF Fate
    <3>3. W!MoveStage(t, "BROADCAST", "FAILED")
      BY <1>3, <1>5, <2>1, <2>5 DEF UpdateStatus
    <3> QED
      BY <3>2, <3>3 DEF W!WithdrawalNext, W!Conclude
  <2> QED
    BY <1>10, <2>4, <2>5 DEF Settle
<1> QED
  BY <1>6, <1>7, <1>8, <1>9, <1>10

(* The node takes a payload: the one payment of its withdrawal. *)
LEMMA AcceptRefines ==
    ASSUME RefinementInv, RefinementInv', NEW r \in Request, Accept(r)
    PROVE  W!WithdrawalNext
<1>1. Busy(r) /\ InStep(r) /\ SentInv /\ TypeOK /\ SentInv' /\ TypeOK'
  BY DEF RefinementInv, SerialInv, StepsInv, Accept, Busy, Active
<1>2. PICK t \in Tx : t = req[r].tx
  BY <1>1, BusyRequest DEF TypeOK
<1>3. status[t] = "SIGNED" /\ Unsent(t)
  BY <1>1, <1>2 DEF Accept, InStep
<1>4. PICK p \in Payload : p = req[r].held
  BY <1>1, BusyRequest DEF Accept, Section, TypeOK
<1>5. /\ submitted' = submitted \cup {<<t, p>>}
      /\ UNCHANGED <<status, receipts>>
  BY <1>2, <1>4 DEF Accept, SendRaw, ledgerVars
<1>6. PaymentOf(t) = "none" /\ PaymentOf(t)' = "sent"
  <2>1. p.nonce \in Nat /\ p.nonce >= accountNonce /\ accountNonce \in Nat
    BY <1>1, <1>4 DEF Accept, SendRaw, Accepts, TypeOK, Payload
  <2>2. \A x \in receipts : x.payload.nonce \in Nat /\ x.payload.nonce < accountNonce
    BY <1>1 DEF RefinementInv, MinedInv, TypeOK, Receipt, Payload
  <2>3. \A ok \in BOOLEAN : ~HasReceipt(p, ok)
    BY <2>1, <2>2 DEF HasReceipt
  <2>4. PaymentOf(t)' = Fate(p)'
    BY <1>1, <1>5, PaymentIsFateNext
  <2>5. PaymentOf(t)' = "sent"
    BY <1>5, <2>3, <2>4 DEF Fate, HasReceipt
  <2> QED
    BY <1>1, <1>3, <2>5, PaymentIsFate
<1>7. \A u \in Tx \ {t} : PaymentOf(u)' = PaymentOf(u)
  <2>1. \A u \in Tx \ {t} : PayloadsOf(u)' = PayloadsOf(u)
    BY <1>5 DEF PayloadsOf
  <2> QED
    BY <1>5, <2>1 DEF PaymentOf, Paid, HasReceipt
<1>8. W!MovePayment(t, "none", "sent")
  BY <1>5, <1>6, <1>7, FateMoves
<1> QED
  BY <1>3, <1>8 DEF W!WithdrawalNext, W!Pay

(* A block includes a payload: the payment of the withdrawals it was sent for,
   if any, and of no other. *)
LEMMA MineRefines ==
    ASSUME RefinementInv, RefinementInv',
           NEW p \in mempool, NEW ok \in BOOLEAN, Mine(p, ok), UNCHANGED <<status, submitted>>
    PROVE  W!WithdrawalNext \/ UNCHANGED W!withdrawalVars
<1>1. SentInv /\ TypeOK /\ SentInv' /\ TypeOK' /\ MinedInv /\ MinedInv'
  BY DEF RefinementInv, SerialInv
<1>2. receipts' = receipts \cup {[payload |-> p, ok |-> ok]}
  BY DEF Mine
<1>3. \A o \in BOOLEAN : ~HasReceipt(p, o)
  <2>1. p.nonce = accountNonce /\ accountNonce \in Nat
    BY <1>1 DEF Mine, TypeOK
  <2> QED
    BY <1>1, <2>1 DEF MinedInv, HasReceipt
<1>4. ASSUME NEW u \in Tx, p \notin PayloadsOf(u) PROVE PaymentOf(u)' = PaymentOf(u)
  <2>1. PayloadsOf(u)' = PayloadsOf(u)
    BY DEF PayloadsOf
  <2>2. \A q \in PayloadsOf(u), o \in BOOLEAN : HasReceipt(q, o)' <=> HasReceipt(q, o)
    BY <1>2, <1>4 DEF HasReceipt
  <2> QED
    BY <2>1, <2>2 DEF PaymentOf, Paid
<1>5. PICK o \in W!Outcome : o = Fate(p)'
  <2>1. \E b \in BOOLEAN : HasReceipt(p, b)'
    BY <1>2 DEF HasReceipt
  <2> QED
    BY <2>1 DEF Fate, W!Outcome
<1> DEFINE shared == {t \in Tx : p \in PayloadsOf(t)}
<1>6. ASSUME NEW t \in shared PROVE PaymentOf(t) = "sent" /\ PaymentOf(t)' = o
  <2>1. <<t, p>> \in submitted
    <3>1. \A x \in submitted : x = <<x[1], x[2]>>
      BY <1>1 DEF TypeOK
    <3> QED
      BY <1>6, <3>1 DEF PayloadsOf
  <2>2. PaymentOf(t) = "sent"
    BY <1>1, <1>3, <2>1, PaymentIsFate DEF Fate
  <2>3. PaymentOf(t)' = Fate(p)'
    BY <1>1, <2>1, PaymentIsFateNext
  <2> QED
    BY <1>5, <2>2, <2>3
<1> DEFINE pay == [t \in Tx |-> PaymentOf(t)]
           pay1 == [t \in Tx |-> PaymentOf(t)']
<1>7. pay1 = [t \in Tx |-> IF t \in shared THEN o ELSE pay[t]]
  BY <1>4, <1>6
<1>8. W!Resolve(shared)
  BY <1>5, <1>6, <1>7 DEF W!Resolve
<1> QED
  BY <1>8 DEF W!WithdrawalNext

(* Every step maps to a step of Withdrawal or to a stutter. *)
LEMMA StepRefines ==
    ASSUME RefinementInv, RefinementInv', [SerialNext]_vars
    PROVE  W!WithdrawalNext \/ UNCHANGED W!withdrawalVars
<1>1. CASE RequestWithdrawal
  <2>1. PICK t \in Tx, d \in Decision : Insert(t, d)
    BY <1>1 DEF RequestWithdrawal
  <2>2. /\ status[t] = "ABSENT" /\ status' = [status EXCEPT ![t] = InitialStatus(d)]
        /\ UNCHANGED <<submitted, receipts>>
    BY <1>1, <2>1 DEF RequestWithdrawal, Insert, InsertRow, Exists, chainVars
  <2>3. W!MoveStage(t, "ABSENT", InitialStatus(d))
    BY <2>2, CommitMoves DEF RefinementInv
  <2>4. InitialStatus(d) \in {"PENDING", "PENDING_REVIEW", "FAILED"}
    BY DEF InitialStatus, Decision
  <2> QED
    BY <2>3, <2>4 DEF W!WithdrawalNext, W!Ask
<1>2. ASSUME NEW r \in Request, Step(r) \/ Abort(r)
      PROVE  W!WithdrawalNext \/ UNCHANGED W!withdrawalVars
  <2>1. CASE \/ AwaitLock(r) \/ Sign(r) \/ BuildFails(r) \/ Refuse(r) \/ NoReceipt(r)
             \/ PoolTimeout(r) \/ Abort(r)
    <3>1. Stutters
      BY <2>1 DEF Stutters, AwaitLock, Sign, BuildFails, Refuse, NoReceipt, PoolTimeout,
         Abort, ledgerVars, chainVars
    <3> QED
      BY <3>1, StutterRefines
  <2> QED
    BY <1>2, <2>1, CommitRefines, AcceptRefines DEF Step
<1>3. CASE ChainMoves
  <2>1. PICK p \in mempool : Drop(p) \/ \E ok \in BOOLEAN : Mine(p, ok)
    BY <1>3 DEF ChainMoves, ChainStep
  <2>2. UNCHANGED <<status, submitted>>
    BY <1>3 DEF ChainMoves, ledgerVars
  <2>3. CASE Drop(p)
    BY <2>2, <2>3, StutterRefines DEF Stutters, Drop
  <2> QED
    BY <2>1, <2>2, <2>3, MineRefines
<1>4. CASE UNCHANGED <<ledgerVars, chainVars, submitted>>
  BY <1>4, StutterRefines DEF Stutters, ledgerVars, chainVars
<1> QED
  BY <1>1, <1>2, <1>3, <1>4 DEF SerialNext, Next, Start, ProcessNext, ProcessWithdrawal,
     ReviewWithdrawal, Reconcile, Load, Crash, Quiescent, vars

(* With one request on a withdrawal at a time, the handlers of lifecycle.py, admin_router.py and reconciler.py implement
   Withdrawal, with every crash, abort, lost answer and lost payload of Custody. *)
THEOREM WithdrawalImplemented == SerialSpec => RefinesWithdrawal
<1>1. Init => RefinementInv
  <2>1. Init => NonceInv /\ MinedInv
    BY DEF Init, ChainInit, NonceInv, OneOutstanding, Idle, MinedInv
  <2> QED
    BY <2>1, InitTyped, SerialInit, HashInit DEF RefinementInv
<1>2. Init => W!WithdrawalInit
  BY DEF Init, LedgerInit, W!WithdrawalInit, PaymentOf, PayloadsOf
<1>3. RefinementInv /\ [SerialNext]_vars => RefinementInv'
  BY NextTyped, SerialInvNext, NonceNext, HashNext, MinedNext
     DEF RefinementInv, SerialNext
<1>4. RefinementInv /\ RefinementInv' /\ [SerialNext]_vars
        => [W!WithdrawalNext]_(W!withdrawalVars)
  BY StepRefines
<1> QED
  BY <1>1, <1>2, <1>3, <1>4, PTL
     DEF SerialSpec, SerialNext, RefinesWithdrawal, W!WithdrawalSpec

=============================================================================
