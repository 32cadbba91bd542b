-------------------------- MODULE DemoResetProofs --------------------------
(***************************************************************************)
(* Rows and trails around the demo reset, for any number of withdrawals,   *)
(* of commits and of reports.                                              *)
(***************************************************************************)
EXTENDS DemoReset, SumProofs, SequenceTheorems, TLAPS

LogEvent == {"CREATED", "APPROVED", "REJECTED"} \cup Status
LogRow == [event : LogEvent, status : Status, hash : {NoHash}]

(* The columns and the reset's locals that the argument needs. *)
ResetTypeOK ==
    /\ status \in [Tx -> Status \cup {"ABSENT"}]
    /\ log \in [Tx -> Seq(LogRow)]
    /\ cut \in [Tx -> Nat]
    /\ gone \in SUBSET Tx

Matches ==
    \A t \in Tx : log[t] # <<>> => Exists(t) /\ status[t] = log[t][Len(log[t])].status

(* The inductive invariant.  Until the commit nothing is lost, raced or not, so that
   a rollback forgets a race; and what the first DELETE spares of a deleted row is
   what was added since, which is nothing without a race. *)
ResetInv ==
    /\ (phase = "committed" => ~raced) => Matches
    /\ \A t \in Seeded : Exists(t)
    /\ phase = "logs deleted" /\ ~raced => \A t \in Tx : cut[t] = Len(log[t])
    /\ phase = "rows deleted" /\ ~raced =>
            \A t \in Tx : cut[t] = IF t \in gone THEN Len(log[t]) ELSE 0
    /\ phase = "rows deleted" => Seeded \subseteq gone

-----------------------------------------------------------------------------
(* The seeds: ten, each with a trail. *)
LEMMA SeedsTyped ==
    /\ Seeded = 1 .. 10 /\ Len(Seeds) = 10
    /\ \A t \in Seeded : Seeds[t].trail \in Seq(Status) /\ Len(Seeds[t].trail) \in Nat \ {0}
<1>1. Seeded = 1 .. 10 /\ Len(Seeds) = 10
  BY DEF Seeded, Seeds
<1> DEFINE Typed(trail) == trail \in Seq(Status) /\ Len(trail) \in Nat \ {0}
<1>2. /\ Typed(<<"PENDING">>) /\ Typed(<<"PENDING_REVIEW">>) /\ Typed(<<"FAILED">>)
      /\ Typed(<<"PENDING", "SIGNED">>) /\ Typed(<<"PENDING", "SIGNED", "FAILED">>)
      /\ Typed(<<"PENDING", "SIGNED", "BROADCAST">>)
      /\ Typed(<<"PENDING", "SIGNED", "BROADCAST", "SETTLED">>)
  BY DEF Status
<1> HIDE DEF Typed
<1>3. /\ Typed(Seeds[1].trail) /\ Typed(Seeds[2].trail) /\ Typed(Seeds[3].trail)
      /\ Typed(Seeds[4].trail) /\ Typed(Seeds[5].trail) /\ Typed(Seeds[6].trail)
      /\ Typed(Seeds[7].trail) /\ Typed(Seeds[8].trail) /\ Typed(Seeds[9].trail)
      /\ Typed(Seeds[10].trail)
  BY <1>2 DEF Seeds, Seed
<1>4. \A t \in 1 .. 10 : Typed(Seeds[t].trail)
  BY <1>3
<1> QED
  BY <1>1, <1>4 DEF Typed

(* The policy's decisions on the seeds. *)
LEMMA SeedDecisions == \A t \in Seeded : Seeds[t].decision \in Decision
<1>1. /\ Seeds[1].decision \in Decision /\ Seeds[2].decision \in Decision
      /\ Seeds[3].decision \in Decision /\ Seeds[4].decision \in Decision
      /\ Seeds[5].decision \in Decision /\ Seeds[6].decision \in Decision
      /\ Seeds[7].decision \in Decision /\ Seeds[8].decision \in Decision
      /\ Seeds[9].decision \in Decision /\ Seeds[10].decision \in Decision
  BY DEF Seeds, Seed, Decision
<1>2. \A t \in 1 .. 10 : Seeds[t].decision \in Decision
  <2> HIDE DEF Seeds
  <2> QED
    BY <1>1
<1> QED
  BY <1>2, SeedsTyped

(* A seed is a withdrawal, and its trail ends with its status. *)
LEMMA SeedTrails ==
    ASSUME NEW t \in Seeded
    PROVE  /\ t \in Tx /\ SeedStatus(t) \in Status
           /\ SeedTrail(t) \in Seq(LogRow) /\ SeedTrail(t) # <<>>
           /\ SeedTrail(t)[Len(SeedTrail(t))].status = SeedStatus(t)
<1> DEFINE trail == Seeds[t].trail
<1>1. /\ trail \in Seq(Status) /\ Len(trail) \in Nat \ {0}
  BY SeedsTyped
<1>2. t \in Tx
  <2>1. t \in 1 .. 10 /\ MaxTx >= 10 /\ MaxTx \in Nat
    BY SeedsTyped, DemoResetAssumption, MaxTxAssumption
  <2> QED
    BY <2>1 DEF Tx
<1>3. trail \in [1 .. Len(trail) -> Status] /\ DOMAIN trail = 1 .. Len(trail)
  BY <1>1, LenProperties
<1>4. SeedStatus(t) = trail[Len(trail)] /\ SeedStatus(t) \in Status
  BY <1>1, <1>3 DEF SeedStatus
<1>5. SeedTrail(t) = [i \in 1 .. Len(trail) |->
        [event |-> IF i = 1 THEN "CREATED" ELSE trail[i], status |-> trail[i], hash |-> NoHash]]
  BY <1>3 DEF SeedTrail
<1>6. SeedTrail(t) \in Seq(LogRow) /\ Len(SeedTrail(t)) = Len(trail)
  <2>1. \A i \in 1 .. Len(trail) :
            trail[i] \in Status /\ (IF i = 1 THEN "CREATED" ELSE trail[i]) \in LogEvent
    BY <1>3 DEF LogEvent
  <2>2. \A i \in 1 .. Len(trail) : SeedTrail(t)[i] \in LogRow
    BY <1>5, <2>1 DEF LogRow
  <2>3. \E n \in Nat : n = Len(trail) /\ SeedTrail(t) \in [1 .. n -> LogRow]
    BY <1>1, <1>5, <2>2
  <2> QED
    BY <2>3
<1>7. SeedTrail(t)[Len(trail)].status = trail[Len(trail)]
  BY <1>1, <1>5
<1> QED
  BY <1>1, <1>2, <1>4, <1>6, <1>7

-----------------------------------------------------------------------------
(* The steps. *)

(* A handler's commit adds a row with the new status to the trail. *)
LEMMA CommitAppends ==
    ASSUME ResetTypeOK, NEW t \in Tx, Commit(t)
    PROVE  \E row \in LogRow :
                /\ status' = [status EXCEPT ![t] = row.status]
                /\ log' = [log EXCEPT ![t] = Append(@, row)]
                /\ Exists(t)
<1>1. PICK c \in Commits : UpdateStatus(t, c[1], c[2], NoHash)
  BY DEF Commit
<1>2. c[1] \in LogEvent /\ c[2] \in Status
  BY DEF Commits, LogEvent, Status
<1> DEFINE row == [event |-> c[1], status |-> c[2], hash |-> NoHash]
<1>3. row \in LogRow /\ row.status = c[2]
  BY <1>2 DEF LogRow
<1>4. status' = [status EXCEPT ![t] = row.status] /\ log' = [log EXCEPT ![t] = Append(@, row)]
  BY <1>1, <1>3 DEF UpdateStatus, RecordEvent
<1> QED
  BY <1>3, <1>4 DEF Commit

(* The commit of a handler. *)
LEMMA HandlerCommitKeeps ==
    ASSUME ResetTypeOK, ResetInv, NEW t \in Touched, HandlerCommit(t)
    PROVE  ResetTypeOK' /\ ResetInv'
<1> t \in Tx
  BY DemoResetAssumption
<1>1. PICK row \in LogRow :
            /\ status' = [status EXCEPT ![t] = row.status]
            /\ log' = [log EXCEPT ![t] = Append(@, row)]
            /\ Exists(t)
  BY CommitAppends DEF HandlerCommit
<1>2. /\ UNCHANGED <<phase, cut, gone>>
      /\ raced' = (raced \/ phase = "logs deleted")
      /\ phase = "rows deleted" => t \notin gone
  BY DEF HandlerCommit, resetVars
<1>3. row.status \in Status /\ row.status # "ABSENT"
  BY DEF LogRow, Status
<1>4. log[t] \in Seq(LogRow) /\ Len(log[t]) \in Nat
  BY DEF ResetTypeOK
<1>5. /\ log'[t] \in Seq(LogRow) /\ log'[t] = Append(log[t], row)
      /\ Len(log'[t]) = Len(log[t]) + 1 /\ log'[t][Len(log[t]) + 1] = row
      /\ \A u \in Tx \ {t} : log'[u] = log[u]
  BY <1>1, <1>4 DEF ResetTypeOK
<1>6. status'[t] = row.status /\ \A u \in Tx \ {t} : status'[u] = status[u]
  BY <1>1 DEF ResetTypeOK
<1>7. ResetTypeOK'
  BY <1>1, <1>2, <1>3, <1>5 DEF ResetTypeOK
<1>8. ASSUME Matches PROVE Matches'
  BY <1>3, <1>5, <1>6, <1>8 DEF Matches, Exists
<1>9. \A u \in Seeded : Exists(u)'
  BY <1>3, <1>6, SeedTrails DEF ResetInv, Exists
<1>10. phase = "rows deleted" /\ ~raced =>
            \A u \in Tx : cut[u] = IF u \in gone THEN Len(log'[u]) ELSE 0
  BY <1>2, <1>5 DEF ResetInv
<1> QED
  BY <1>2, <1>7, <1>8, <1>9, <1>10 DEF ResetInv

(* An INSERT finds no audit row of its new id that the invariant speaks of. *)
LEMMA HandlerInsertKeeps ==
    ASSUME ResetTypeOK, ResetInv, NEW t \in Tx, NEW d \in Decision, HandlerInsert(t, d)
    PROVE  ResetTypeOK' /\ ResetInv'
<1>1. /\ ~Exists(t) /\ status' = [status EXCEPT ![t] = InitialStatus(d)]
      /\ UNCHANGED <<log, phase, cut, gone, raced>>
  BY DEF HandlerInsert, InsertRow, Rows, resetVars
<1>2. InitialStatus(d) \in Status /\ InitialStatus(d) # "ABSENT"
  BY DEF InitialStatus, Decision, Status
<1>3. status'[t] = InitialStatus(d) /\ \A u \in Tx \ {t} : status'[u] = status[u]
  BY <1>1 DEF ResetTypeOK
<1>4. ResetTypeOK'
  BY <1>1, <1>2 DEF ResetTypeOK
<1>5. ASSUME Matches PROVE Matches'
  BY <1>1, <1>2, <1>3, <1>5 DEF Matches, Exists
<1>6. \A u \in Seeded : Exists(u)'
  BY <1>2, <1>3, SeedTrails DEF ResetInv, Exists
<1> QED
  BY <1>1, <1>4, <1>5, <1>6 DEF ResetInv

(* The reset's own commit, if no handler raced it: seeded withdrawals have the
   seeds' trails, deleted ones have none, the others are as they were. *)
LEMMA CommitResetKeeps ==
    ASSUME ResetTypeOK, ResetInv, CommitReset
    PROVE  ResetTypeOK' /\ ResetInv'
<1> DEFINE kept(t) == SubSeq(log[t], cut[t] + 1, Len(log[t]))
<1>1. /\ phase = "rows deleted" /\ phase' = "committed"
      /\ status' = [t \in Tx |-> IF t \in Seeded THEN SeedStatus(t)
                                ELSE IF t \in gone THEN "ABSENT" ELSE status[t]]
      /\ log' = [t \in Tx |-> IF t \in Seeded THEN SeedTrail(t) \o kept(t) ELSE kept(t)]
      /\ UNCHANGED <<cut, gone, raced>>
  BY DEF CommitReset
<1>2. ASSUME NEW t \in Tx
      PROVE  log[t] \in Seq(LogRow) /\ Len(log[t]) \in Nat /\ cut[t] \in Nat
  BY DEF ResetTypeOK
<1>3. ASSUME NEW t \in Tx PROVE kept(t) \in Seq(LogRow)
  <2>1. \A i \in cut[t] + 1 .. Len(log[t]) : log[t][i] \in LogRow
    BY <1>2
  <2> QED
    BY <1>2, <2>1, SubSeqProperties
<1> HIDE DEF kept
<1>4. ResetTypeOK'
  <2>1. \A t \in Tx : log'[t] \in Seq(LogRow)
    BY <1>1, <1>3, SeedTrails, ConcatProperties
  <2>2. \A t \in Tx : status'[t] \in Status \cup {"ABSENT"}
    BY <1>1, SeedTrails DEF ResetTypeOK
  <2> QED
    BY <1>1, <2>1, <2>2 DEF ResetTypeOK
<1>5. \A t \in Seeded : Exists(t)'
  BY <1>1, SeedTrails DEF Exists, Status
<1>6. ASSUME ~raced PROVE Matches'
  <2>1. Matches /\ \A t \in Tx : cut[t] = IF t \in gone THEN Len(log[t]) ELSE 0
    BY <1>1, <1>6 DEF ResetInv
  <2>2. ASSUME NEW t \in Tx, t \in gone PROVE kept(t) = <<>>
    BY <1>2, <2>1, <2>2, SubSeqEmpty DEF kept
  <2>3. ASSUME NEW t \in Tx, t \notin gone PROVE kept(t) = log[t]
    <3>1. kept(t) = SubSeq(log[t], 1, Len(log[t]))
      BY <2>1, <2>3 DEF kept
    <3> QED
      BY <1>2, <3>1
  <2>4. ASSUME NEW t \in Tx, log'[t] # <<>>
        PROVE  Exists(t)' /\ status'[t] = log'[t][Len(log'[t])].status
    <3>1. CASE t \in Seeded
      <4>1. t \in gone
        BY <1>1, <3>1 DEF ResetInv
      <4>2. log'[t] = SeedTrail(t)
        BY <1>1, <2>2, <3>1, <4>1, SeedTrails, ConcatEmptySeq
      <4> QED
        BY <1>1, <3>1, <4>2, SeedTrails DEF Exists, Status
    <3>2. CASE t \notin Seeded /\ t \in gone
      BY <1>1, <2>2, <2>4, <3>2
    <3>3. CASE t \notin Seeded /\ t \notin gone
      <4>1. log'[t] = log[t] /\ status'[t] = status[t]
        BY <1>1, <2>3, <3>3
      <4> QED
        BY <2>1, <2>4, <4>1 DEF Matches, Exists
    <3> QED
      BY <3>1, <3>2, <3>3
  <2> QED
    BY <2>4 DEF Matches
<1> QED
  BY <1>1, <1>4, <1>5, <1>6 DEF ResetInv

(* The statements of the reset before it ends. *)
LEMMA ResetStepKeeps ==
    ASSUME ResetTypeOK, ResetInv, DeleteAuditLogs \/ DeleteTransactions \/ AbortReset
    PROVE  ResetTypeOK' /\ ResetInv'
<1>1. UNCHANGED <<status, log>>
  BY DEF DeleteAuditLogs, DeleteTransactions, AbortReset, ledgerVars
<1>2. Matches /\ Matches' /\ \A t \in Seeded : Exists(t) /\ Exists(t)'
  BY <1>1 DEF DeleteAuditLogs, DeleteTransactions, AbortReset, ResetInv, Matches, Exists
<1>3. CASE DeleteAuditLogs
  <2>1. \A t \in Tx : Len(log[t]) \in Nat
    BY DEF ResetTypeOK
  <2> QED
    BY <1>1, <1>2, <1>3, <2>1 DEF DeleteAuditLogs, ResetTypeOK, ResetInv
<1>4. CASE DeleteTransactions
  <2>1. \A t \in Tx : t \notin Rows => Len(log[t]) = 0
    BY <1>2, EmptySeq DEF Matches, Rows
  <2>2. Seeded \subseteq Rows
    BY <1>2, SeedTrails DEF Rows
  <2> QED
    BY <1>1, <1>2, <1>4, <2>1, <2>2 DEF DeleteTransactions, ResetTypeOK, ResetInv, Rows
<1>5. CASE AbortReset
  BY <1>1, <1>2, <1>5 DEF AbortReset, ResetTypeOK, ResetInv
<1> QED
  BY <1>3, <1>4, <1>5

(* ResetInv is inductive, with the types. *)
LEMMA ResetNext == ResetTypeOK /\ ResetInv /\ [Next]_vars => ResetTypeOK' /\ ResetInv'
<1> SUFFICES ASSUME ResetTypeOK, ResetInv, [Next]_vars PROVE ResetTypeOK' /\ ResetInv'
  OBVIOUS
<1>1. ASSUME UNCHANGED <<status, log, phase, cut, gone, raced>>
      PROVE  ResetTypeOK' /\ ResetInv'
  <2>1. ResetTypeOK'
    BY <1>1 DEF ResetTypeOK
  <2>2. Matches' = Matches /\ (\A t \in Seeded : Exists(t)') = (\A t \in Seeded : Exists(t))
    BY <1>1 DEF Matches, Exists
  <2> QED
    BY <1>1, <2>1, <2>2 DEF ResetInv
<1>2. CASE \E k \in Reader : ReportStep(k)
  BY <1>1, <1>2 DEF ReportStep, Ask, Read, FailRead, Respond, ledgerVars, resetVars
<1>3. CASE UNCHANGED vars
  BY <1>1, <1>3 DEF vars, ledgerVars, resetVars
<1>4. CASE \E t \in Touched : HandlerCommit(t)
  BY <1>4, HandlerCommitKeeps
<1> QED
  BY <1>2, <1>3, <1>4, CommitResetKeeps, HandlerInsertKeeps, ResetStepKeeps DEF Next, ResetStep

(* At first there are the seeds. *)
LEMMA ResetStart == ResetInit => ResetTypeOK /\ ResetInv
<1> SUFFICES ASSUME ResetInit PROVE ResetTypeOK /\ ResetInv
  OBVIOUS
<1>1. /\ status = [t \in Tx |-> IF t \in Seeded THEN SeedStatus(t) ELSE "ABSENT"]
      /\ log = [t \in Tx |-> IF t \in Seeded THEN SeedTrail(t) ELSE <<>>]
      /\ phase = "waiting" /\ gone = {} /\ cut = [t \in Tx |-> 0]
  BY DEF ResetInit
<1>2. \A t \in Tx : log[t] \in Seq(LogRow) /\ status[t] \in Status \cup {"ABSENT"}
  BY <1>1, SeedTrails, EmptySeq
<1>3. ResetTypeOK
  BY <1>1, <1>2 DEF ResetTypeOK
<1>4. Matches
  BY <1>1, SeedTrails DEF Matches, Exists, Status
<1>5. \A t \in Seeded : Exists(t)
  BY <1>1, SeedTrails DEF Exists, Status
<1> QED
  BY <1>1, <1>3, <1>4, <1>5 DEF ResetInv

(* reset_demo.py leaves every audit row its withdrawal, and every trail the status of
   its withdrawal, unless a handler commits between its two DELETEs: for any number
   of withdrawals and of commits before, during and after it. *)
THEOREM TrailsMatch == Spec => []TrailsMatchUnlessRaced
<1>1. ResetInv => TrailsMatchUnlessRaced
  BY DEF ResetInv, Matches, TrailsMatchUnlessRaced
<1> QED
  BY <1>1, ResetStart, ResetNext, PTL DEF Spec

-----------------------------------------------------------------------------
(* Reports. *)

Explained(t) ==
    \/ status[t] = InitialStatus(decision[t])
    \/ \E i \in DOMAIN log[t] : log[t][i].status = status[t]

(* What /audit-all and /multi-db read of the trails at this moment. *)
TrailStatuses == [t \in Tx |-> {log[t][i].status : i \in DOMAIN log[t]}]

ExplainedBy(shown, statuses) ==
    \A t \in DOMAIN shown :
        /\ t \in Tx
        /\ \/ shown[t].status = InitialStatus(shown[t].decision)
           \/ shown[t].status \in statuses[t]

(* Where a report of withdrawals and trails is. *)
Underway(answers) ==
    \/ answers = <<>>
    \/ \E shown : answers = <<shown>> /\ ExplainedBy(shown, TrailStatuses)
    \/ \E shown, statuses : answers = <<shown, statuses>> /\ ExplainedBy(shown, statuses)

Trailing == {"audit_all", "multi_db"}

ReportTypeOK ==
    /\ decision \in [Tx -> Decision]
    /\ report = [k \in Reader |-> Asked(report[k].kind, report[k].answers)]
    /\ straddled \in [Reader -> BOOLEAN]

(* The inductive invariant.  The rows are explained at every moment, after a race as
   well: a withdrawal that outlives the reset had no audit row when it began.  What
   a report has read of the rows is explained by the trails from then on, since
   these only grow until the reset's commit. *)
RowsExplained == \A t \in Tx : Exists(t) => Explained(t)

CutInv ==
    /\ phase = "logs deleted" => \A t \in Tx : cut[t] <= Len(log[t])
    /\ phase = "rows deleted" => \A t \in Tx \ gone : cut[t] = 0

ReportsExplained ==
    \A k \in Reader : report[k].kind \in Trailing /\ ~straddled[k] => Underway(report[k].answers)

ExplainedInv == RowsExplained /\ CutInv /\ ReportsExplained

(* Two SELECTs: the rows, then the trails. *)
LEMMA TrailingQueries ==
    ASSUME NEW kind \in Trailing
    PROVE  /\ kind \in DOMAIN Queries /\ Queries[kind] = <<"transactions", "audit_logs">>
           /\ Len(Queries[kind]) = 2
BY DEF Trailing, Queries, AuditAllQueries, MultiDbQueries

(* Trails that grow explain what they explained. *)
LEMMA StillUnderway ==
    ASSUME NEW answers, Underway(answers),
           \A t \in Tx : TrailStatuses[t] \subseteq TrailStatuses'[t]
    PROVE  Underway(answers)'
<1>1. ASSUME NEW shown, ExplainedBy(shown, TrailStatuses)
      PROVE  ExplainedBy(shown, TrailStatuses)'
  BY <1>1 DEF ExplainedBy, InitialStatus
<1>2. \A shown, statuses : ExplainedBy(shown, statuses) => ExplainedBy(shown, statuses)'
  BY DEF ExplainedBy, InitialStatus
<1> QED
  BY <1>1, <1>2 DEF Underway

(* A step of handlers keeps the reports underway. *)
LEMMA ReportsKept ==
    ASSUME ReportsExplained, UNCHANGED <<report, straddled>>,
           \A t \in Tx : \A i \in DOMAIN log[t] :
                i \in DOMAIN log'[t] /\ log'[t][i] = log[t][i]
    PROVE  ReportsExplained'
<1>1. \A t \in Tx : TrailStatuses[t] \subseteq TrailStatuses'[t]
  BY DEF TrailStatuses
<1>2. ASSUME NEW k \in Reader, report[k].kind \in Trailing, ~straddled[k]
      PROVE  Underway(report[k].answers)'
  <2>1. PICK answers : answers = report[k].answers
    OBVIOUS
  <2>2. Underway(answers)
    BY <1>2, <2>1 DEF ReportsExplained
  <2>3. Underway(answers)'
    BY <1>1, <2>2, StillUnderway
  <2> QED
    BY <2>1, <2>3 DEF Underway
<1> QED
  BY <1>2 DEF ReportsExplained

(* The commit of a handler. *)
LEMMA HandlerCommitExplains ==
    ASSUME ResetTypeOK, ReportTypeOK, ExplainedInv, NEW t \in Touched, HandlerCommit(t)
    PROVE  ReportTypeOK' /\ ExplainedInv'
<1> t \in Tx
  BY DemoResetAssumption
<1>1. PICK row \in LogRow :
            /\ status' = [status EXCEPT ![t] = row.status]
            /\ log' = [log EXCEPT ![t] = Append(@, row)]
            /\ Exists(t)
  BY CommitAppends DEF HandlerCommit
<1>2. /\ UNCHANGED <<phase, cut, gone, report, straddled, decision>>
      /\ phase = "rows deleted" => t \notin gone
  BY DEF HandlerCommit, Commit, UpdateStatus, resetVars
<1>3. \A u \in Tx : log[u] \in Seq(LogRow) /\ Len(log[u]) \in Nat /\ DOMAIN log[u] = 1 .. Len(log[u])
  BY LenProperties DEF ResetTypeOK
<1>4. /\ Len(log'[t]) = Len(log[t]) + 1 /\ DOMAIN log'[t] = 1 .. Len(log[t]) + 1
      /\ log'[t][Len(log[t]) + 1] = row
      /\ \A i \in 1 .. Len(log[t]) : log'[t][i] = log[t][i]
      /\ \A u \in Tx \ {t} : log'[u] = log[u]
  BY <1>1, <1>3 DEF ResetTypeOK
<1>5. status'[t] = row.status /\ \A u \in Tx \ {t} : status'[u] = status[u]
  BY <1>1 DEF ResetTypeOK
<1>6. ReportTypeOK'
  BY <1>2 DEF ReportTypeOK
<1>7. ASSUME NEW u \in Tx, Exists(u)' PROVE Explained(u)'
  <2>1. CASE u = t
    <3>1. Len(log[t]) + 1 \in DOMAIN log'[t]
      BY <1>3, <1>4
    <3> QED
      BY <1>4, <1>5, <2>1, <3>1 DEF Explained
  <2>2. CASE u # t
    BY <1>2, <1>4, <1>5, <1>7, <2>2 DEF Explained, Exists, ExplainedInv, RowsExplained, InitialStatus
  <2> QED
    BY <2>1, <2>2
<1>8. CutInv'
  <2>1. \A u \in Tx : Len(log'[u]) >= Len(log[u]) /\ Len(log'[u]) \in Nat
    BY <1>3, <1>4
  <2>2. ASSUME NEW u \in Tx, phase = "logs deleted" PROVE cut[u] <= Len(log'[u])
    <3>1. cut[u] <= Len(log[u]) /\ cut[u] \in Nat
      BY <2>2 DEF ExplainedInv, CutInv, ResetTypeOK
    <3> QED
      BY <1>3, <2>1, <3>1
  <2> QED
    BY <1>2, <2>2 DEF ExplainedInv, CutInv
<1>9. \A u \in Tx : \A i \in DOMAIN log[u] : i \in DOMAIN log'[u] /\ log'[u][i] = log[u][i]
  <2>1. \A i \in 1 .. Len(log[t]) : i \in 1 .. Len(log[t]) + 1
    BY <1>3
  <2>2. \A i \in DOMAIN log[t] : i \in DOMAIN log'[t] /\ log'[t][i] = log[t][i]
    BY <1>3, <1>4, <2>1
  <2> QED
    BY <1>4, <2>2
<1>10. ReportsExplained'
  BY <1>2, <1>9, ReportsKept DEF ExplainedInv
<1> QED
  BY <1>6, <1>7, <1>8, <1>10 DEF ExplainedInv, RowsExplained

(* An INSERT. *)
LEMMA HandlerInsertExplains ==
    ASSUME ResetTypeOK, ReportTypeOK, ExplainedInv, NEW t \in Tx, NEW d \in Decision,
           HandlerInsert(t, d)
    PROVE  ReportTypeOK' /\ ExplainedInv'
<1>1. /\ status' = [status EXCEPT ![t] = InitialStatus(d)]
      /\ decision' = [decision EXCEPT ![t] = d]
      /\ UNCHANGED <<log, phase, cut, gone, report, straddled>>
  BY DEF HandlerInsert, InsertRow, resetVars
<1>2. ReportTypeOK'
  BY <1>1 DEF ReportTypeOK
<1>3. ASSUME NEW u \in Tx, Exists(u)' PROVE Explained(u)'
  <2>1. CASE u = t
    BY <1>1, <2>1 DEF Explained, InitialStatus, ResetTypeOK, ReportTypeOK
  <2>2. CASE u # t
    BY <1>1, <1>3, <2>2
       DEF Explained, Exists, ExplainedInv, RowsExplained, InitialStatus, ResetTypeOK, ReportTypeOK
  <2> QED
    BY <2>1, <2>2
<1>4. \A u \in Tx : \A i \in DOMAIN log[u] : i \in DOMAIN log'[u] /\ log'[u][i] = log[u][i]
  BY <1>1
<1>5. CutInv'
  BY <1>1 DEF ExplainedInv, CutInv
<1>6. ReportsExplained'
  BY <1>1, <1>4, ReportsKept DEF ExplainedInv
<1> QED
  BY <1>2, <1>3, <1>5, <1>6 DEF ExplainedInv, RowsExplained

(* The statements of the reset before it ends. *)
LEMMA ResetStepExplains ==
    ASSUME ResetTypeOK, ReportTypeOK, ResetInv, ExplainedInv,
           DeleteAuditLogs \/ DeleteTransactions \/ AbortReset
    PROVE  ReportTypeOK' /\ ExplainedInv'
<1>1. UNCHANGED <<status, decision, log, report, straddled>>
  BY DEF DeleteAuditLogs, DeleteTransactions, AbortReset, ledgerVars
<1>2. ReportTypeOK' /\ RowsExplained'
  BY <1>1 DEF ReportTypeOK, ExplainedInv, RowsExplained, Exists, Explained, InitialStatus
<1>3. ReportsExplained'
  BY <1>1, ReportsKept DEF ExplainedInv
<1>4. \A t \in Tx : Len(log[t]) \in Nat /\ cut[t] \in Nat
  BY DEF ResetTypeOK
<1>5. CASE DeleteAuditLogs
  <2>1. phase' = "logs deleted" /\ \A t \in Tx : cut'[t] = Len(log[t])
    BY <1>5 DEF DeleteAuditLogs
  <2>2. ASSUME NEW t \in Tx PROVE cut'[t] <= Len(log'[t])
    <3>1. cut'[t] = Len(log'[t]) /\ cut'[t] \in Nat
      BY <1>1, <1>4, <2>1
    <3> QED
      BY <3>1
  <2>3. CutInv'
    BY <2>1, <2>2 DEF CutInv
  <2> QED
    BY <1>2, <1>3, <2>3 DEF ExplainedInv
<1>6. CASE DeleteTransactions
  <2>1. Matches
    BY <1>6 DEF DeleteTransactions, ResetInv
  <2>2. ASSUME NEW t \in Tx \ Rows PROVE cut[t] = 0
    <3>1. log[t] = <<>>
      BY <2>1 DEF Matches, Rows
    <3>2. cut[t] <= Len(log[t])
      BY <1>6 DEF DeleteTransactions, ExplainedInv, CutInv
    <3> QED
      BY <1>4, <3>1, <3>2, EmptySeq
  <2>3. CutInv'
    BY <1>6, <2>2 DEF DeleteTransactions, CutInv
  <2> QED
    BY <1>2, <1>3, <2>3 DEF ExplainedInv
<1>7. CASE AbortReset
  <2>1. CutInv'
    BY <1>7 DEF AbortReset, CutInv
  <2> QED
    BY <1>2, <1>3, <2>1 DEF ExplainedInv
<1> QED
  BY <1>5, <1>6, <1>7

(* The report that has nothing yet, or has all, is not disturbed by the reset's
   commit; the others are straddled. *)
LEMMA CommitResetExplains ==
    ASSUME ResetTypeOK, ReportTypeOK, ResetInv, ExplainedInv, CommitReset
    PROVE  ReportTypeOK' /\ ExplainedInv'
<1> DEFINE kept(t) == SubSeq(log[t], cut[t] + 1, Len(log[t]))
<1>1. /\ phase = "rows deleted" /\ phase' = "committed"
      /\ status' = [t \in Tx |-> IF t \in Seeded THEN SeedStatus(t)
                                ELSE IF t \in gone THEN "ABSENT" ELSE status[t]]
      /\ decision' = [t \in Tx |-> IF t \in Seeded THEN Seeds[t].decision ELSE decision[t]]
      /\ log' = [t \in Tx |-> IF t \in Seeded THEN SeedTrail(t) \o kept(t) ELSE kept(t)]
      /\ straddled' = [k \in Reader |-> straddled[k] \/ Started(k)]
      /\ UNCHANGED report
  BY DEF CommitReset
<1>2. ASSUME NEW t \in Tx
      PROVE  log[t] \in Seq(LogRow) /\ Len(log[t]) \in Nat /\ cut[t] \in Nat
  BY DEF ResetTypeOK
<1>3. ASSUME NEW t \in Tx PROVE kept(t) \in Seq(LogRow)
  <2>1. \A i \in cut[t] + 1 .. Len(log[t]) : log[t][i] \in LogRow
    BY <1>2
  <2> QED
    BY <1>2, <2>1, SubSeqProperties
<1> HIDE DEF kept
<1>4. ReportTypeOK'
  <2>1. \A t \in Seeded : Seeds[t].decision \in Decision
    BY SeedDecisions
  <2> QED
    BY <1>1, <2>1 DEF ReportTypeOK
<1>5. ASSUME NEW t \in Tx, Exists(t)' PROVE Explained(t)'
  <2>1. CASE t \in Seeded
    <3> DEFINE trail == SeedTrail(t)
               n == Len(trail)
    <3>1. /\ trail \in Seq(LogRow) /\ n \in Nat \ {0} /\ trail[n].status = SeedStatus(t)
      BY <2>1, SeedTrails, EmptySeq
    <3>2. /\ Len(trail \o kept(t)) = n + Len(kept(t)) /\ Len(kept(t)) \in Nat
          /\ trail \o kept(t) \in Seq(LogRow)
          /\ \A i \in 1 .. n + Len(kept(t)) :
                (trail \o kept(t))[i] = IF i <= n THEN trail[i] ELSE kept(t)[i - n]
      BY <1>3, <3>1, ConcatProperties, LenProperties
    <3>3. n \in DOMAIN (trail \o kept(t)) /\ (trail \o kept(t))[n] = trail[n]
      <4> HIDE DEF trail
      <4>1. DOMAIN (trail \o kept(t)) = 1 .. n + Len(kept(t))
        BY <3>2, LenProperties
      <4> QED
        BY <3>1, <3>2, <4>1
    <3>4. log'[t] = trail \o kept(t) /\ status'[t] = SeedStatus(t)
      BY <1>1, <2>1
    <3> QED
      BY <3>1, <3>3, <3>4 DEF Explained
  <2>2. CASE t \notin Seeded
    <3>1. t \notin gone /\ status'[t] = status[t] /\ decision'[t] = decision[t] /\ Exists(t)
      BY <1>1, <1>5, <2>2 DEF Exists
    <3>2. cut[t] = 0
      BY <1>1, <3>1 DEF ExplainedInv, CutInv
    <3>3. kept(t) = SubSeq(log[t], 1, Len(log[t]))
      BY <3>2 DEF kept
    <3>4. kept(t) = log[t]
      BY <1>2, <3>3
    <3>5. log'[t] = log[t]
      BY <1>1, <2>2, <3>4
    <3> QED
      BY <3>1, <3>5 DEF Explained, ExplainedInv, RowsExplained, InitialStatus
  <2> QED
    BY <2>1, <2>2
<1>6. ASSUME NEW k \in Reader, report[k].kind \in Trailing, ~straddled'[k]
      PROVE  Underway(report[k].answers)'
  <2> DEFINE answers == report[k].answers
  <2>1. ~straddled[k] /\ ~Started(k)
    BY <1>1, <1>6
  <2>2. Underway(answers)
    BY <1>6, <2>1 DEF ExplainedInv, ReportsExplained
  <2>3. CASE answers = <<>>
    BY <1>1, <2>3 DEF Underway
  <2>4. CASE answers # <<>>
    <3>1. Len(answers) = 2
      BY <1>6, <2>1, <2>4, TrailingQueries DEF Started, Done
    <3>2. \A shown : Len(<<shown>>) = 1
      OBVIOUS
    <3>3. PICK shown, statuses : answers = <<shown, statuses>> /\ ExplainedBy(shown, statuses)
      BY <2>2, <2>4, <3>1, <3>2 DEF Underway
    <3> QED
      BY <1>1, <3>3 DEF Underway, ExplainedBy, InitialStatus
  <2> QED
    BY <2>3, <2>4
<1>7. CutInv'
  BY <1>1 DEF CutInv
<1>8. ReportsExplained'
  BY <1>1, <1>6 DEF ReportsExplained
<1> QED
  BY <1>4, <1>5, <1>7, <1>8 DEF ExplainedInv, RowsExplained

(* The SELECTs of a report. *)
LEMMA ReadExplains ==
    ASSUME ResetTypeOK, ReportTypeOK, ExplainedInv, NEW k \in Reader, Read(k),
           report[k].kind \in Trailing, Underway(report[k].answers), UNCHANGED ledgerVars
    PROVE  Underway(report[k].answers)'
<1>1. PICK answers : answers = report[k].answers
  OBVIOUS
<1>2. /\ Len(answers) # 2
      /\ report' = [report EXCEPT ![k] = Asked(report[k].kind,
            Append(answers, Answer(<<"transactions", "audit_logs">>[Len(answers) + 1])))]
  BY <1>1, TrailingQueries DEF Read, Done
<1>3. report'[k].answers = Append(answers, Answer(<<"transactions", "audit_logs">>[Len(answers) + 1]))
  BY <1>2 DEF ReportTypeOK, Asked
<1>4. TrailStatuses' = TrailStatuses
  BY DEF ledgerVars, TrailStatuses
<1>5. CASE answers = <<>>
  <2> DEFINE shown == [t \in Rows |-> [status |-> status[t], decision |-> decision[t]]]
  <2>1. Len(answers) + 1 = 1
    BY <1>5, EmptySeq
  <2>2. Answer("transactions") = shown
    BY DEF Answer
  <2>3. \A x : Append(<<>>, x) = <<x>>
    OBVIOUS
  <2>4. report'[k].answers = <<shown>>
    BY <1>3, <1>5, <2>1, <2>2, <2>3
  <2>5. ExplainedBy(shown, TrailStatuses)
    BY DEF ExplainedBy, TrailStatuses, Rows, ExplainedInv, RowsExplained, Explained
  <2>6. PICK x : x = shown
    OBVIOUS
  <2>7. ExplainedBy(x, TrailStatuses)'
    BY <1>4, <2>5, <2>6 DEF ExplainedBy, InitialStatus
  <2> QED
    BY <2>4, <2>6, <2>7 DEF Underway
<1>6. ASSUME NEW shown, answers = <<shown>>, ExplainedBy(shown, TrailStatuses)
      PROVE  Underway(report[k].answers)'
  <2>1. Len(answers) + 1 = 2
    BY <1>6
  <2>2. PICK statuses : statuses = TrailStatuses
    OBVIOUS
  <2>3. Answer("audit_logs") = statuses
    BY <2>2 DEF Answer, TrailStatuses
  <2>4. Append(<<shown>>, statuses) = <<shown, statuses>>
    <3> DEFINE S == {shown, statuses}
    <3>1. <<shown>> \in Seq(S) /\ <<shown, statuses>> \in Seq(S)
      OBVIOUS
    <3>2. Append(<<shown>>, statuses) \in Seq(S)
      BY <3>1
    <3>3. /\ Len(Append(<<shown>>, statuses)) = 2 /\ Len(<<shown, statuses>>) = 2
          /\ \A i \in 1 .. 2 : Append(<<shown>>, statuses)[i] = <<shown, statuses>>[i]
      OBVIOUS
    <3> QED
      BY <3>1, <3>2, <3>3, SeqEqual
  <2>5. report'[k].answers = <<shown, statuses>>
    BY <1>3, <1>6, <2>1, <2>3, <2>4
  <2>6. ExplainedBy(shown, statuses)'
    BY <1>6, <2>2 DEF ExplainedBy, InitialStatus
  <2> QED
    BY <2>5, <2>6 DEF Underway
<1>7. ASSUME NEW shown, NEW statuses, answers = <<shown, statuses>> PROVE FALSE
  BY <1>2, <1>7
<1> QED
  BY <1>1, <1>5, <1>6, <1>7 DEF Underway

(* The steps of a report. *)
LEMMA ReportStepExplains ==
    ASSUME ResetTypeOK, ReportTypeOK, ExplainedInv, NEW k \in Reader, ReportStep(k)
    PROVE  ReportTypeOK' /\ ExplainedInv'
<1>1. /\ UNCHANGED <<status, decision, log, phase, cut, gone>> /\ UNCHANGED ledgerVars
      /\ straddled' = [straddled EXCEPT ![k] = @ /\ report'[k] # NoReport]
  BY DEF ReportStep, resetVars, ledgerVars, Ask, Read, FailRead, Respond
<1>2. RowsExplained' /\ CutInv'
  BY <1>1 DEF RowsExplained, CutInv, ExplainedInv, Exists, Explained, InitialStatus
<1>3. \E kind, answers : report' = [report EXCEPT ![k] = Asked(kind, answers)]
  BY DEF ReportStep, Ask, Read, FailRead, Respond, NoReport
<1>4. ReportTypeOK'
  BY <1>1, <1>3 DEF ReportTypeOK, Asked
<1>5. \A j \in Reader \ {k} : report'[j] = report[j] /\ straddled'[j] = straddled[j]
  BY <1>1, <1>3 DEF ReportTypeOK
<1>6. \A answers : Underway(answers) => Underway(answers)'
  <2>1. TrailStatuses' = TrailStatuses
    BY <1>1 DEF TrailStatuses
  <2> QED
    BY <2>1, StillUnderway
<1>7. ASSUME NEW j \in Reader, report'[j].kind \in Trailing, ~straddled'[j]
      PROVE  Underway(report[j].answers)'
  <2>1. CASE j # k
    <3>1. PICK answers : answers = report[j].answers
      OBVIOUS
    <3>2. Underway(answers)
      BY <1>5, <1>7, <2>1, <3>1 DEF ExplainedInv, ReportsExplained
    <3> QED
      BY <1>5, <1>6, <2>1, <3>1, <3>2 DEF Underway
  <2>2. CASE j = k /\ report'[k].answers = <<>>
    BY <2>2 DEF Underway
  <2>3. CASE j = k /\ Read(k)
    <3>1. report'[k].kind = report[k].kind
      BY <2>3 DEF Read, ReportTypeOK, Asked
    <3>2. report'[k] # NoReport
      BY <1>7, <2>3 DEF NoReport, Asked, Trailing
    <3>3. ~straddled[k]
      BY <1>1, <1>7, <2>3, <3>2 DEF ReportTypeOK
    <3> QED
      BY <1>1, <1>7, <2>3, <3>1, <3>3, ReadExplains DEF ExplainedInv, ReportsExplained
  <2>4. Read(k) \/ report'[k].answers = <<>>
    BY DEF ReportStep, Ask, FailRead, Respond, NoReport, Asked, ReportTypeOK
  <2> QED
    BY <2>1, <2>2, <2>3, <2>4
<1> QED
  BY <1>2, <1>4, <1>7 DEF ExplainedInv, ReportsExplained

(* ExplainedInv is inductive, with the types. *)
LEMMA ExplainedNext ==
    ResetTypeOK /\ ReportTypeOK /\ ResetInv /\ ExplainedInv /\ [Next]_vars
        => ReportTypeOK' /\ ExplainedInv'
<1> SUFFICES ASSUME ResetTypeOK, ReportTypeOK, ResetInv, ExplainedInv, [Next]_vars
             PROVE  ReportTypeOK' /\ ExplainedInv'
  OBVIOUS
<1>1. CASE UNCHANGED vars
  <2>1. UNCHANGED <<status, decision, log, phase, cut, gone, report, straddled>>
    BY <1>1 DEF vars, ledgerVars, resetVars
  <2>2. ReportTypeOK' /\ RowsExplained' /\ CutInv'
    BY <2>1
       DEF ReportTypeOK, RowsExplained, CutInv, ExplainedInv, Exists, Explained, InitialStatus
  <2>3. ReportsExplained'
    BY <2>1, ReportsKept DEF ExplainedInv
  <2> QED
    BY <2>2, <2>3 DEF ExplainedInv
<1> QED
  BY <1>1, HandlerCommitExplains, HandlerInsertExplains, ResetStepExplains,
     CommitResetExplains, ReportStepExplains DEF Next, ResetStep

(* At first there are the seeds, and no reports. *)
LEMMA ExplainedStart == ResetInit => ReportTypeOK /\ ExplainedInv
<1> SUFFICES ASSUME ResetInit PROVE ReportTypeOK /\ ExplainedInv
  OBVIOUS
<1>1. /\ status = [t \in Tx |-> IF t \in Seeded THEN SeedStatus(t) ELSE "ABSENT"]
      /\ decision = [t \in Tx |-> IF t \in Seeded THEN Seeds[t].decision ELSE "BLOCK"]
      /\ log = [t \in Tx |-> IF t \in Seeded THEN SeedTrail(t) ELSE <<>>]
      /\ report = [k \in Reader |-> NoReport] /\ phase = "waiting"
      /\ straddled = [k \in Reader |-> FALSE]
  BY DEF ResetInit, ReportsInit
<1>2. ReportTypeOK
  BY <1>1, SeedDecisions DEF ReportTypeOK, NoReport, Asked, Decision
<1>3. ASSUME NEW t \in Tx, Exists(t) PROVE Explained(t)
  <2>1. t \in Seeded /\ status[t] = SeedStatus(t) /\ log[t] = SeedTrail(t)
    BY <1>1, <1>3 DEF Exists
  <2>2. Len(log[t]) \in DOMAIN log[t] /\ log[t][Len(log[t])].status = status[t]
    BY <2>1, SeedTrails, LenProperties, EmptySeq
  <2> QED
    BY <2>2 DEF Explained
<1>4. ReportsExplained /\ CutInv
  BY <1>1 DEF ReportsExplained, CutInv, NoReport, Asked, Trailing
<1> QED
  BY <1>2, <1>3, <1>4 DEF ExplainedInv, RowsExplained

(* A report of withdrawals with their trails shows no status that its trail does not
   explain, unless the reset commits between its two SELECTs: for any number of
   reports, whatever handlers commit between them and in the gap of the reset. *)
THEOREM StatusesExplained == Spec => []TrailExplainsStatus
<1>1. ResetInit => ReportTypeOK /\ ExplainedInv
  BY ExplainedStart
<1>2. ReportTypeOK /\ ExplainedInv => TrailExplainsStatus
  <2> SUFFICES ASSUME ReportTypeOK, ExplainedInv, NEW k \in Reader, Trusted(k),
                      report[k].kind \in Trailing
               PROVE  LET shown == Shown(k, "transactions")
                      IN  \A t \in DOMAIN shown :
                            \/ shown[t].status = InitialStatus(shown[t].decision)
                            \/ shown[t].status \in Shown(k, "audit_logs")[t]
    BY DEF TrailExplainsStatus, ShowsExplained, Trailing
  <2>1. Queries[report[k].kind] = <<"transactions", "audit_logs">> /\ Len(report[k].answers) = 2
    BY TrailingQueries DEF Trusted, Done
  <2>2. \A shown : Len(<<shown>>) = 1
    OBVIOUS
  <2>3. PICK shown, statuses :
            report[k].answers = <<shown, statuses>> /\ ExplainedBy(shown, statuses)
    <3>1. Underway(report[k].answers)
      BY DEF ExplainedInv, ReportsExplained, Trusted
    <3>2. report[k].answers # <<>>
      BY <2>1, EmptySeq
    <3> QED
      BY <2>1, <2>2, <3>1, <3>2 DEF Underway
  <2>4. Shown(k, "transactions") = shown /\ Shown(k, "audit_logs") = statuses
    BY <2>1, <2>3 DEF Shown
  <2> QED
    BY <2>3, <2>4 DEF ExplainedBy
<1> QED
  BY <1>1, <1>2, ResetStart, ResetNext, ExplainedNext, PTL DEF Spec

-----------------------------------------------------------------------------
(* Counts. *)

SumOf(f, S) == SumFunctionOnSet(f, S)

(* Where a report of counts is: what it counted is there to be counted by what it
   reads next. *)
Counting(answers) ==
    \/ answers = <<>>
    \/ \E n \in Nat : answers = <<n>> /\ n <= Cardinality(Rows)
    \/ \E n, byStatus :
        /\ n \in Nat /\ answers = <<n, byStatus>>
        /\ SumOf(byStatus, Status) \in n .. Cardinality(Rows)
    \/ \E n, byStatus, byDecision :
        /\ n \in Nat /\ answers = <<n, byStatus, byDecision>>
        /\ n <= SumOf(byStatus, Status)
        /\ SumOf(byStatus, Status) <= SumOf(byDecision, Decision)

StatsInv ==
    \A k \in Reader : report[k].kind = "stats" /\ ~straddled[k] => Counting(report[k].answers)

LEMMA StatsKind ==
    /\ "stats" \in DOMAIN Queries /\ Len(Queries["stats"]) = 3
    /\ Queries["stats"] = <<"total", "by_status", "by_policy_decision">>
BY DEF Queries, StatsQueries

(* The withdrawals can be counted, in one number, by status or by decision. *)
LEMMA RowsCounted ==
    ASSUME ResetTypeOK, ReportTypeOK
    PROVE  /\ IsFiniteSet(Rows) /\ Cardinality(Rows) \in Nat
           /\ Answer("total") = Cardinality(Rows)
           /\ SumOf(Answer("by_status"), Status) = Cardinality(Rows)
           /\ SumOf(Answer("by_policy_decision"), Decision) = Cardinality(Rows)
<1>1. IsFiniteSet(Tx)
  BY MaxTxAssumption, FS_Interval DEF Tx
<1>2. IsFiniteSet(Rows) /\ Cardinality(Rows) \in Nat
  <2>1. Rows \in SUBSET Tx
    BY DEF Rows
  <2> QED
    BY <1>1, <2>1, FS_Subset, FS_CardinalityType
<1>3. IsFiniteSet(Status) /\ IsFiniteSet(Decision)
  <2>1. Decision = {"ALLOW", "CHALLENGE", "BLOCK", "BLOCK", "BLOCK", "BLOCK"}
    BY DEF Decision
  <2>2. \A a, b, c, e, f, g : IsFiniteSet({a, b, c, e, f, g})
    BY SixFinite
  <2> QED
    BY <2>1, <2>2 DEF Status
<1>4. /\ \A t \in Rows : status[t] \in Status
      /\ \A t \in Rows : decision[t] \in Decision
  BY DEF Rows, Exists, ResetTypeOK, ReportTypeOK
<1>5. SumOf(Answer("by_status"), Status) = Cardinality(Rows)
  <2>1. \A s \in Status : Answer("by_status")[s] = Cardinality({t \in Rows : status[t] = s})
    BY DEF Answer
  <2> QED
    BY <1>2, <1>3, <1>4, <2>1, SumCounts DEF SumOf
<1>6. SumOf(Answer("by_policy_decision"), Decision) = Cardinality(Rows)
  <2>1. \A d \in Decision :
            Answer("by_policy_decision")[d] = Cardinality({t \in Rows : decision[t] = d})
    BY DEF Answer
  <2> QED
    BY <1>2, <1>3, <1>4, <2>1, SumCounts DEF SumOf
<1> QED
  BY <1>2, <1>5, <1>6 DEF Answer

(* What was counted is still there when there are no fewer withdrawals. *)
LEMMA StillCounting ==
    ASSUME NEW answers, Counting(answers),
           Cardinality(Rows) \in Nat, Cardinality(Rows)' \in Nat,
           Cardinality(Rows) <= Cardinality(Rows)'
    PROVE  Counting(answers)'
<1>1. \A n \in Nat : n <= Cardinality(Rows) => n <= Cardinality(Rows)'
  OBVIOUS
<1>2. \A n \in Nat : \A m : m \in n .. Cardinality(Rows) => m \in n .. Cardinality(Rows)'
  OBVIOUS
<1> QED
  BY <1>1, <1>2 DEF Counting, SumOf

(* Append, on the answers. *)
LEMMA AnswersGrow ==
    /\ \A a : Append(<<>>, a) = <<a>>
    /\ \A a, b : Append(<<a>>, b) = <<a, b>>
    /\ \A a, b, c : Append(<<a, b>>, c) = <<a, b, c>>
<1>1. ASSUME NEW a PROVE Append(<<>>, a) = <<a>>
  OBVIOUS
<1>2. ASSUME NEW a, NEW b PROVE Append(<<a>>, b) = <<a, b>>
  <2> DEFINE S == {a, b}
  <2>1. <<a>> \in Seq(S) /\ <<a, b>> \in Seq(S)
    OBVIOUS
  <2>2. Append(<<a>>, b) \in Seq(S)
    BY <2>1
  <2>3. /\ Len(Append(<<a>>, b)) = Len(<<a, b>>)
        /\ \A i \in 1 .. 2 : Append(<<a>>, b)[i] = <<a, b>>[i]
    OBVIOUS
  <2> QED
    BY <2>1, <2>2, <2>3, SeqEqual
<1>3. ASSUME NEW a, NEW b, NEW c PROVE Append(<<a, b>>, c) = <<a, b, c>>
  <2> DEFINE S == {a, b, c}
  <2>1. <<a, b>> \in Seq(S) /\ <<a, b, c>> \in Seq(S)
    OBVIOUS
  <2>2. Append(<<a, b>>, c) \in Seq(S)
    BY <2>1
  <2>3. /\ Len(Append(<<a, b>>, c)) = Len(<<a, b, c>>)
        /\ \A i \in 1 .. 3 : Append(<<a, b>>, c)[i] = <<a, b, c>>[i]
    OBVIOUS
  <2> QED
    BY <2>1, <2>2, <2>3, SeqEqual
<1> QED
  BY <1>1, <1>2, <1>3

(* The next SELECT of a report of counts. *)
LEMMA ReadCounts ==
    ASSUME ResetTypeOK, ReportTypeOK, NEW k \in Reader, Read(k),
           report[k].kind = "stats", Counting(report[k].answers), UNCHANGED ledgerVars
    PROVE  Counting(report[k].answers)'
<1>1. PICK answers : answers = report[k].answers
  OBVIOUS
<1> DEFINE queries == <<"total", "by_status", "by_policy_decision">>
<1>2. /\ Len(answers) # 3
      /\ report' = [report EXCEPT ![k] =
            Asked(report[k].kind, Append(answers, Answer(queries[Len(answers) + 1])))]
  BY <1>1, StatsKind DEF Read, Done
<1>3. report'[k].answers = Append(answers, Answer(queries[Len(answers) + 1]))
  BY <1>2 DEF ReportTypeOK, Asked
<1>4. PICK N \in Nat : N = Cardinality(Rows)
  BY RowsCounted
<1>5. Cardinality(Rows)' = N
  BY <1>4 DEF Rows, Exists, ledgerVars
<1>6. PICK byStatus, byDecision :
            byStatus = Answer("by_status") /\ byDecision = Answer("by_policy_decision")
  OBVIOUS
<1>7. /\ Answer("total") = N
      /\ SumOf(byStatus, Status) = N /\ SumOf(byDecision, Decision) = N
  BY <1>4, <1>6, RowsCounted
<1>8. CASE answers = <<>>
  <2>1. Len(answers) + 1 = 1
    BY <1>8, EmptySeq
  <2>2. report'[k].answers = <<N>>
    BY <1>3, <1>7, <1>8, <2>1, AnswersGrow
  <2> QED
    BY <1>5, <2>2 DEF Counting
<1>9. ASSUME NEW n \in Nat, answers = <<n>>, n <= Cardinality(Rows)
      PROVE  Counting(report[k].answers)'
  <2>1. Len(answers) + 1 = 2
    BY <1>9
  <2>2. report'[k].answers = <<n, byStatus>>
    BY <1>3, <1>6, <1>9, <2>1, AnswersGrow
  <2>3. SumOf(byStatus, Status) \in n .. N
    BY <1>4, <1>7, <1>9
  <2> QED
    BY <1>5, <2>2, <2>3 DEF Counting, SumOf
<1>10. ASSUME NEW n \in Nat, NEW s, answers = <<n, s>>,
              SumOf(s, Status) \in n .. Cardinality(Rows)
       PROVE  Counting(report[k].answers)'
  <2>1. Len(answers) + 1 = 3
    BY <1>10
  <2>2. report'[k].answers = <<n, s, byDecision>>
    BY <1>3, <1>6, <1>10, <2>1, AnswersGrow
  <2>3. n <= SumOf(s, Status) /\ SumOf(s, Status) <= SumOf(byDecision, Decision)
    BY <1>4, <1>7, <1>10
  <2> QED
    BY <2>2, <2>3 DEF Counting, SumOf
<1>11. ASSUME NEW n \in Nat, NEW s, NEW d, answers = <<n, s, d>> PROVE FALSE
  BY <1>2, <1>11
<1> QED
  BY <1>1, <1>8, <1>9, <1>10, <1>11 DEF Counting

(* StatsInv is inductive. *)
LEMMA StatsNext ==
    ResetTypeOK /\ ReportTypeOK /\ ResetTypeOK' /\ ReportTypeOK' /\ StatsInv /\ [Next]_vars
        => StatsInv'
<1> SUFFICES ASSUME ResetTypeOK, ReportTypeOK, ResetTypeOK', ReportTypeOK', StatsInv, [Next]_vars
             PROVE  StatsInv'
  OBVIOUS
<1>1. IsFiniteSet(Rows) /\ Cardinality(Rows) \in Nat
  BY RowsCounted
<1>2. IsFiniteSet(Rows)' /\ Cardinality(Rows)' \in Nat
  <2>1. IsFiniteSet(Tx) /\ Rows' \in SUBSET Tx
    BY MaxTxAssumption, FS_Interval DEF Tx, Rows
  <2> QED
    BY <2>1, FS_Subset, FS_CardinalityType
<1>3. Rows \subseteq Rows' => \A answers : Counting(answers) => Counting(answers)'
  <2>1. Rows \subseteq Rows' => Cardinality(Rows) <= Cardinality(Rows)'
    BY <1>2, FS_Subset
  <2> QED
    BY <1>1, <1>2, <2>1, StillCounting
<1>4. ASSUME Rows \subseteq Rows', UNCHANGED <<report, straddled>> PROVE StatsInv'
  <2> SUFFICES ASSUME NEW k \in Reader, report[k].kind = "stats", ~straddled[k]
               PROVE  Counting(report[k].answers)'
    BY <1>4 DEF StatsInv
  <2>1. PICK answers : answers = report[k].answers
    OBVIOUS
  <2>2. Counting(answers)'
    BY <1>3, <1>4, <2>1 DEF StatsInv
  <2> QED
    BY <1>4, <2>1, <2>2 DEF Counting
<1>5. CASE UNCHANGED vars \/ DeleteAuditLogs \/ DeleteTransactions \/ AbortReset
  <2>1. UNCHANGED <<status, report, straddled>>
    BY <1>5 DEF vars, ledgerVars, DeleteAuditLogs, DeleteTransactions, AbortReset
  <2> QED
    BY <1>4, <2>1 DEF Rows, Exists
<1>6. ASSUME NEW t \in Touched, HandlerCommit(t) PROVE StatsInv'
  <2>1. t \in Tx
    BY DemoResetAssumption
  <2>2. PICK row \in LogRow : status' = [status EXCEPT ![t] = row.status]
    BY <1>6, <2>1, CommitAppends DEF HandlerCommit
  <2>3. row.status # "ABSENT"
    BY DEF LogRow, Status
  <2>4. Rows \subseteq Rows'
    BY <2>2, <2>3 DEF Rows, Exists, ResetTypeOK
  <2> QED
    BY <1>4, <1>6, <2>4 DEF HandlerCommit, Commit
<1>7. ASSUME NEW t \in Tx, NEW d \in Decision, HandlerInsert(t, d) PROVE StatsInv'
  <2>1. status' = [status EXCEPT ![t] = InitialStatus(d)] /\ UNCHANGED <<report, straddled>>
    BY <1>7 DEF HandlerInsert, InsertRow
  <2>2. InitialStatus(d) # "ABSENT"
    BY DEF InitialStatus, Decision
  <2>3. Rows \subseteq Rows'
    BY <2>1, <2>2 DEF Rows, Exists, ResetTypeOK
  <2> QED
    BY <1>4, <2>1, <2>3
<1>8. CASE CommitReset
  <2>1. report' = report /\ straddled' = [k \in Reader |-> straddled[k] \/ Started(k)]
    BY <1>8 DEF CommitReset
  <2>2. ASSUME NEW k \in Reader, report[k].kind = "stats", ~straddled'[k]
        PROVE  Counting(report[k].answers)'
    <3>1. ~straddled[k] /\ ~Started(k)
      BY <2>1, <2>2
    <3>2. PICK answers : answers = report[k].answers
      OBVIOUS
    <3>3. Counting(answers)
      BY <2>2, <3>1, <3>2 DEF StatsInv
    <3>4. answers = <<>> \/ Len(answers) = 3
      BY <2>2, <3>1, <3>2, StatsKind DEF Started, Done
    <3>5. answers # <<>> => \A n, byStatus : answers # <<n>> /\ answers # <<n, byStatus>>
      <4>1. \A n, byStatus : Len(<<n>>) = 1 /\ Len(<<n, byStatus>>) = 2
        OBVIOUS
      <4> QED
        BY <3>4, <4>1
    <3>6. \/ answers = <<>>
          \/ \E n, byStatus, byDecision :
                /\ n \in Nat /\ answers = <<n, byStatus, byDecision>>
                /\ n <= SumOf(byStatus, Status)
                /\ SumOf(byStatus, Status) <= SumOf(byDecision, Decision)
      <4> HIDE DEF SumOf
      <4> QED
        BY <3>3, <3>5, Zenon DEF Counting
    <3>7. Counting(answers)'
      BY <3>6 DEF Counting, SumOf
    <3> QED
      BY <2>1, <3>2, <3>7 DEF Counting
  <2> QED
    BY <2>1, <2>2 DEF StatsInv
<1>9. ASSUME NEW k \in Reader, ReportStep(k) PROVE StatsInv'
  <2>1. /\ UNCHANGED ledgerVars /\ Rows' = Rows
        /\ straddled' = [straddled EXCEPT ![k] = @ /\ report'[k] # NoReport]
    BY <1>9 DEF ReportStep, Ask, Read, FailRead, Respond, ledgerVars, Rows, Exists
  <2>2. \E kind, answers : report' = [report EXCEPT ![k] = Asked(kind, answers)]
    BY <1>9 DEF ReportStep, Ask, Read, FailRead, Respond, NoReport
  <2>3. \A j \in Reader \ {k} : report'[j] = report[j] /\ straddled'[j] = straddled[j]
    BY <2>1, <2>2 DEF ReportTypeOK
  <2>4. ASSUME NEW j \in Reader, report'[j].kind = "stats", ~straddled'[j]
        PROVE  Counting(report[j].answers)'
    <3>1. CASE j # k
      <4>1. PICK answers : answers = report[j].answers
        OBVIOUS
      <4>2. Counting(answers)
        BY <2>3, <2>4, <3>1, <4>1 DEF StatsInv
      <4>3. Counting(answers)'
        BY <1>3, <2>1, <4>2
      <4> QED
        BY <2>3, <3>1, <4>1, <4>3 DEF Counting
    <3>2. CASE j = k /\ report'[k].answers = <<>>
      BY <3>2 DEF Counting
    <3>3. CASE j = k /\ Read(k)
      <4>1. report'[k].kind = report[k].kind
        BY <3>3 DEF Read, ReportTypeOK, Asked
      <4>2. report'[k] # NoReport
        BY <2>4, <3>3 DEF NoReport, Asked
      <4>3. ~straddled[k]
        BY <2>1, <2>4, <3>3, <4>2 DEF ReportTypeOK
      <4> QED
        BY <2>1, <2>4, <3>3, <4>1, <4>3, ReadCounts DEF StatsInv
    <3>4. Read(k) \/ report'[k].answers = <<>>
      BY <1>9 DEF ReportStep, Ask, FailRead, Respond, NoReport, Asked, ReportTypeOK
    <3> QED
      BY <3>1, <3>2, <3>3, <3>4
  <2> QED
    BY <2>4 DEF StatsInv
<1> QED
  BY <1>5, <1>6, <1>7, <1>8, <1>9 DEF Next, ResetStep

(* /stats never misses a withdrawal it has counted: by status it counts what the
   total counted, and by decision what it counted by status, for any number of
   reports, whatever is requested and committed between its SELECTs, unless the
   reset's commit comes between them. *)
THEOREM StatsComplete == Spec => []StatsNeverMiss
<1>1. ResetInit => StatsInv
  BY DEF ResetInit, ReportsInit, StatsInv, NoReport, Asked
<1>2. StatsInv => StatsNeverMiss
  <2> SUFFICES ASSUME StatsInv, NEW k \in Reader, Trusted(k), report[k].kind = "stats"
               PROVE  /\ Shown(k, "total") <= SumOf(Shown(k, "by_status"), Status)
                      /\ SumOf(Shown(k, "by_status"), Status)
                            <= SumOf(Shown(k, "by_policy_decision"), Decision)
    BY DEF StatsNeverMiss, CountsAll, SumOf
  <2>1. Counting(report[k].answers) /\ Len(report[k].answers) = 3
    BY StatsKind DEF StatsInv, Trusted, Done
  <2>2. Len(<<>>) = 0 /\ \A n, s : Len(<<n>>) = 1 /\ Len(<<n, s>>) = 2
    OBVIOUS
  <2>3. PICK n, s, d :
            /\ n \in Nat /\ report[k].answers = <<n, s, d>>
            /\ n <= SumOf(s, Status) /\ SumOf(s, Status) <= SumOf(d, Decision)
    <3>1. PICK answers : answers = report[k].answers
      OBVIOUS
    <3>2. Counting(answers) /\ Len(answers) = 3
      BY <2>1, <3>1
    <3>3. \E n, s, d :
            /\ n \in Nat /\ answers = <<n, s, d>>
            /\ n <= SumOf(s, Status) /\ SumOf(s, Status) <= SumOf(d, Decision)
      <4>1. 0 # 3 /\ 1 # 3 /\ 2 # 3
        OBVIOUS
      <4>2. answers # <<>> /\ \A n, s : answers # <<n>> /\ answers # <<n, s>>
        BY <2>2, <3>2, <4>1
      <4> QED
        BY <3>2, <4>2, Zenon DEF Counting
    <3> QED
      BY <3>1, <3>3
  <2>4. /\ Shown(k, "total") = n /\ Shown(k, "by_status") = s
        /\ Shown(k, "by_policy_decision") = d
    <3> DEFINE queries == <<"total", "by_status", "by_policy_decision">>
    <3>1. \A i \in DOMAIN queries : /\ queries[i] = "total" <=> i = 1
                                    /\ queries[i] = "by_status" <=> i = 2
                                    /\ queries[i] = "by_policy_decision" <=> i = 3
      OBVIOUS
    <3>2. DOMAIN queries = 1 .. 3
      OBVIOUS
    <3>3. Queries[report[k].kind] = queries
      BY StatsKind
    <3> HIDE DEF queries
    <3>4. /\ (CHOOSE i \in DOMAIN queries : queries[i] = "total") = 1
          /\ (CHOOSE i \in DOMAIN queries : queries[i] = "by_status") = 2
          /\ (CHOOSE i \in DOMAIN queries : queries[i] = "by_policy_decision") = 3
      BY <3>1, <3>2
    <3>5. PICK answers : answers = report[k].answers
      OBVIOUS
    <3>6. answers[1] = n /\ answers[2] = s /\ answers[3] = d
      BY <2>3, <3>5
    <3>7. /\ Shown(k, "total") = answers[1] /\ Shown(k, "by_status") = answers[2]
          /\ Shown(k, "by_policy_decision") = answers[3]
      BY <3>3, <3>4, <3>5, Zenon DEF Shown
    <3> QED
      BY <3>6, <3>7
  <2> QED
    BY <2>3, <2>4
<1>3. ResetInit => ReportTypeOK /\ ExplainedInv
  BY ExplainedStart
<1> QED
  BY <1>1, <1>2, <1>3, ResetStart, ResetNext, ExplainedNext, StatsNext, PTL DEF Spec

=============================================================================
