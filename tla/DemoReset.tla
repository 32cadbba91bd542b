------------------------------ MODULE DemoReset ------------------------------
(***************************************************************************)
(* scripts/reset_demo.py beside the API.  One database transaction deletes *)
(* the audit rows, then the withdrawals, and seeds ten withdrawals with    *)
(* fixed ids.  Nobody sees any of it before its commit, but each of its    *)
(* statements sees what handlers committed until then (READ COMMITTED):    *)
(*   - the audit row of a handler that commits between the two DELETEs is  *)
(*     missed by the first, while its withdrawal is deleted by the second; *)
(*   - a handler's UPDATE of a deleted row waits for the reset's commit,   *)
(*     then matches no row, and its flush raises: nothing is committed;    *)
(*   - a withdrawal inserted after the second DELETE outlives the reset.   *)
(* Seeds are the withdrawals 1 to 10, which were seeded by an earlier      *)
(* reset as well; later numbers are the API's, with ids of their own.      *)
(***************************************************************************)
EXTENDS Reports

CONSTANTS
    Touched,    \* bound: the withdrawals whose handlers commit
    MaxCommits  \* bound: the number of their commits and of new requests

VARIABLES
    phase,      \* the statement the reset executed last
    cut,        \* cut[t]: audit rows of t that its first DELETE deleted
    gone,       \* the rows that its second DELETE deleted
    commits,    \* number of the handlers' commits, INSERTs included
    raced,      \* history: a handler committed between the two DELETEs
    straddled   \* history: the reset committed between two SELECTs of the report

resetVars == <<phase, cut, gone>>
vars == <<ledgerVars, report, resetVars, commits, raced, straddled>>

Seed(d, statuses) == [decision |-> d, trail |-> statuses]

(* SEED_SQL: the policy's decision and the audit rows, CREATED for the first one
   and named like their status after it. *)
Seeds == <<
    Seed("ALLOW", <<"PENDING">>),
    Seed("ALLOW", <<"PENDING">>),
    Seed("ALLOW", <<"PENDING">>),
    Seed("CHALLENGE", <<"PENDING_REVIEW">>),
    Seed("BLOCK", <<"FAILED">>),
    Seed("ALLOW", <<"PENDING", "SIGNED", "BROADCAST", "SETTLED">>),
    Seed("ALLOW", <<"PENDING", "SIGNED", "BROADCAST">>),
    Seed("CHALLENGE", <<"PENDING_REVIEW">>),
    Seed("ALLOW", <<"PENDING", "SIGNED", "FAILED">>),
    Seed("ALLOW", <<"PENDING", "SIGNED">>) >>

ASSUME DemoResetAssumption ==
    MaxTx >= Len(Seeds) /\ MaxCommits \in Nat /\ Touched \subseteq Tx

SeedStatus(t) == Seeds[t].trail[Len(Seeds[t].trail)]
SeedTrail(t) ==
    [i \in DOMAIN Seeds[t].trail |->
        [event |-> IF i = 1 THEN "CREATED" ELSE Seeds[t].trail[i],
         status |-> Seeds[t].trail[i], hash |-> NoHash]]

Seeded == DOMAIN Seeds

ResetInit ==
    /\ status = [t \in Tx |-> IF t \in Seeded THEN SeedStatus(t) ELSE "ABSENT"]
    /\ decision = [t \in Tx |-> IF t \in Seeded THEN Seeds[t].decision ELSE "BLOCK"]
    /\ txHash = [t \in Tx |-> NoHash]
    /\ settledAt = [t \in Tx |-> FALSE]
    /\ log = [t \in Tx |-> IF t \in Seeded THEN SeedTrail(t) ELSE <<>>]
    /\ ReportsInit
    /\ phase = "waiting" /\ gone = {} /\ cut = [t \in Tx |-> 0]
    /\ commits = 0 /\ raced = FALSE /\ straddled = [k \in Reader |-> FALSE]

-----------------------------------------------------------------------------
\* Mutant: the audit rows are not deleted.
DeleteAuditLogs_Skipped ==
    /\ phase = "waiting"
    /\ phase' = "logs deleted"
    /\ UNCHANGED <<ledgerVars, report, cut, gone, commits, raced, straddled>>

DeleteAuditLogs ==
    /\ phase = "waiting"
    /\ phase' = "logs deleted"
    /\ cut' = [t \in Tx |-> Len(log[t])]
    /\ UNCHANGED <<ledgerVars, report, gone, commits, raced, straddled>>

DeleteTransactions ==
    /\ phase = "logs deleted"
    /\ phase' = "rows deleted"
    /\ gone' = Rows
    /\ UNCHANGED <<ledgerVars, report, cut, commits, raced, straddled>>

Started(k) == report[k].answers # <<>> /\ ~Done(k)

(* The seeds are inserted, and all becomes visible.  transaction_id is no foreign
   key: audit rows the reset missed stay, later than the seeds' and under the
   same ids. *)
CommitReset ==
    LET kept(t) == SubSeq(log[t], cut[t] + 1, Len(log[t]))
    IN  /\ phase = "rows deleted"
        /\ phase' = "committed"
        /\ status' = [t \in Tx |-> IF t \in Seeded THEN SeedStatus(t)
                                   ELSE IF t \in gone THEN "ABSENT" ELSE status[t]]
        /\ decision' = [t \in Tx |-> IF t \in Seeded THEN Seeds[t].decision ELSE decision[t]]
        /\ log' = [t \in Tx |-> IF t \in Seeded THEN SeedTrail(t) \o kept(t) ELSE kept(t)]
        /\ straddled' = [k \in Reader |-> straddled[k] \/ Started(k)]
        /\ UNCHANGED <<txHash, settledAt, report, cut, gone, commits, raced>>

(* The script dies, or a statement raises: its transaction is rolled back. *)
AbortReset ==
    /\ phase \in {"logs deleted", "rows deleted"}
    /\ phase' = "aborted" /\ gone' = {}
    /\ raced' = FALSE
    /\ UNCHANGED <<ledgerVars, report, cut, commits, straddled>>

ResetStep == DeleteAuditLogs \/ DeleteTransactions \/ CommitReset \/ AbortReset

-----------------------------------------------------------------------------
(* A handler commits, by the id of a row it read at any time before; a deleted row
   is locked until the reset ends. *)
HandlerCommit(t) ==
    /\ commits < MaxCommits
    /\ phase = "rows deleted" => t \notin gone
    /\ Commit(t)
    /\ commits' = commits + 1
    /\ raced' = (raced \/ phase = "logs deleted")
    /\ UNCHANGED <<resetVars, straddled>>

(* A new id: a number whose withdrawal is gone is skipped, never used again. *)
HandlerInsert(t, d) ==
    /\ commits < MaxCommits
    /\ t \notin Rows \cup gone /\ 1..(t - 1) \subseteq Rows \cup gone
    /\ InsertRow(t, d)
    /\ commits' = commits + 1
    /\ UNCHANGED <<resetVars, report, raced, straddled>>

ReportStep(k) ==
    /\ \/ \E kind \in DOMAIN Queries : Ask(k, kind)
       \/ Read(k)
       \/ FailRead(k)
       \/ Respond(k)
    /\ straddled' = [straddled EXCEPT ![k] = @ /\ report'[k] # NoReport]
    /\ UNCHANGED <<resetVars, commits, raced>>

Next ==
    \/ ResetStep
    \/ \E t \in Touched : HandlerCommit(t)
    \/ \E t \in Tx, d \in Decision : HandlerInsert(t, d)
    \/ \E k \in Reader : ReportStep(k)

Spec == ResetInit /\ [][Next]_vars

-----------------------------------------------------------------------------
Trusted(k) == Done(k) /\ ~straddled[k]

(* A report of withdrawals with their trails never shows a status its trail does
   not explain: the SELECTs are not one snapshot, but the trail is read after
   the status it belongs to, and every status is committed with its audit row.
   Only a report that the reset's commit cuts in two can. *)
TrailExplainsStatus == \A k \in Reader : Trusted(k) => ShowsExplained(k)

(* /stats reads its parts one after the other while withdrawals are requested and
   move: every part counts each of the withdrawals of the parts before it once,
   so a part may exceed the total but never miss what the total counted, unless
   the reset deleted it in between. *)
StatsNeverMiss == \A k \in Reader : Trusted(k) => CountsAll(k)

(* reset_demo.py deletes in two statements what handlers commit in one.  The gap
   between the two is the only harm this does: unless a handler committed in it,
   every audit row has its withdrawal and every trail ends with the status of its
   withdrawal, during, after and without a reset. *)
TrailsMatchUnlessRaced ==
    ~raced => \A t \in Tx :
        log[t] # <<>> => Exists(t) /\ status[t] = log[t][Len(log[t])].status

=============================================================================
