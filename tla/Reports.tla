------------------------------ MODULE Reports ------------------------------
(***************************************************************************)
(* The reports that take several SELECTs: /withdrawals/audit-all, one      *)
(* database's part of /multi-db, and /stats.  Each SELECT sees what was    *)
(* committed before it (READ COMMITTED), and the handlers of the           *)
(* withdrawals commit between them.  The demo reset, which can come        *)
(* between them too, and what a report can be trusted for, are in DemoReset.*)
(*                                                                         *)
(* Requests on one withdrawal may overlap (see Custody), so a commit of    *)
(* any handler can follow any other.  Of the columns, reports are compared *)
(* by the status and the decision; hashes are left out.                    *)
(***************************************************************************)
EXTENDS Ledger, FiniteSets, Functions

CONSTANTS
    Reader,     \* reports in service
    MaxEvents   \* bound: audit rows of a withdrawal

ASSUME ReportsAssumption == MaxEvents \in Nat

VARIABLE report     \* report[k]: the kind asked for, and the answers so far

Rows == {t \in Tx : Exists(t)}

-----------------------------------------------------------------------------
\* Mutant: the audit rows are read before the withdrawals they explain.
AuditAllQueries_LogsFirst == <<"audit_logs", "transactions">>

(* get_all_audit_logs *)
AuditAllQueries == <<"transactions", "audit_logs">>

(* _query_db *)
MultiDbQueries == <<"transactions", "audit_logs">>

\* Mutant: the total is counted last.
StatsQueries_TotalLast == <<"by_status", "by_policy_decision", "total">>

(* get_stats; its counts of ledgers and of the whitelist stand alone. *)
StatsQueries == <<"total", "by_status", "by_policy_decision">>

Queries == [audit_all |-> AuditAllQueries, multi_db |-> MultiDbQueries, stats |-> StatsQueries]

Answer(query) ==
    CASE query = "transactions" -> [t \in Rows |-> [status |-> status[t], decision |-> decision[t]]]
      [] query = "audit_logs" -> [t \in Tx |-> {log[t][i].status : i \in DOMAIN log[t]}]
      [] query = "total" -> Cardinality(Rows)
      [] query = "by_status" -> [s \in Status |-> Cardinality({t \in Rows : status[t] = s})]
      [] query = "by_policy_decision" ->
            [d \in Decision |-> Cardinality({t \in Rows : decision[t] = d})]

Asked(kind, answers) == [kind |-> kind, answers |-> answers]
NoReport == Asked("none", <<>>)

Done(k) ==
    report[k].kind \in DOMAIN Queries /\ Len(report[k].answers) = Len(Queries[report[k].kind])

-----------------------------------------------------------------------------
ReportsInit == report = [k \in Reader |-> NoReport]

Ask(k, kind) ==
    /\ report[k] = NoReport
    /\ report' = [report EXCEPT ![k] = Asked(kind, <<>>)]
    /\ UNCHANGED ledgerVars

(* The next SELECT of the report. *)
Read(k) ==
    LET answers == report[k].answers
    IN  /\ report[k].kind \in DOMAIN Queries /\ ~Done(k)
        /\ report' = [report EXCEPT ![k] = Asked(report[k].kind,
                Append(answers, Answer(Queries[report[k].kind][Len(answers) + 1])))]
        /\ UNCHANGED ledgerVars

(* A SELECT raises.  /multi-db answers with an error and no rows, the others
   with 500; either way what was read is not shown. *)
FailRead(k) ==
    /\ report[k].kind \in DOMAIN Queries /\ ~Done(k)
    /\ report' = [report EXCEPT ![k] = NoReport]
    /\ UNCHANGED ledgerVars

(* The answer leaves; withdrawals and audit rows are joined by their ids. *)
Respond(k) ==
    /\ Done(k)
    /\ report' = [report EXCEPT ![k] = NoReport]
    /\ UNCHANGED ledgerVars

Commits == {<<"APPROVED", "PENDING">>, <<"REJECTED", "FAILED">>}
           \cup {<<s, s>> : s \in {"SIGNED", "BROADCAST", "SETTLED", "FAILED"}}

(* A handler commits. *)
Commit(t) ==
    /\ Exists(t) /\ Len(log[t]) < MaxEvents
    /\ \E c \in Commits : UpdateStatus(t, c[1], c[2], NoHash)
    /\ UNCHANGED report

-----------------------------------------------------------------------------
Shown(k, query) ==
    report[k].answers[CHOOSE i \in DOMAIN Queries[report[k].kind] :
                        Queries[report[k].kind][i] = query]

(* Every status shown is the initial one or in the trail shown with it. *)
ShowsExplained(k) ==
    report[k].kind \in {"audit_all", "multi_db"} =>
        LET shown == Shown(k, "transactions")
        IN  \A t \in DOMAIN shown :
                \/ shown[t].status = InitialStatus(shown[t].decision)
                \/ shown[t].status \in Shown(k, "audit_logs")[t]

(* Every part counts what the parts before it counted. *)
CountsAll(k) ==
    report[k].kind = "stats" =>
        LET byStatus == Shown(k, "by_status")
            byDecision == Shown(k, "by_policy_decision")
        IN  /\ Shown(k, "total") <= SumFunctionOnSet(byStatus, Status)
            /\ SumFunctionOnSet(byStatus, Status) <= SumFunctionOnSet(byDecision, Decision)

=============================================================================
