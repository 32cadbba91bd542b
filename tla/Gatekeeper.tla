----------------------------- MODULE Gatekeeper -----------------------------
(***************************************************************************)
(* POST /withdrawals: the policy's decision on a request, made from two    *)
(* reads of the database and committed by a third access, while other      *)
(* requests, administrators of the whitelist, the withdrawals' lifecycles  *)
(* and the clock go on.                                                    *)
(*                                                                         *)
(* A slot is a request in service: |Slot| requests are served at a time,   *)
(* by one server or several, since nothing but the database is shared.     *)
(***************************************************************************)
EXTENDS Naturals, Sequences, FiniteSetsExt

CONSTANTS
    Slot,
    LedgerId,
    Address,
    Amount,     \* the amounts withdrawals are requested of
    Limit,      \* daily_withdrawal_limit
    MaxRows,    \* bound: rows of the transactions table
    MaxDay      \* bound: the last day, counted from 0

ASSUME GatekeeperAssumption ==
    /\ Amount \subseteq Nat \ {0}       \* WithdrawalRequest's validator
    /\ Limit \in Nat
    /\ IsFiniteSet(Slot)
    /\ MaxRows \in Nat /\ MaxDay \in Nat

VARIABLES
    whitelist,  \* addresses of the whitelist table
    rows,       \* the transactions table, in the order of the commits
    today,      \* the UTC day
    slot        \* slot[k]: the local state of the coroutine that serves k

vars == <<whitelist, rows, today, slot>>

Body == [ledger : LedgerId, address : Address, amount : Amount]
Free == [pc |-> "free"]

Init ==
    /\ whitelist \in SUBSET Address
    /\ rows = <<>>
    /\ today = 0
    /\ slot = [k \in Slot |-> Free]

-----------------------------------------------------------------------------
\* Mutant: the policy compares each amount, and not the day's sum, with the limit.
Evaluate_SingleAmount(listed, amount, spent) ==
    CASE amount <= 0 \/ ~listed -> "BLOCK"
      [] amount > Limit -> "CHALLENGE"
      [] OTHER -> "ALLOW"

(* PolicyEngine.evaluate *)
Evaluate(listed, amount, spent) ==
    CASE amount <= 0 \/ ~listed -> "BLOCK"
      [] amount > 0 /\ listed /\ spent + amount > Limit -> "CHALLENGE"
      [] OTHER -> "ALLOW"

\* Mutant: a decision status_map does not list is stored as the status.
StatusOf_Unmapped(decision) == IF decision = "ALLOW" THEN "PENDING" ELSE decision

(* A withdrawal past its review stays PENDING here until it fails: SIGNED,
   BROADCAST and SETTLED count like PENDING in fetch_daily_spent. *)
StatusOf(decision) ==
    CASE decision = "ALLOW" -> "PENDING"
      [] decision = "CHALLENGE" -> "PENDING_REVIEW"
      [] decision = "BLOCK" -> "FAILED"

Counts(row) == row.status \notin {"FAILED", "PENDING_REVIEW"}

SumOf(I) == SumFunctionOnSet([i \in DOMAIN rows |-> rows[i].amount], I)

(* fetch_daily_spent, day being that of today_start. *)
DailySpent(l, day) ==
    SumOf({i \in DOMAIN rows : rows[i].ledger = l /\ Counts(rows[i]) /\ rows[i].day >= day})

-----------------------------------------------------------------------------
(* request_withdrawal *)

Receive(k, body) ==
    /\ slot[k].pc = "free"
    /\ slot' = [slot EXCEPT ![k] =
            [pc |-> "received", body |-> body, seen |-> {body.address \in whitelist}]]
    /\ UNCHANGED <<whitelist, rows, today>>

\* Mutant: a whitelist read once is kept for the requests that follow.
FetchWhitelist_Cached(k) ==
    /\ slot[k].pc = "received"
    /\ \E listed \in BOOLEAN : slot' = [slot EXCEPT ![k] =
            [pc |-> "listed", body |-> slot[k].body, seen |-> slot[k].seen,
             listed |-> listed, since |-> today]]
    /\ UNCHANGED <<whitelist, rows, today>>

FetchWhitelist(k) ==
    /\ slot[k].pc = "received"
    /\ slot' = [slot EXCEPT ![k] =
            [pc |-> "listed", body |-> slot[k].body, seen |-> slot[k].seen,
             listed |-> slot[k].body.address \in whitelist, since |-> today]]
    /\ UNCHANGED <<whitelist, rows, today>>

(* today_start is computed between the two reads, before the query is sent. *)
FetchDailySpent(k) ==
    /\ slot[k].pc = "listed"
    /\ \E day \in slot[k].since .. today : slot' = [slot EXCEPT ![k] =
            [pc |-> "priced", body |-> slot[k].body, seen |-> slot[k].seen,
             decision |-> Evaluate(slot[k].listed, slot[k].body.amount,
                                   DailySpent(slot[k].body.ledger, day))]]
    /\ UNCHANGED <<whitelist, rows, today>>

(* save_transaction: commit() flushes first, and the flush takes created_at. *)
Flush(k) ==
    /\ slot[k].pc = "priced"
    /\ slot' = [slot EXCEPT ![k] =
            [pc |-> "flushed", body |-> slot[k].body, seen |-> slot[k].seen,
             decision |-> slot[k].decision, day |-> today]]
    /\ UNCHANGED <<whitelist, rows, today>>

(* The commit: others see the row from now on.  Two of its fields are histories
   no step reads: seen is what the whitelist said of the address while the
   request was served, lapsed whether the withdrawal has ever failed. *)
SaveTransaction(k) ==
    LET s == slot[k]
    IN  /\ s.pc = "flushed" /\ Len(rows) < MaxRows
        /\ rows' = Append(rows, [ledger |-> s.body.ledger, amount |-> s.body.amount,
                decision |-> s.decision, status |-> StatusOf(s.decision),
                day |-> s.day, seen |-> s.seen, lapsed |-> FALSE])
        /\ slot' = [slot EXCEPT ![k] = Free]
        /\ UNCHANGED <<whitelist, today>>

(* A read or the INSERT raises, or the server dies. *)
Fail(k) ==
    /\ slot[k].pc # "free"
    /\ slot' = [slot EXCEPT ![k] = Free]
    /\ UNCHANGED <<whitelist, rows, today>>

-----------------------------------------------------------------------------
(* The requests in service on address a see the whitelist change. *)
Witness(a, listed) ==
    slot' = [k \in Slot |->
        IF slot[k].pc # "free" /\ slot[k].body.address = a
        THEN [slot[k] EXCEPT !.seen = @ \cup {listed}] ELSE slot[k]]

(* POST /whitelist; a duplicate violates the unique constraint: 409. *)
AddWhitelistEntry(a) ==
    /\ a \notin whitelist
    /\ whitelist' = whitelist \cup {a}
    /\ Witness(a, TRUE)
    /\ UNCHANGED <<rows, today>>

(* DELETE /whitelist/{address}; no row deleted: 404. *)
DeleteWhitelistEntry(a) ==
    /\ a \in whitelist
    /\ whitelist' = whitelist \ {a}
    /\ Witness(a, FALSE)
    /\ UNCHANGED <<rows, today>>

Moved(row, s) == [row EXCEPT !.status = s, !.lapsed = @ \/ s = "FAILED"]

(* The steps of a lifecycle fetch_daily_spent can tell: an approval; a failure
   (rejected, not broadcast, reverted); and the return of a failed withdrawal,
   by a handler that read its row before the failure and commits after it.  A
   blocked withdrawal was never in a status that a handler acts upon. *)
Advance(i) ==
    /\ rows[i].decision # "BLOCK"
    /\ \E s \in {"PENDING", "FAILED"} \ {rows[i].status} :
        rows' = [rows EXCEPT ![i] = Moved(rows[i], s)]
    /\ UNCHANGED <<whitelist, today, slot>>

Midnight ==
    /\ today < MaxDay
    /\ today' = today + 1
    /\ UNCHANGED <<whitelist, rows, slot>>

Next ==
    \/ \E k \in Slot :
        \/ \E body \in Body : Receive(k, body)
        \/ FetchWhitelist(k) \/ FetchDailySpent(k)
        \/ Flush(k) \/ SaveTransaction(k) \/ Fail(k)
    \/ \E a \in Address : AddWhitelistEntry(a) \/ DeleteWhitelistEntry(a)
    \/ \E i \in DOMAIN rows : Advance(i)
    \/ Midnight

Spec == Init /\ [][Next]_vars

-----------------------------------------------------------------------------
Row == [ledger : LedgerId, amount : Amount, decision : {"ALLOW", "CHALLENGE", "BLOCK"},
        status : {"PENDING", "PENDING_REVIEW", "FAILED"}, day : 0..MaxDay,
        seen : SUBSET BOOLEAN, lapsed : BOOLEAN]

(* The tables hold rows of their types; a coroutine holds what it read so far. *)
TypeOK ==
    /\ whitelist \subseteq Address
    /\ rows \in Seq(Row) /\ Len(rows) <= MaxRows
    /\ today \in 0..MaxDay
    /\ DOMAIN slot = Slot
    /\ \A k \in Slot :
        \/ slot[k] = Free
        \/ slot[k] \in [pc : {"received"}, body : Body, seen : SUBSET BOOLEAN]
        \/ slot[k] \in [pc : {"listed"}, body : Body, seen : SUBSET BOOLEAN,
                        listed : BOOLEAN, since : 0..today]
        \/ slot[k] \in [pc : {"priced"}, body : Body, seen : SUBSET BOOLEAN,
                        decision : {"ALLOW", "CHALLENGE", "BLOCK"}]
        \/ slot[k] \in [pc : {"flushed"}, body : Body, seen : SUBSET BOOLEAN,
                        decision : {"ALLOW", "CHALLENGE", "BLOCK"}, day : 0..today]

AllowedRows(l, day) ==
    {i \in DOMAIN rows : /\ rows[i].ledger = l /\ rows[i].day = day
                         /\ Counts(rows[i]) /\ rows[i].decision = "ALLOW"}

AllowedOn(l, day) == SumOf(AllowedRows(l, day))

Revived(l, day) == {i \in AllowedRows(l, day) : rows[i].lapsed}

(* request_withdrawal reads the day's sum and inserts without a lock, and
   process_pending, with an old read, takes up a withdrawal that has failed and
   whose sum may be spent again: what was allowed without review on one day is
   bounded by the limit times the requests served at once, and one limit more
   for each withdrawal that came back after its failure.  No other run of
   requests, failures, approvals and midnights adds to it. *)
AllowedWithinSlots ==
    \A l \in LedgerId, day \in 0..today :
        AllowedOn(l, day) <= (Cardinality(Slot) + Cardinality(Revived(l, day))) * Limit

(* The whitelist a decision rests on held at some moment of the request: an
   address removed before a request came is not paid, one added before it came
   is not blocked. *)
WhitelistIsCurrent ==
    \A i \in DOMAIN rows : (rows[i].decision # "BLOCK") \in rows[i].seen

(* README.md:8: daily withdrawal limit policy checks. *)
DailyLimitHolds ==
    \A l \in LedgerId, day \in 0..today : AllowedOn(l, day) <= Limit

=============================================================================
