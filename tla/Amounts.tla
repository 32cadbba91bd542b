------------------------------- MODULE Amounts -------------------------------
(***************************************************************************)
(* What becomes of an amount on its way from the request to the payload:   *)
(* Decimal arithmetic in a context of 28 significant digits (the policy's  *)
(* sum and eth_to_wei), and the column Numeric(36, 18), which rounds to a  *)
(* wei.  Scaled down: Precision digits stand for the 28, Digits for the 36 *)
(* of the column, and a client can ask for hundredths of a wei.            *)
(*                                                                         *)
(* Requests come one after the other, to whitelisted addresses and on one  *)
(* day; Gatekeeper has the rest.  What a process does after the payload is *)
(* built is Custody's subject: here it succeeds or fails.                  *)
(***************************************************************************)
EXTENDS Integers, Sequences, FiniteSetsExt, Functions

CONSTANTS
    Precision,  \* significant digits of Python's decimal context
    Digits,     \* digits of a stored amount, in wei
    DailyLimit, \* daily_withdrawal_limit, in wei
    Asked,      \* the amounts clients ask for, in hundredths of a wei
    MaxRows     \* bound: the number of withdrawals

(* Powers of ten. *)
Ten[k \in Nat] == IF k = 0 THEN 1 ELSE 10 * Ten[k - 1]

(* The limit has a digit less than the context: 10 000 ETH by default, 23 digits. *)
ASSUME AmountsAssumption ==
    /\ Precision \in Nat \ {0, 1} /\ Digits \in Nat /\ MaxRows \in Nat
    /\ DailyLimit \in 0 .. (Ten[Precision - 1] - 1)
    /\ Asked \subseteq Int

VARIABLE rows   \* the withdrawals, in the order of created_at: the amount
                \* stored, the decision, the status and the payload's value

vars == rows

NotBuilt == 0   \* the value before a payload is built

-----------------------------------------------------------------------------
HalfEven(v, unit) ==
    LET q == v \div unit
        r == v % unit
    IN  unit * (IF 2 * r < unit \/ (2 * r = unit /\ q % 2 = 0) THEN q ELSE q + 1)

(* A result of decimal arithmetic: at most so many significant digits. *)
InContext(v, digits) ==
    LET excess == {k \in 1 .. (Digits + 3) : v >= Ten[digits + k - 1]}
    IN  HalfEven(v, Ten[Cardinality(excess)])

(* Numeric(36, 18) keeps whole wei, a half is rounded up. *)
Store(amount) == (amount + 50) \div 100

\* Mutant: the product is computed in floating point, with fewer digits.
EthToWei_Float(stored) == InContext(stored, Precision - 1)

(* eth_to_wei; the row's amount is in wei here, but the product of the decimals
   is subject to the context. *)
EthToWei(stored) == InContext(stored, Precision)

Counts(row) == row.status \notin {"FAILED", "PENDING_REVIEW"}

(* The sum of the amounts stored in some of the rows. *)
SumOf(I) == SumFunctionOnSet([i \in DOMAIN rows |-> rows[i].stored], I)

DailySpent == SumOf({i \in DOMAIN rows : Counts(rows[i])})

\* Mutant: the policy compares whole wei.
Evaluate_Truncated(amount) ==
    IF DailySpent + (amount \div 100) > DailyLimit THEN "CHALLENGE" ELSE "ALLOW"

(* PolicyEngine.evaluate: the amount asked for is not rounded to a wei yet, and the
   sum is rounded by the context before it is compared. *)
Evaluate(amount) ==
    IF InContext(100 * DailySpent + amount, Precision) > 100 * DailyLimit THEN "CHALLENGE"
    ELSE "ALLOW"

-----------------------------------------------------------------------------
Init == rows = <<>>

(* The validator wants a positive amount, the column one that fits. *)
RequestWithdrawal(amount) ==
    /\ Len(rows) < MaxRows
    /\ amount > 0 /\ Store(amount) < Ten[Digits]
    /\ LET d == Evaluate(amount)
       IN  rows' = Append(rows, [stored |-> Store(amount), decision |-> d,
                status |-> IF d = "ALLOW" THEN "PENDING" ELSE "PENDING_REVIEW", value |-> NotBuilt])

Review(i) ==
    /\ rows[i].status = "PENDING_REVIEW"
    /\ \E s \in {"PENDING", "FAILED"} : rows' = [rows EXCEPT ![i].status = s]

(* build raises for dust, and the row stays as it is; otherwise the payload carries
   the value, whatever becomes of it. *)
ProcessWithdrawal(i) ==
    /\ rows[i].status = "PENDING" /\ rows[i].stored > 0
    /\ \E s \in {"BROADCAST", "FAILED"} :
        rows' = [rows EXCEPT ![i].status = s, ![i].value = EthToWei(rows[i].stored)]

Pending == {i \in DOMAIN rows : rows[i].status = "PENDING"}

\* Mutant: the newest withdrawal is taken first.
ProcessNext_Newest == Pending # {} /\ ProcessWithdrawal(Max(Pending))

(* process-next takes the oldest pending withdrawal, and no other if that raises. *)
ProcessNext == Pending # {} /\ ProcessWithdrawal(Min(Pending))

Next ==
    \/ \E amount \in Asked : RequestWithdrawal(amount)
    \/ \E i \in DOMAIN rows : Review(i) \/ ProcessWithdrawal(i)
    \/ ProcessNext

(* Somebody calls process-next again and again, as a worker's loop would. *)
Spec == Init /\ [][Next]_vars /\ WF_vars(ProcessNext)

-----------------------------------------------------------------------------
(* Two roundings, of the sum by the context and of the amount by the column, cannot
   conspire: what is stored for the withdrawals that were allowed without a review,
   and did not fail, stays within the daily limit. *)
AllowedWithinLimit ==
    SumOf({i \in DOMAIN rows : rows[i].decision = "ALLOW" /\ rows[i].status # "FAILED"})
        <= DailyLimit

(* At most half a unit apart. *)
Near(v, w, unit) == 2 * (v - w) <= unit /\ 2 * (w - v) <= unit

HasDigits(v, k) == v >= Ten[k - 1] /\ v < Ten[k]

(* eth_to_wei pays what the ledger says to the wei for everything the limit allows.
   Only an amount of more digits than the context's, which takes a review, is paid
   inexactly: by half a unit of the last of its own digits that the context keeps, at
   most. *)
PaysWhatIsStored ==
    \A i \in DOMAIN rows : rows[i].value # NotBuilt =>
        IF rows[i].decision = "ALLOW" \/ rows[i].stored < Ten[Precision]
        THEN rows[i].value = rows[i].stored
        ELSE \A k \in Precision + 1 .. Digits :
                HasDigits(rows[i].stored, k) =>
                    Near(rows[i].value, rows[i].stored, Ten[k - Precision])

(* process-next reaches every pending withdrawal, except behind a positive amount
   that the column rounded to 0: such a row raises in every attempt, stays the
   oldest pending one, and withdrawals younger than it are never taken. *)
WaitsOnlyBehindDust ==
    \A i \in 1 .. MaxRows :
        i \in Pending ~> i \notin Pending \/ \E j \in Pending : j <= i /\ rows[j].stored = 0

=============================================================================
