--------------------------- MODULE AmountsProofs ---------------------------
(***************************************************************************)
(* Theorems of Amounts, for every precision, limit and column, and any     *)
(* number of withdrawals: the roundings neither let the limit be exceeded  *)
(* nor change what an allowed withdrawal pays.                             *)
(***************************************************************************)
EXTENDS Amounts, SumProofs, SequenceTheorems

-----------------------------------------------------------------------------
(* Ten is what its definition says. *)
LEMMA TenSteps == Ten[0] = 1 /\ \A k \in Nat : Ten[k + 1] = 10 * Ten[k]
<1> DEFINE times == [p \in Int \X Nat |-> 10 * p[1]]
<1>1. \A v \in Int : \A k \in Nat : times[<<v, k>>] = 10 * v
  OBVIOUS
<1>2. PICK f \in [Nat -> Int] : Obeys(f, 1, times)
  <2>1. Closed(Int, times) /\ 1 \in Int
    BY <1>1 DEF Closed
  <2> HIDE DEF times
  <2> QED
    BY <2>1, NumberRecursion
<1>3. ASSUME NEW k \in Nat PROVE f[k] = IF k = 0 THEN 1 ELSE 10 * f[k - 1]
  <2>1. CASE k = 0
    BY <1>2, <2>1 DEF Obeys
  <2>2. CASE k # 0
    <3>1. k - 1 \in Nat /\ f[k - 1] \in Int /\ f[k] = times[<<f[k - 1], k>>]
      BY <1>2, <2>2 DEF Obeys
    <3> HIDE DEF times
    <3> QED
      BY <1>1, <2>2, <3>1
  <2> QED
    BY <2>1, <2>2
<1>4. f = [k \in Nat |-> IF k = 0 THEN 1 ELSE 10 * f[k - 1]]
  BY <1>3
<1>5. Ten = [k \in Nat |-> IF k = 0 THEN 1 ELSE 10 * Ten[k - 1]]
  BY <1>4, Zenon DEF Ten
<1>6. \A k \in Nat : Ten[k] = IF k = 0 THEN 1 ELSE 10 * Ten[k - 1]
  BY <1>5
<1> QED
  BY <1>6

(* A power divides the larger ones. *)
LEMMA TenPositive == \A k \in Nat : Ten[k] \in Nat /\ Ten[k] >= 1
<1> DEFINE Good == {k \in Nat : Ten[k] \in Nat /\ Ten[k] >= 1}
<1>1. Good \in SUBSET Nat /\ 0 \in Good
  BY TenSteps
<1>2. ASSUME NEW k \in Good PROVE k + 1 \in Good
  BY TenSteps
<1>3. Good = Nat
  <2> HIDE DEF Good
  <2> QED
    BY <1>1, <1>2, NumberInduction
<1> QED
  BY <1>3

LEMMA TenDivides ==
    ASSUME NEW k \in Nat, NEW n \in Nat, k <= n
    PROVE  \E q \in Nat : Ten[n] = q * Ten[k] /\ q >= 1
<1> DEFINE Good == {d \in Nat : \E q \in Nat : Ten[k + d] = q * Ten[k] /\ q >= 1}
<1>1. Good \in SUBSET Nat
  OBVIOUS
<1>2. 0 \in Good
  <2>1. Ten[k + 0] = 1 * Ten[k]
    BY TenPositive
  <2> QED
    BY <2>1
<1>3. ASSUME NEW d \in Good PROVE d + 1 \in Good
  <2>1. PICK q \in Nat : Ten[k + d] = q * Ten[k] /\ q >= 1
    BY <1>3
  <2>2. k + d \in Nat /\ (k + d) + 1 = k + (d + 1)
    OBVIOUS
  <2>3. Ten[k + (d + 1)] = 10 * Ten[k + d]
    BY <2>2, TenSteps
  <2>4. 10 * (q * Ten[k]) = (10 * q) * Ten[k]
    <3>1. PICK t \in Nat : t = Ten[k]
      BY TenPositive
    <3>2. 10 * (q * t) = (10 * q) * t
      OBVIOUS
    <3> QED
      BY <3>1, <3>2
  <2>5. 10 * q \in Nat /\ 10 * q >= 1
    BY <2>1
  <2> QED
    BY <2>1, <2>3, <2>4, <2>5
<1>4. Good = Nat
  <2> HIDE DEF Good
  <2> QED
    BY <1>1, <1>2, <1>3, NumberInduction
<1>5. n - k \in Good /\ k + (n - k) = n
  <2> HIDE DEF Good
  <2> QED
    BY <1>4
<1> QED
  BY <1>5

LEMMA TenGrows ==
    ASSUME NEW k \in Nat, NEW n \in Nat, k <= n
    PROVE  Ten[k] <= Ten[n]
<1>1. PICK q \in Nat : Ten[n] = q * Ten[k] /\ q >= 1
  BY TenDivides
<1>2. PICK t \in Nat : t = Ten[k]
  BY TenPositive
<1>3. t <= q * t
  BY <1>1
<1> QED
  BY <1>1, <1>2, <1>3

-----------------------------------------------------------------------------
(* Rounding to a multiple of unit. *)
LEMMA Division ==
    ASSUME NEW v \in Nat, NEW u \in Nat, u >= 1
    PROVE  /\ v \div u \in Nat /\ v % u \in Nat /\ v % u < u
           /\ v = u * (v \div u) + (v % u)
OBVIOUS

(* The result is off by half a unit at most. *)
LEMMA RoundedNear ==
    ASSUME NEW v \in Nat, NEW u \in Nat, u >= 1
    PROVE  /\ HalfEven(v, u) \in Nat
           /\ 2 * (HalfEven(v, u) - v) <= u /\ 2 * (v - HalfEven(v, u)) <= u
<1>1. PICK q \in Nat, r \in Nat : q = v \div u /\ r = v % u /\ r < u /\ v = u * q + r
  BY Division
<1>2. \/ HalfEven(v, u) = u * q /\ 2 * r <= u
      \/ HalfEven(v, u) = u * (q + 1) /\ 2 * r >= u
  BY <1>1 DEF HalfEven
<1>3. PICK p \in Nat : p = u * q
  OBVIOUS
<1>4. u * (q + 1) = p + u
  BY <1>3
<1> QED
  BY <1>1, <1>2, <1>3, <1>4

(* Nothing is rounded down past a multiple of the unit. *)
LEMMA RoundedAbove ==
    ASSUME NEW v \in Nat, NEW u \in Nat, u >= 1, NEW c \in Nat, v >= c * u
    PROVE  HalfEven(v, u) >= c * u
<1>1. PICK q \in Nat, r \in Nat : q = v \div u /\ r = v % u /\ r < u /\ v = u * q + r
  BY Division
<1>2. HalfEven(v, u) = u * q \/ HalfEven(v, u) = u * (q + 1)
  BY <1>1 DEF HalfEven
<1>3. q >= c
  <2> SUFFICES ASSUME q + 1 <= c PROVE FALSE
    OBVIOUS
  <2>1. PICK d \in Nat : c = q + 1 + d
    <3>1. c - (q + 1) \in Nat /\ c = q + 1 + (c - (q + 1))
      OBVIOUS
    <3> QED
      BY <3>1
  <2>2. c * u = u * q + u + d * u
    BY <2>1
  <2>3. d * u \in Nat /\ u * q \in Nat /\ c * u \in Nat
    OBVIOUS
  <2> QED
    BY <1>1, <2>2, <2>3
<1>4. u * q >= c * u
  <2>1. PICK d \in Nat : q = c + d
    <3>1. q - c \in Nat /\ q = c + (q - c)
      BY <1>3
    <3> QED
      BY <3>1
  <2>2. u * q = c * u + d * u /\ d * u \in Nat /\ c * u \in Nat
    BY <2>1
  <2> QED
    BY <2>2
<1>5. u * (q + 1) = u * q + u /\ u * q \in Nat /\ c * u \in Nat
  OBVIOUS
<1> QED
  BY <1>2, <1>4, <1>5

LEMMA RoundedExact ==
    ASSUME NEW v \in Nat
    PROVE  HalfEven(v, 1) = v
BY DEF HalfEven

-----------------------------------------------------------------------------
(* The digits that the context drops: e of them, so that the number has digits + e, or
   the model's bound on e. *)
Dropped(v, digits, e) ==
    /\ e > 0 => v >= Ten[digits + e - 1]
    /\ e < Digits + 3 => v < Ten[digits + e]

LEMMA RoundedInContext ==
    ASSUME NEW v \in Nat, NEW digits \in Nat, digits >= 1
    PROVE  \E e \in 0 .. (Digits + 3) :
                InContext(v, digits) = HalfEven(v, Ten[e]) /\ Dropped(v, digits, e)
<1> DEFINE N == Digits + 3
           Over(k) == v >= Ten[digits + k - 1]
           excess == {k \in 1 .. N : Over(k)}
           Good == {e \in Nat : e <= N => 1 .. e \subseteq excess}
<1>1. N \in Nat
  BY AmountsAssumption DEF AmountsAssumption
<1>2. ASSUME NEW j \in 1 .. N, NEW k \in 1 .. N, j <= k, Over(k)
      PROVE  Over(j)
  <2>1. digits + j - 1 \in Nat /\ digits + k - 1 \in Nat /\ digits + j - 1 <= digits + k - 1
    BY <1>1, <1>2
  <2>2. Ten[digits + j - 1] <= Ten[digits + k - 1]
    BY <2>1, TenGrows
  <2>3. Ten[digits + j - 1] \in Nat /\ Ten[digits + k - 1] \in Nat
    BY <2>1, TenPositive
  <2> QED
    BY <1>2, <2>2, <2>3
<1>3. PICK e \in 0 .. N : excess = 1 .. e
  <2> HIDE DEF Over, N
  <2>1. CASE Good = Nat
    <3>1. 1 .. N \subseteq excess
      BY <1>1, <2>1
    <3>2. excess = 1 .. N /\ N \in 0 .. N
      BY <1>1, <3>1
    <3> QED
      BY <3>2
  <2>2. CASE Good # Nat
    <3>1. 0 \in Good /\ Good \in SUBSET Nat
      OBVIOUS
    <3>2. PICK e \in Good : e + 1 \notin Good
      <4> HIDE DEF Good
      <4> QED
        BY <2>2, <3>1, NumberInduction
    <3>3. e \in Nat /\ e + 1 <= N /\ 1 .. e \subseteq excess
      BY <1>1, <3>2
    <3>4. e + 1 \notin excess
      <4>1. ~(1 .. (e + 1) \subseteq excess)
        BY <3>2
      <4>2. 1 .. (e + 1) = (1 .. e) \cup {e + 1}
        BY <3>3
      <4> QED
        BY <3>3, <4>1, <4>2
    <3>5. ~Over(e + 1) /\ e + 1 \in 1 .. N
      BY <1>1, <3>3, <3>4
    <3>6. ASSUME NEW k \in excess PROVE k \in 1 .. e
      <4>1. k \in 1 .. N /\ Over(k)
        OBVIOUS
      <4>2. ~(e + 1 <= k)
        BY <1>2, <3>5, <4>1
      <4> QED
        BY <1>1, <3>3, <4>1, <4>2
    <3>7. e \in 0 .. N
      BY <1>1, <3>3
    <3> QED
      BY <3>3, <3>6, <3>7
  <2> QED
    BY <2>1, <2>2
<1>4. Cardinality(excess) = e
  <2>1. e \in Nat
    BY <1>1
  <2>2. Cardinality(1 .. e) = e
    BY <2>1, FS_Interval
  <2> QED
    BY <1>3, <2>2
<1>5. InContext(v, digits) = HalfEven(v, Ten[e])
  BY <1>4 DEF InContext
<1>6. e > 0 => v >= Ten[digits + e - 1]
  <2>1. e > 0 => e \in excess
    BY <1>1, <1>3
  <2> QED
    BY <2>1
<1>7. e < N => v < Ten[digits + e]
  <2> SUFFICES ASSUME e < N PROVE v < Ten[digits + e]
    OBVIOUS
  <2>1. e + 1 \notin excess /\ e + 1 \in 1 .. N
    BY <1>1, <1>3
  <2>2. ~(v >= Ten[digits + (e + 1) - 1])
    BY <2>1
  <2>3. digits + (e + 1) - 1 = digits + e /\ digits + e \in Nat
    BY <1>1
  <2>4. Ten[digits + e] \in Nat
    BY <2>3, TenPositive
  <2> QED
    BY <2>2, <2>3, <2>4
<1> QED
  BY <1>1, <1>3, <1>5, <1>6, <1>7 DEF Dropped

(* A number of no more digits than the context's is exact; a longer one is off by half
   a unit of its last digit. *)
LEMMA ContextExact ==
    ASSUME NEW v \in Nat, NEW digits \in Nat, digits >= 1, v < Ten[digits]
    PROVE  InContext(v, digits) = v
<1>1. PICK e \in 0 .. (Digits + 3) :
            InContext(v, digits) = HalfEven(v, Ten[e]) /\ Dropped(v, digits, e)
  BY RoundedInContext
<1>2. Digits + 3 \in Nat /\ e \in Nat
  BY AmountsAssumption DEF AmountsAssumption
<1>3. e = 0
  <2> SUFFICES ASSUME e > 0 PROVE FALSE
    BY <1>2
  <2>1. v >= Ten[digits + e - 1]
    BY <1>1 DEF Dropped
  <2>2. digits + e - 1 \in Nat /\ digits <= digits + e - 1
    BY <1>2
  <2>3. Ten[digits] <= Ten[digits + e - 1] /\ Ten[digits] \in Nat /\ Ten[digits + e - 1] \in Nat
    BY <2>2, TenGrows, TenPositive
  <2> QED
    BY <2>1, <2>3
<1> QED
  BY <1>1, <1>3, RoundedExact, TenSteps

LEMMA ContextNear ==
    ASSUME NEW v \in Nat, NEW digits \in Nat, digits >= 1,
           NEW n \in Nat, digits < n, v < Ten[n]
    PROVE  InContext(v, digits) \in Nat /\ Near(InContext(v, digits), v, Ten[n - digits])
<1>1. PICK e \in 0 .. (Digits + 3) :
            InContext(v, digits) = HalfEven(v, Ten[e]) /\ Dropped(v, digits, e)
  BY RoundedInContext
<1>2. Digits + 3 \in Nat /\ e \in Nat
  BY AmountsAssumption DEF AmountsAssumption
<1>3. digits + e <= n
  <2>1. CASE e > 0
    <3>1. v >= Ten[digits + e - 1] /\ digits + e - 1 \in Nat
      BY <1>1, <1>2, <2>1 DEF Dropped
    <3>2. Ten[digits + e - 1] \in Nat /\ Ten[n] \in Nat
      BY <3>1, TenPositive
    <3>3. ~(n <= digits + e - 1)
      <4> SUFFICES ASSUME n <= digits + e - 1 PROVE FALSE
        OBVIOUS
      <4>1. Ten[n] <= Ten[digits + e - 1]
        BY <3>1, TenGrows
      <4> QED
        BY <3>1, <3>2, <4>1
    <3> QED
      BY <1>2, <3>3
  <2>2. CASE e = 0
    BY <2>2
  <2> QED
    BY <1>2, <2>1, <2>2
<1>4. n - digits \in Nat /\ e <= n - digits
  BY <1>2, <1>3
<1>5. PICK t \in Nat, u \in Nat : t = Ten[n - digits] /\ u = Ten[e] /\ u <= t /\ u >= 1
  BY <1>2, <1>4, TenGrows, TenPositive
<1>6. PICK w \in Nat : w = HalfEven(v, u) /\ 2 * (w - v) <= u /\ 2 * (v - w) <= u
  BY <1>5, RoundedNear
<1>7. 2 * (w - v) <= t /\ 2 * (v - w) <= t
  BY <1>5, <1>6
<1>8. InContext(v, digits) = w
  BY <1>1, <1>5, <1>6
<1> QED
  BY <1>5, <1>7, <1>8 DEF Near

(* The sum that passes the comparison is below the limit by more than half a wei: the
   context cannot round a larger one down to the limit. *)
LEMMA LimitCompared ==
    ASSUME NEW v \in Nat, InContext(v, Precision) <= 100 * DailyLimit
    PROVE  v < 100 * DailyLimit + 50
<1>1. /\ Precision \in Nat /\ Precision >= 2 /\ Digits \in Nat
      /\ DailyLimit \in Nat /\ DailyLimit < Ten[Precision - 1]
  <2>1. Precision \in Nat \ {0, 1} /\ Digits \in Nat
    BY AmountsAssumption DEF AmountsAssumption
  <2>2. Ten[Precision - 1] \in Nat
    BY <2>1, TenPositive
  <2>3. DailyLimit \in 0 .. (Ten[Precision - 1] - 1)
    BY AmountsAssumption DEF AmountsAssumption
  <2> QED
    BY <2>1, <2>2, <2>3
<1> SUFFICES ASSUME v >= 100 * DailyLimit + 50 PROVE FALSE
  BY <1>1
<1>2. PICK e \in 0 .. (Digits + 3) :
            InContext(v, Precision) = HalfEven(v, Ten[e]) /\ Dropped(v, Precision, e)
  BY <1>1, RoundedInContext
<1>3. e \in Nat /\ Ten[e] \in Nat /\ Ten[e] >= 1
  BY <1>1, TenPositive
<1>4. CASE e = 0
  <2>1. HalfEven(v, Ten[e]) = v
    BY <1>4, TenSteps, RoundedExact
  <2> QED
    BY <1>1, <1>2, <2>1
<1>5. CASE e = 1
  <2>1. Ten[e] = 10
    <3>1. Ten[0 + 1] = 10 * Ten[0] /\ Ten[0] = 1
      BY TenSteps
    <3> QED
      BY <1>5, <3>1
  <2>2. 10 * DailyLimit + 5 \in Nat /\ v >= (10 * DailyLimit + 5) * 10
    BY <1>1
  <2>3. HalfEven(v, 10) >= (10 * DailyLimit + 5) * 10
    BY <2>2, RoundedAbove
  <2>4. HalfEven(v, 10) \in Nat
    <3>1. 10 \in Nat /\ 10 >= 1
      OBVIOUS
    <3> QED
      BY <3>1, RoundedNear
  <2> QED
    BY <1>1, <1>2, <2>1, <2>3, <2>4
<1>6. CASE e >= 2
  <2>1. v >= Ten[Precision + e - 1] /\ Precision + e - 1 \in Nat /\ e <= Precision + e - 1
    BY <1>1, <1>2, <1>3, <1>6 DEF Dropped
  <2>2. PICK q \in Nat : Ten[Precision + e - 1] = q * Ten[e]
    BY <1>3, <2>1, TenDivides
  <2>3. HalfEven(v, Ten[e]) >= Ten[Precision + e - 1]
    BY <1>3, <2>1, <2>2, RoundedAbove
  <2>4. Ten[Precision + 1] <= Ten[Precision + e - 1]
    <3>1. Precision + 1 \in Nat /\ Precision + 1 <= Precision + e - 1
      BY <1>1, <1>3, <1>6
    <3> QED
      BY <2>1, <3>1, TenGrows
  <2>5. Ten[Precision + 1] = 100 * Ten[Precision - 1]
    <3>1. Ten[(Precision - 1) + 1] = 10 * Ten[Precision - 1]
      BY <1>1, TenSteps
    <3>2. Ten[Precision + 1] = 10 * Ten[Precision]
      BY <1>1, TenSteps
    <3>3. (Precision - 1) + 1 = Precision
      BY <1>1
    <3>4. Ten[Precision - 1] \in Nat
      BY <1>1, TenPositive
    <3> QED
      BY <3>1, <3>2, <3>3, <3>4
  <2>6. /\ Ten[Precision - 1] \in Nat /\ Ten[Precision + 1] \in Nat
        /\ Ten[Precision + e - 1] \in Nat /\ HalfEven(v, Ten[e]) \in Nat
    <3>1. HalfEven(v, Ten[e]) \in Nat
      BY <1>3, RoundedNear
    <3> QED
      BY <1>1, <1>3, <2>1, <3>1, TenPositive
  <2> QED
    BY <1>1, <1>2, <2>3, <2>4, <2>5, <2>6
<1> QED
  BY <1>3, <1>4, <1>5, <1>6

-----------------------------------------------------------------------------
(* What a row looks like, and the rows that count for AllowedWithinLimit. *)
Row == [stored : Nat, decision : {"ALLOW", "CHALLENGE"}, value : Nat,
        status : {"PENDING", "PENDING_REVIEW", "BROADCAST", "FAILED"}]

Stored(r) == [i \in DOMAIN r |-> r[i].stored]
Allowed(r) == {i \in DOMAIN r : r[i].decision = "ALLOW" /\ r[i].status # "FAILED"}

(* A row fits its column; one that was allowed takes no review and is within the limit
   by itself; a payload carries what eth_to_wei makes of the row. *)
Sound(row) ==
    /\ row.stored < Ten[Digits]
    /\ row.decision = "ALLOW" => row.status # "PENDING_REVIEW" /\ row.stored <= DailyLimit
    /\ row.value # NotBuilt => row.value = EthToWei(row.stored)

AmountsInv ==
    /\ rows \in Seq(Row)
    /\ \A i \in DOMAIN rows : Sound(rows[i])
    /\ SumFunctionOnSet(Stored(rows), Allowed(rows)) <= DailyLimit

LEMMA LimitTyped == DailyLimit \in Nat /\ Digits \in Nat /\ Precision \in Nat /\ Precision >= 2
<1>1. Precision \in Nat \ {0, 1} /\ Digits \in Nat
  BY AmountsAssumption DEF AmountsAssumption
<1>2. Ten[Precision - 1] \in Nat
  BY <1>1, TenPositive
<1>3. DailyLimit \in 0 .. (Ten[Precision - 1] - 1)
  BY AmountsAssumption DEF AmountsAssumption
<1> QED
  BY <1>1, <1>2, <1>3

LEMMA RowsFinite ==
    ASSUME NEW r \in Seq(Row)
    PROVE  /\ \A I \in SUBSET DOMAIN r : IsFiniteSet(I)
           /\ \A i \in DOMAIN r : Stored(r)[i] = r[i].stored /\ r[i].stored \in Nat
<1>1. DOMAIN r = 1 .. Len(r) /\ Len(r) \in Nat
  OBVIOUS
<1>2. IsFiniteSet(1 .. Len(r))
  BY <1>1, FS_Interval
<1>3. \A i \in DOMAIN r : r[i] \in Row
  BY ElementOfSeq
<1> QED
  BY <1>1, <1>2, <1>3, FS_Subset DEF Stored, Row

(* eth_to_wei pays to the wei what has no more digits than the context, the limit and
   everything below it among them. *)
LEMMA WeiExact ==
    ASSUME NEW a \in Nat, a <= DailyLimit \/ a < Ten[Precision]
    PROVE  EthToWei(a) = a
<1>1. a < Ten[Precision]
  <2> SUFFICES ASSUME a <= DailyLimit PROVE a < Ten[Precision]
    OBVIOUS
  <2>1. Precision - 1 \in Nat /\ Precision \in Nat /\ Precision - 1 <= Precision
    BY LimitTyped
  <2>2. Ten[Precision - 1] <= Ten[Precision]
    BY <2>1, TenGrows
  <2>3. DailyLimit \in 0 .. (Ten[Precision - 1] - 1)
    BY AmountsAssumption DEF AmountsAssumption
  <2> QED
    BY <2>1, <2>2, <2>3, TenPositive, LimitTyped
<1>2. InContext(a, Precision) = a
  BY <1>1, LimitTyped, ContextExact
<1> QED
  BY <1>2 DEF EthToWei

LEMMA WeiTyped ==
    ASSUME NEW a \in Nat
    PROVE  EthToWei(a) \in Nat
<1>1. PICK e \in 0 .. (Digits + 3) : InContext(a, Precision) = HalfEven(a, Ten[e])
  BY LimitTyped, RoundedInContext
<1>2. e \in Nat
  BY LimitTyped
<1>3. Ten[e] \in Nat /\ Ten[e] >= 1
  BY <1>2, TenPositive
<1>4. HalfEven(a, Ten[e]) \in Nat
  BY <1>3, RoundedNear
<1> QED
  BY <1>1, <1>4 DEF EthToWei

(* The policy's comparison, after its two roundings, is the one of what is stored. *)
LEMMA AllowedFits ==
    ASSUME NEW d \in Nat, d = DailySpent, NEW amount \in Nat, Evaluate(amount) = "ALLOW"
    PROVE  Store(amount) \in Nat /\ d + Store(amount) <= DailyLimit
<1> DEFINE v == 100 * d + amount
<1>1. v \in Nat /\ DailyLimit \in Nat
  BY LimitTyped
<1>2. PICK e \in 0 .. (Digits + 3) : InContext(v, Precision) = HalfEven(v, Ten[e])
  <2> HIDE DEF v
  <2> QED
    BY <1>1, LimitTyped, RoundedInContext
<1>3. InContext(v, Precision) \in Nat
  <2> HIDE DEF v
  <2>1. e \in Nat
    BY LimitTyped
  <2>2. Ten[e] \in Nat /\ Ten[e] >= 1
    BY <2>1, TenPositive
  <2> QED
    BY <1>1, <1>2, <2>2, RoundedNear
<1>4. ~(InContext(v, Precision) > 100 * DailyLimit)
  BY DEF Evaluate
<1>5. InContext(v, Precision) <= 100 * DailyLimit
  <2> HIDE DEF v
  <2> QED
    BY <1>1, <1>3, <1>4
<1>6. v < 100 * DailyLimit + 50
  <2> HIDE DEF v
  <2> QED
    BY <1>1, <1>5, LimitCompared
<1>7. PICK s \in Nat, t \in Nat : /\ s = (amount + 50) \div 100 /\ t = (amount + 50) % 100
                                  /\ amount + 50 = 100 * s + t
  <2>1. amount + 50 \in Nat /\ 100 \in Nat /\ 100 >= 1
    OBVIOUS
  <2> QED
    BY <2>1, Division
<1>8. d + s <= DailyLimit
  BY <1>1, <1>6, <1>7
<1> QED
  BY <1>7, <1>8 DEF Store

-----------------------------------------------------------------------------
(* A step that keeps the rows and what they store, and allows no other row. *)
LEMMA KeptWithin ==
    ASSUME NEW r \in Seq(Row), NEW s \in Seq(Row), Allowed(s) \subseteq Allowed(r),
           \A i \in Allowed(s) : s[i].stored = r[i].stored,
           SumFunctionOnSet(Stored(r), Allowed(r)) <= DailyLimit
    PROVE  SumFunctionOnSet(Stored(s), Allowed(s)) <= DailyLimit
<1>1. Allowed(r) \subseteq DOMAIN r /\ Allowed(s) \subseteq DOMAIN s
  BY DEF Allowed
<1>2. IsFiniteSet(Allowed(r)) /\ IsFiniteSet(Allowed(s))
  BY <1>1, RowsFinite
<1>3. \A i \in Allowed(r) : Stored(r)[i] \in Nat
  BY <1>1, RowsFinite
<1>4. \A i \in Allowed(s) : Stored(s)[i] \in Nat /\ Stored(s)[i] = Stored(r)[i]
  BY <1>1, RowsFinite
<1>5. \A i \in Allowed(s) : Stored(s)[i] \in Nat /\ Stored(s)[i] <= Stored(r)[i]
  BY <1>4
<1>6. SumFunctionOnSet(Stored(s), Allowed(s)) <= SumFunctionOnSet(Stored(r), Allowed(r))
  BY <1>2, <1>3, <1>5, SumGrows
<1>7. /\ SumFunctionOnSet(Stored(s), Allowed(s)) \in Nat
      /\ SumFunctionOnSet(Stored(r), Allowed(r)) \in Nat
  BY <1>2, <1>3, <1>4, SumTakesOut
<1> QED
  BY <1>6, <1>7, LimitTyped

LEMMA AmountsInit == Init => AmountsInv
<1> SUFFICES ASSUME Init PROVE AmountsInv
  OBVIOUS
<1>1. rows \in Seq(Row) /\ DOMAIN rows = {}
  BY DEF Init
<1>2. Allowed(rows) = {}
  BY <1>1 DEF Allowed
<1>3. SumFunctionOnSet(Stored(rows), {}) = 0
  BY FS_EmptySet, SumUnfolds
<1> QED
  BY <1>1, <1>2, <1>3, LimitTyped DEF AmountsInv

LEMMA RequestKeeps ==
    ASSUME AmountsInv, NEW amount \in Asked, RequestWithdrawal(amount)
    PROVE  AmountsInv'
<1> DEFINE d == Evaluate(amount)
           row == [stored |-> Store(amount), decision |-> d,
                   status |-> IF d = "ALLOW" THEN "PENDING" ELSE "PENDING_REVIEW",
                   value |-> NotBuilt]
<1>1. PICK r : r = rows
  OBVIOUS
<1>2. PICK s : s = rows'
  OBVIOUS
<1>3. r \in Seq(Row) /\ (\A i \in DOMAIN r : Sound(r[i]))
      /\ SumFunctionOnSet(Stored(r), Allowed(r)) <= DailyLimit
  BY <1>1 DEF AmountsInv
<1>4. amount \in Nat /\ Store(amount) < Ten[Digits] /\ s = Append(r, row)
  BY <1>1, <1>2, AmountsAssumption DEF RequestWithdrawal, AmountsAssumption
<1>5. Store(amount) \in Nat
  <2>1. amount + 50 \in Nat /\ 100 \in Nat /\ 100 >= 1
    BY <1>4
  <2> QED
    BY <2>1, Division DEF Store
<1>6. d \in {"ALLOW", "CHALLENGE"}
  BY DEF Evaluate
<1>7. row \in Row
  BY <1>5, <1>6 DEF Row, NotBuilt
<1> DEFINE n == Len(r) + 1
<1>8. PICK new \in Row : new = row
  BY <1>7
<1>9. /\ s \in Seq(Row) /\ DOMAIN s = DOMAIN r \cup {n} /\ n \notin DOMAIN r
      /\ s[n] = new /\ \A i \in DOMAIN r : s[i] = r[i]
  <2> HIDE DEF row
  <2>1. s = Append(r, new)
    BY <1>4, <1>8
  <2>2. Len(r) \in Nat /\ DOMAIN r = 1 .. Len(r)
    BY <1>3
  <2>3. s \in Seq(Row) /\ Len(s) = n /\ s[n] = new /\ \A i \in 1 .. Len(r) : s[i] = r[i]
    BY <1>3, <2>1, <2>2, AppendProperties
  <2>4. DOMAIN s = 1 .. n /\ 1 .. n = (1 .. Len(r)) \cup {n} /\ n \notin 1 .. Len(r)
    BY <2>2, <2>3
  <2> QED
    BY <2>2, <2>3, <2>4
<1>10. /\ new.stored = Store(amount) /\ new.decision = d /\ new.value = NotBuilt
       /\ d = "ALLOW" => new.status = "PENDING"
  BY <1>8
<1> HIDE DEF row, n, d
<1>11. PICK spent \in Nat :
         /\ spent = DailySpent
         /\ SumFunctionOnSet(Stored(r), {i \in DOMAIN r : Counts(r[i])}) = spent
  <2> DEFINE C == {i \in DOMAIN r : Counts(r[i])}
  <2>1. C \in SUBSET DOMAIN r /\ IsFiniteSet(C)
    BY <1>3, RowsFinite
  <2>2. \A i \in C : Stored(r)[i] \in Nat
    BY <1>3, <2>1, RowsFinite
  <2>3. SumFunctionOnSet(Stored(r), C) \in Nat
    <3> HIDE DEF C
    <3> QED
      BY <2>1, <2>2, SumTakesOut
  <2>4. SumFunctionOnSet(Stored(r), C) = DailySpent
    BY <1>1 DEF DailySpent, SumOf, Stored
  <2> QED
    BY <2>3, <2>4
<1>12. d = "ALLOW" => spent + new.stored <= DailyLimit /\ new.stored \in Nat
  BY <1>4, <1>10, <1>11, AllowedFits DEF d
<1>13. Sound(new)
  BY <1>4, <1>10, <1>11, <1>12, LimitTyped DEF Sound
<1>14. \A i \in DOMAIN s : Sound(s[i])
  BY <1>3, <1>9, <1>13
<1>15. SumFunctionOnSet(Stored(s), Allowed(s)) <= DailyLimit
  <2>1. CASE d # "ALLOW"
    <3>1. Allowed(s) \subseteq Allowed(r) /\ \A i \in Allowed(s) : s[i].stored = r[i].stored
      BY <1>9, <1>10, <2>1 DEF Allowed
    <3> QED
      BY <1>3, <1>9, <3>1, KeptWithin
  <2>2. CASE d = "ALLOW"
    <3> DEFINE A == Allowed(r)
               C == {i \in DOMAIN r : Counts(r[i])}
    <3>1. A \in SUBSET C /\ C \in SUBSET DOMAIN r /\ n \notin A
      BY <1>3, <1>9 DEF Allowed, Counts, Sound
    <3>2. Allowed(s) = A \cup {n}
      BY <1>9, <1>10, <2>2 DEF Allowed
    <3> HIDE DEF A, C
    <3>3. IsFiniteSet(A) /\ IsFiniteSet(C)
      BY <1>3, <3>1, RowsFinite
    <3>4. \A i \in C : Stored(r)[i] \in Nat /\ Stored(s)[i] = Stored(r)[i]
      BY <1>3, <1>9, <3>1, RowsFinite
    <3>5. Stored(s)[n] = new.stored /\ new.stored \in Nat
      BY <1>9, <1>12, <2>2, RowsFinite
    <3>6. SumFunctionOnSet(Stored(s), A \cup {n}) = SumFunctionOnSet(Stored(s), A) + new.stored
      <4>1. \A i \in A \cup {n} : Stored(s)[i] \in Nat
        BY <3>1, <3>4, <3>5
      <4> QED
        BY <3>1, <3>3, <3>5, <4>1, SumAdds
    <3>7. SumFunctionOnSet(Stored(s), A) <= SumFunctionOnSet(Stored(r), C)
      <4>1. \A i \in A : Stored(s)[i] \in Nat /\ Stored(s)[i] <= Stored(r)[i]
        BY <3>1, <3>4
      <4>2. \A i \in C : Stored(r)[i] \in Nat
        BY <3>4
      <4> QED
        BY <3>1, <3>3, <4>1, <4>2, SumGrows
    <3>8. SumFunctionOnSet(Stored(r), C) = spent
      BY <1>11 DEF C
    <3>9. SumFunctionOnSet(Stored(s), A) \in Nat
      <4>1. \A i \in A : Stored(s)[i] \in Nat
        BY <3>1, <3>4
      <4> QED
        BY <3>3, <4>1, SumTakesOut
    <3> QED
      BY <1>12, <2>2, <3>2, <3>5, <3>6, <3>7, <3>8, <3>9, LimitTyped
  <2> QED
    BY <2>1, <2>2
<1> QED
  BY <1>2, <1>9, <1>14, <1>15 DEF AmountsInv

(* A review and a process change the status, and the process the value. *)
LEMMA ChangeKeeps ==
    ASSUME AmountsInv, NEW i \in DOMAIN rows,
           NEW t \in {"PENDING", "BROADCAST", "FAILED"}, NEW w \in Nat,
           rows' = [rows EXCEPT ![i] = [rows[i] EXCEPT !.status = t, !.value = w]],
           w # NotBuilt => w = EthToWei(rows[i].stored),
           rows[i].decision = "ALLOW" => rows[i].status # "FAILED"
    PROVE  AmountsInv'
<1>1. PICK r : r = rows
  OBVIOUS
<1>2. PICK s : s = rows'
  OBVIOUS
<1>3. r \in Seq(Row) /\ (\A j \in DOMAIN r : Sound(r[j]))
      /\ SumFunctionOnSet(Stored(r), Allowed(r)) <= DailyLimit
  BY <1>1 DEF AmountsInv
<1>4. r[i] \in Row /\ i \in DOMAIN r
  BY <1>1, <1>3, ElementOfSeq
<1>5. PICK new : new = [r[i] EXCEPT !.status = t, !.value = w]
  OBVIOUS
<1>6. /\ new \in Row /\ new.stored = r[i].stored /\ new.decision = r[i].decision
      /\ new.status = t /\ new.value = w
  BY <1>4, <1>5 DEF Row
<1>7. s = [r EXCEPT ![i] = new]
  BY <1>1, <1>2, <1>5
<1>8. s \in Seq(Row) /\ DOMAIN s = DOMAIN r /\ s[i] = new /\ \A j \in DOMAIN r : j # i => s[j] = r[j]
  <2>1. s \in Seq(Row)
    BY <1>3, <1>4, <1>6, <1>7, ExceptSeq
  <2> QED
    BY <1>4, <1>7, <2>1
<1>9. Sound(new)
  BY <1>1, <1>3, <1>4, <1>6 DEF Sound
<1>10. \A j \in DOMAIN s : Sound(s[j])
  BY <1>3, <1>8, <1>9
<1>11. Allowed(s) \subseteq Allowed(r) /\ \A j \in Allowed(s) : s[j].stored = r[j].stored
  BY <1>1, <1>4, <1>6, <1>8 DEF Allowed
<1>12. SumFunctionOnSet(Stored(s), Allowed(s)) <= DailyLimit
  BY <1>3, <1>8, <1>11, KeptWithin
<1> QED
  BY <1>2, <1>8, <1>10, <1>12 DEF AmountsInv

LEMMA ReviewKeeps ==
    ASSUME AmountsInv, NEW i \in DOMAIN rows, Review(i)
    PROVE  AmountsInv'
<1>1. PICK s \in {"PENDING", "FAILED"} : rows' = [rows EXCEPT ![i].status = s]
  BY DEF Review
<1>2. rows \in Seq(Row) /\ rows[i] \in Row /\ Sound(rows[i])
  BY ElementOfSeq DEF AmountsInv
<1>3. PICK w \in Nat : w = rows[i].value
  BY <1>2 DEF Row
<1>4. [rows[i] EXCEPT !.status = s] = [rows[i] EXCEPT !.status = s, !.value = w]
  BY <1>2, <1>3 DEF Row
<1>5. rows' = [rows EXCEPT ![i] = [rows[i] EXCEPT !.status = s, !.value = w]]
  BY <1>1, <1>4
<1>6. w # NotBuilt => w = EthToWei(rows[i].stored)
  BY <1>2, <1>3 DEF Sound
<1>7. rows[i].status = "PENDING_REVIEW"
  BY DEF Review
<1> QED
  BY <1>5, <1>6, <1>7, ChangeKeeps

LEMMA ProcessKeeps ==
    ASSUME AmountsInv, NEW i \in DOMAIN rows, ProcessWithdrawal(i)
    PROVE  AmountsInv'
<1>1. rows \in Seq(Row) /\ rows[i] \in Row
  BY ElementOfSeq DEF AmountsInv
<1>2. PICK w \in Nat : w = EthToWei(rows[i].stored)
  BY <1>1, WeiTyped DEF Row
<1>3. PICK s \in {"BROADCAST", "FAILED"} :
            rows' = [rows EXCEPT ![i].status = s, ![i].value = w]
  BY <1>2 DEF ProcessWithdrawal
<1>4. rows' = [rows EXCEPT ![i] = [rows[i] EXCEPT !.status = s, !.value = w]]
  BY <1>1, <1>3
<1>5. rows[i].status = "PENDING"
  BY DEF ProcessWithdrawal
<1> QED
  BY <1>2, <1>4, <1>5, ChangeKeeps

(* The oldest of some rows is one of them. *)
LEMMA LeastExists ==
    ASSUME NEW r \in Seq(Row), NEW I \in SUBSET DOMAIN r, I # {}
    PROVE  Min(I) \in I
<1>1. I \subseteq Nat
  <2>1. DOMAIN r = 1 .. Len(r) /\ Len(r) \in Nat
    OBVIOUS
  <2> QED
    BY <2>1
<1>2. PICK m \in I : \A k \in I : m <= k
  BY <1>1, LeastNumber
<1> QED
  BY <1>2 DEF Min

LEMMA AmountsStep == AmountsInv /\ [Next]_vars => AmountsInv'
<1> SUFFICES ASSUME AmountsInv, [Next]_vars PROVE AmountsInv'
  OBVIOUS
<1>1. ASSUME NEW amount \in Asked, RequestWithdrawal(amount) PROVE AmountsInv'
  BY <1>1, RequestKeeps
<1>2. ASSUME NEW i \in DOMAIN rows, Review(i) PROVE AmountsInv'
  BY <1>2, ReviewKeeps
<1>3. ASSUME NEW i \in DOMAIN rows, ProcessWithdrawal(i) PROVE AmountsInv'
  BY <1>3, ProcessKeeps
<1>4. CASE ProcessNext
  <2>1. Min(Pending) \in DOMAIN rows
    <3>1. Pending # {} /\ Pending \in SUBSET DOMAIN rows /\ rows \in Seq(Row)
      BY <1>4 DEF ProcessNext, Pending, AmountsInv
    <3> QED
      BY <3>1, LeastExists
  <2> QED
    BY <1>3, <1>4, <2>1 DEF ProcessNext
<1>5. CASE UNCHANGED vars
  BY <1>5 DEF vars, AmountsInv
<1> QED
  BY <1>1, <1>2, <1>3, <1>4, <1>5 DEF Next

LEMMA AmountsInvariant == Spec => []AmountsInv
BY AmountsInit, AmountsStep, PTL DEF Spec

(* Neither the rounding of the policy's sum nor the one of the column lets what is
   stored for the allowed withdrawals exceed the limit (PolicyEngine.evaluate). *)
THEOREM LimitSurvivesRounding == Spec => []AllowedWithinLimit
<1>1. AmountsInv => AllowedWithinLimit
  BY DEF AmountsInv, AllowedWithinLimit, SumOf, Stored, Allowed
<1> QED
  BY <1>1, AmountsInvariant, PTL

(* A payload carries the ledger's amount to the wei if the withdrawal was allowed or
   its amount has no more digits than the context, and otherwise within half a unit of
   the last of the amount's digits that the context keeps (eth_to_wei). *)
THEOREM PaidToTheWei == Spec => []PaysWhatIsStored
<1>1. AmountsInv => PaysWhatIsStored
  <2> SUFFICES ASSUME AmountsInv, NEW i \in DOMAIN rows, rows[i].value # NotBuilt
               PROVE  IF rows[i].decision = "ALLOW" \/ rows[i].stored < Ten[Precision]
                      THEN rows[i].value = rows[i].stored
                      ELSE \A k \in Precision + 1 .. Digits :
                            HasDigits(rows[i].stored, k) =>
                                Near(rows[i].value, rows[i].stored, Ten[k - Precision])
    BY DEF PaysWhatIsStored
  <2>1. rows \in Seq(Row) /\ rows[i] \in Row /\ Sound(rows[i])
    BY ElementOfSeq DEF AmountsInv
  <2>2. PICK a \in Nat : a = rows[i].stored
    BY <2>1 DEF Row
  <2>3. rows[i].value = EthToWei(a)
    BY <2>1, <2>2 DEF Sound
  <2>4. CASE rows[i].decision = "ALLOW" \/ a < Ten[Precision]
    <3>1. a <= DailyLimit \/ a < Ten[Precision]
      BY <2>1, <2>2, <2>4 DEF Sound
    <3>2. EthToWei(a) = a
      BY <3>1, WeiExact
    <3> QED
      BY <2>2, <2>3, <2>4, <3>2
  <2>5. CASE ~(rows[i].decision = "ALLOW" \/ a < Ten[Precision])
    <3>1. ASSUME NEW k \in Precision + 1 .. Digits, HasDigits(a, k)
          PROVE  Near(EthToWei(a), a, Ten[k - Precision])
      <4>1. Precision \in Nat /\ Precision >= 1 /\ k \in Nat /\ Precision < k
        BY LimitTyped
      <4>2. a < Ten[k]
        BY <3>1 DEF HasDigits
      <4> QED
        BY <4>1, <4>2, ContextNear DEF EthToWei
    <3> QED
      BY <2>2, <2>3, <2>5, <3>1
  <2> QED
    BY <2>4, <2>5
<1> QED
  BY <1>1, AmountsInvariant, PTL

=============================================================================
