------------------------------ MODULE SumProofs ------------------------------
(***************************************************************************)
(* What SumFunctionOnSet of the community modules returns, for every finite*)
(* set: the sums of PolicyEngine.evaluate and of /stats are made with it.  *)
(* Its definition is a recursive function over the subsets of a set, which *)
(* adds the elements in the order in which CHOOSE takes them.              *)
(*                                                                         *)
(* And what AmountsProofs and KeyShardingProofs need of the natural        *)
(* numbers: induction over a set of them, and recursion along a function.  *)
(***************************************************************************)
EXTENDS Functions, FiniteSetTheorems, TLAPS

Picked(s) == CHOOSE x \in s : TRUE

(* The body of the recursion, and the functions that satisfy it on the subsets of S. *)
Added(f, g, s) == IF s = {} THEN 0 ELSE f[Picked(s)] + g[s \ {Picked(s)}]
Sums(f, g, S) == g = [s \in SUBSET S |-> Added(f, g, s)]
Solution(f, S) == CHOOSE g : Sums(f, g, S)

LEMMA SumIsChosen ==
    ASSUME NEW f, NEW S
    PROVE  SumFunctionOnSet(f, S) = Solution(f, S)[S]
BY DEF SumFunctionOnSet, FoldFunctionOnSet, MapThenFoldSet, Solution, Sums, Added, Picked

LEMMA PickedIn == ASSUME NEW s, s # {} PROVE Picked(s) \in s
BY DEF Picked

(* Induction over the subsets of a finite set: a set of subsets that has every
   subset whose proper subsets it has, has them all. *)
LEMMA SubsetInduction ==
    ASSUME NEW S, IsFiniteSet(S), NEW Good \in SUBSET SUBSET S,
           \A s \in SUBSET S : (\A t \in SUBSET s : t # s => t \in Good) => s \in Good
    PROVE  Good = SUBSET S
<1> SUFFICES ASSUME (SUBSET S) \ Good # {} PROVE FALSE
  OBVIOUS
<1> DEFINE Bad == (SUBSET S) \ Good
<1>1. Bad \subseteq SUBSET S /\ Bad # {}
  OBVIOUS
<1>2. IsWellFoundedOn(StrictSubsetOrdering(S), SUBSET S)
  <2>1. FiniteSubsetsOf(S) = SUBSET S
    BY FS_FiniteSubsetsOfFinite
  <2>2. IsWellFoundedOn(StrictSubsetOrdering(S), FiniteSubsetsOf(S))
    BY FS_StrictSubsetOrderingWellFounded
  <2> QED
    BY <2>1, <2>2
<1>3. PICK s \in Bad : \A t \in Bad : ~(<<t, s>> \in StrictSubsetOrdering(S))
  <2> HIDE DEF Bad
  <2> QED
    BY <1>1, <1>2, WFMin
<1>4. \A t \in SUBSET s : t # s => t \in Good
  BY <1>3 DEF StrictSubsetOrdering
<1> QED
  BY <1>3, <1>4

(* The least of some numbers. *)
LEMMA LeastNumber ==
    ASSUME NEW I \in SUBSET Nat, I # {}
    PROVE  \E m \in I : \A k \in I : m <= k
<1> DEFINE Less == {p \in Nat \X Nat : p[1] < p[2]}
<1>1. PICK m \in I : \A k \in I : ~(<<k, m>> \in Less)
  <2>1. IsWellFoundedOn(Less, Nat)
    BY NatLessThanWellFounded DEF OpToRel
  <2> HIDE DEF Less
  <2> QED
    BY <2>1, WFMin
<1>2. ASSUME NEW k \in I PROVE m <= k
  <2>1. <<k, m>> \in Nat \X Nat /\ <<k, m>>[1] = k /\ <<k, m>>[2] = m
    OBVIOUS
  <2>2. ~(k < m)
    BY <1>1, <2>1
  <2> QED
    BY <2>2
<1> QED
  BY <1>2

(* Induction: a set of numbers with 0 and the successor of each of its members. *)
LEMMA NumberInduction ==
    ASSUME NEW Good \in SUBSET Nat, 0 \in Good, \A n \in Good : n + 1 \in Good
    PROVE  Good = Nat
<1> SUFFICES ASSUME Nat \ Good # {} PROVE FALSE
  OBVIOUS
<1>1. PICK n \in Nat \ Good : \A k \in Nat \ Good : n <= k
  BY LeastNumber
<1>2. n - 1 \in Good
  <2>1. n # 0 /\ n - 1 \in Nat /\ ~(n <= n - 1)
    BY <1>1
  <2> QED
    BY <1>1, <2>1
<1>3. (n - 1) + 1 \in Good /\ (n - 1) + 1 = n
  BY <1>2
<1> QED
  BY <1>3

(* Recursion: the functions that follow f from start, up to n. *)
Follows(g, start, f, n) ==
    \A k \in 0 .. n : g[k] = IF k = 0 THEN start ELSE f[<<g[k - 1], k>>]

Prefix(start, f, n) == CHOOSE g : Follows(g, start, f, n)

LEMMA PrefixesAgree ==
    ASSUME NEW start, NEW f, NEW n \in Nat, NEW m \in Nat, NEW g, NEW h,
           Follows(g, start, f, n), Follows(h, start, f, m)
    PROVE  \A k \in Nat : k <= n /\ k <= m => g[k] = h[k]
<1> DEFINE Good == {k \in Nat : k <= n /\ k <= m => g[k] = h[k]}
<1>1. Good \in SUBSET Nat
  OBVIOUS
<1>2. 0 \in Good
  <2>1. 0 \in 0 .. n /\ 0 \in 0 .. m
    OBVIOUS
  <2>2. g[0] = start /\ h[0] = start
    BY <2>1 DEF Follows
  <2> QED
    BY <2>2
<1>3. ASSUME NEW k \in Good PROVE k + 1 \in Good
  <2> SUFFICES ASSUME k + 1 <= n, k + 1 <= m PROVE g[k + 1] = h[k + 1]
    OBVIOUS
  <2>1. k + 1 \in 0 .. n /\ k + 1 \in 0 .. m /\ k + 1 # 0 /\ (k + 1) - 1 = k
    OBVIOUS
  <2>2. g[k] = h[k]
    BY <1>3
  <2> QED
    BY <2>1, <2>2 DEF Follows
<1>4. Good = Nat
  <2> HIDE DEF Good
  <2> QED
    BY <1>1, <1>2, <1>3, NumberInduction
<1> QED
  BY <1>4

LEMMA PrefixesExist ==
    ASSUME NEW start, NEW f
    PROVE  \A n \in Nat : Follows(Prefix(start, f, n), start, f, n)
<1> DEFINE Good == {n \in Nat : \E g : Follows(g, start, f, n)}
<1>1. Good \in SUBSET Nat
  OBVIOUS
<1>2. 0 \in Good
  <2>1. Follows([k \in {0} |-> start], start, f, 0)
    BY DEF Follows
  <2> QED
    BY <2>1
<1>3. ASSUME NEW n \in Good PROVE n + 1 \in Good
  <2>1. PICK g : Follows(g, start, f, n)
    BY <1>3
  <2> DEFINE h == [k \in 0 .. (n + 1) |-> IF k = n + 1 THEN f[<<g[n], n + 1>>] ELSE g[k]]
  <2>2. ASSUME NEW k \in 0 .. (n + 1)
        PROVE  h[k] = IF k = 0 THEN start ELSE f[<<h[k - 1], k>>]
    <3>1. CASE k = n + 1
      <4>1. k # 0 /\ k - 1 = n /\ n \in 0 .. (n + 1) /\ n # n + 1
        BY <3>1
      <4>2. h[n] = g[n] /\ h[k] = f[<<g[n], k>>]
        BY <3>1, <4>1
      <4> QED
        BY <4>1, <4>2
    <3>2. CASE k # n + 1
      <4>1. k \in 0 .. n /\ h[k] = g[k]
        BY <3>2
      <4>2. k # 0 => h[k - 1] = g[k - 1]
        BY <4>1
      <4> QED
        BY <2>1, <4>1, <4>2 DEF Follows
    <3> QED
      BY <3>1, <3>2
  <2>3. Follows(h, start, f, n + 1)
    <3> HIDE DEF h
    <3> QED
      BY <2>2 DEF Follows
  <2> QED
    BY <2>3
<1>4. Good = Nat
  <2> HIDE DEF Good
  <2> QED
    BY <1>1, <1>2, <1>3, NumberInduction
<1> QED
  BY <1>4 DEF Prefix

(* A recursion over all numbers has a solution. *)
Closed(Val, f) == \A v \in Val : \A k \in Nat : k # 0 => f[<<v, k>>] \in Val
Obeys(g, start, f) == g[0] = start /\ \A k \in Nat : k # 0 => g[k] = f[<<g[k - 1], k>>]

LEMMA NumberRecursion ==
    ASSUME NEW Val, NEW start \in Val, NEW f, Closed(Val, f)
    PROVE  \E g \in [Nat -> Val] : Obeys(g, start, f)
<1> DEFINE g == [k \in Nat |-> Prefix(start, f, k)[k]]
<1>1. g[0] = start
  <2>1. 0 \in 0 .. 0 /\ Follows(Prefix(start, f, 0), start, f, 0)
    BY PrefixesExist
  <2> QED
    BY <2>1 DEF Follows
<1>2. ASSUME NEW k \in Nat, k # 0 PROVE g[k] = f[<<g[k - 1], k>>]
  <2>1. k - 1 \in Nat /\ k \in 0 .. k
    BY <1>2
  <2>2. Prefix(start, f, k)[k] = f[<<Prefix(start, f, k)[k - 1], k>>]
    BY <1>2, <2>1, PrefixesExist DEF Follows
  <2>3. Prefix(start, f, k)[k - 1] = Prefix(start, f, k - 1)[k - 1]
    BY <2>1, PrefixesExist, PrefixesAgree
  <2> QED
    BY <2>1, <2>2, <2>3
<1>3. g = [k \in Nat |-> g[k]]
  OBVIOUS
<1> HIDE DEF g
<1> DEFINE Good == {k \in Nat : g[k] \in Val}
<1>4. Good \in SUBSET Nat /\ 0 \in Good
  BY <1>1
<1>5. ASSUME NEW k \in Good PROVE k + 1 \in Good
  <2>1. k + 1 \in Nat /\ k + 1 # 0 /\ (k + 1) - 1 = k
    OBVIOUS
  <2> QED
    BY <1>2, <2>1 DEF Closed
<1>6. Good = Nat
  <2> HIDE DEF Good
  <2> QED
    BY <1>4, <1>5, NumberInduction
<1> QED
  BY <1>1, <1>2, <1>3, <1>6 DEF Obeys

-----------------------------------------------------------------------------
(* The recursion has one solution. *)

(* Two solutions agree where both are defined. *)
LEMMA SumsAgree ==
    ASSUME NEW f, NEW S, IsFiniteSet(S), NEW T, NEW g, NEW h, Sums(f, g, S), Sums(f, h, T)
    PROVE  \A s \in SUBSET (S \cap T) : g[s] = h[s]
<1> DEFINE Good == {s \in SUBSET S : s \subseteq T => g[s] = h[s]}
<1>1. ASSUME NEW s \in SUBSET S, \A t \in SUBSET s : t # s => t \in Good
      PROVE  s \in Good
  <2> SUFFICES ASSUME s \subseteq T PROVE g[s] = h[s]
    OBVIOUS
  <2>1. g[s] = Added(f, g, s) /\ h[s] = Added(f, h, s)
    BY DEF Sums
  <2>2. CASE s = {}
    BY <2>1, <2>2 DEF Added
  <2>3. CASE s # {}
    <3>1. Picked(s) \in s
      BY <2>3, PickedIn
    <3>2. s \ {Picked(s)} \in SUBSET s /\ s \ {Picked(s)} # s /\ s \ {Picked(s)} \subseteq T
      BY <3>1
    <3>3. g[s \ {Picked(s)}] = h[s \ {Picked(s)}]
      BY <1>1, <3>2
    <3> QED
      BY <2>1, <2>3, <3>3 DEF Added
  <2> QED
    BY <2>2, <2>3
<1>2. Good \in SUBSET SUBSET S
  OBVIOUS
<1> HIDE DEF Good
<1>3. Good = SUBSET S
  BY <1>1, <1>2, SubsetInduction
<1> QED
  BY <1>3 DEF Good

(* There is a solution: the value at s is that of a solution on the subsets of s. *)
LEMMA SumsExist ==
    ASSUME NEW f, NEW S, IsFiniteSet(S)
    PROVE  Sums(f, Solution(f, S), S)
<1> DEFINE Good == {s \in SUBSET S : Sums(f, Solution(f, s), s)}
           H(t) == Solution(f, t)[t]
<1>1. ASSUME NEW s \in SUBSET S, \A t \in SUBSET s : t # s => t \in Good
      PROVE  s \in Good
  <2> DEFINE G == [t \in SUBSET s |->
                    IF t # s THEN H(t)
                    ELSE IF s = {} THEN 0 ELSE f[Picked(s)] + H(s \ {Picked(s)})]
  <2>1. ASSUME NEW t \in SUBSET s, t # s PROVE Sums(f, Solution(f, t), t)
    BY <1>1, <2>1
  <2>2. ASSUME NEW t \in SUBSET s PROVE G[t] = Added(f, G, t)
    <3> DEFINE u == t \ {Picked(t)}
    <3>1. t # s => H(t) = Added(f, Solution(f, t), t)
      BY <2>1 DEF Sums
    <3>2. CASE t = {}
      BY <3>1, <3>2 DEF Added
    <3>3. CASE t # {}
      <4>1. Picked(t) \in t /\ u \in SUBSET t /\ u # t /\ u \in SUBSET s /\ u # s
        BY <3>3, PickedIn
      <4>2. G[u] = H(u)
        BY <4>1
      <4>3. CASE t = s
        BY <3>3, <4>2, <4>3 DEF Added
      <4>4. CASE t # s
        <5>1. H(t) = f[Picked(t)] + Solution(f, t)[u]
          BY <3>1, <3>3, <4>4 DEF Added
        <5>2. Sums(f, Solution(f, t), t) /\ Sums(f, Solution(f, u), u)
          BY <2>1, <4>1, <4>4
        <5>3. IsFiniteSet(t) /\ u \in SUBSET (t \cap u)
          BY <4>1, FS_Subset
        <5>4. Solution(f, t)[u] = H(u)
          BY <5>2, <5>3, SumsAgree
        <5> QED
          BY <3>3, <4>2, <4>4, <5>1, <5>4 DEF Added
      <4> QED
        BY <4>3, <4>4
    <3> QED
      BY <3>2, <3>3
  <2>3. G = [t \in SUBSET s |-> G[t]]
    OBVIOUS
  <2> HIDE DEF G
  <2>4. Sums(f, G, s)
    BY <2>2, <2>3 DEF Sums
  <2> QED
    BY <2>4 DEF Solution
<1>2. Good \in SUBSET SUBSET S
  OBVIOUS
<1> HIDE DEF Good
<1>3. Good = SUBSET S
  BY <1>1, <1>2, SubsetInduction
<1> QED
  BY <1>3 DEF Good

(* Hence the sums of all subsets of a finite set are the values of one solution. *)
LEMMA SumSolves ==
    ASSUME NEW f, NEW S, IsFiniteSet(S), NEW s \in SUBSET S
    PROVE  SumFunctionOnSet(f, s) = Solution(f, S)[s]
<1>1. IsFiniteSet(s) /\ s \in SUBSET (s \cap S)
  BY FS_Subset
<1>2. Sums(f, Solution(f, s), s) /\ Sums(f, Solution(f, S), S)
  BY <1>1, SumsExist
<1>3. Solution(f, s)[s] = Solution(f, S)[s]
  BY <1>1, <1>2, SumsAgree
<1> QED
  BY <1>3, SumIsChosen

(* The sum of the empty set is 0, and another is that of its picked element and of
   the rest. *)
LEMMA SumUnfolds ==
    ASSUME NEW f, NEW S, IsFiniteSet(S)
    PROVE  /\ SumFunctionOnSet(f, {}) = 0
           /\ S # {} => SumFunctionOnSet(f, S) =
                            f[Picked(S)] + SumFunctionOnSet(f, S \ {Picked(S)})
<1> DEFINE g == Solution(f, S)
<1>1. \A s \in SUBSET S : SumFunctionOnSet(f, s) = g[s]
  BY SumSolves
<1>2. Sums(f, g, S)
  BY SumsExist
<1> HIDE DEF g
<1>3. \A s \in SUBSET S : g[s] = Added(f, g, s)
  BY <1>2 DEF Sums
<1>4. S \ {Picked(S)} \in SUBSET S
  OBVIOUS
<1> QED
  BY <1>1, <1>3, <1>4 DEF Added

-----------------------------------------------------------------------------
(* What the models need to know of sums. *)

(* The order does not matter: any element can be taken out first. *)
LEMMA SumTakesOut ==
    ASSUME NEW S, IsFiniteSet(S), NEW f, \A x \in S : f[x] \in Nat
    PROVE  /\ SumFunctionOnSet(f, S) \in Nat
           /\ \A x \in S : SumFunctionOnSet(f, S) = f[x] + SumFunctionOnSet(f, S \ {x})
<1> DEFINE Sum(s) == SumFunctionOnSet(f, s)
           Good == {s \in SUBSET S : /\ Sum(s) \in Nat
                                     /\ \A x \in s : Sum(s) = f[x] + Sum(s \ {x})}
<1> HIDE DEF Sum
<1>1. ASSUME NEW s \in SUBSET S, \A t \in SUBSET s : t # s => t \in Good
      PROVE  s \in Good
  <2>1. \A t \in SUBSET s : t # {} => Picked(t) \in t /\ Sum(t) = f[Picked(t)] + Sum(t \ {Picked(t)})
    BY PickedIn, FS_Subset, SumUnfolds DEF Sum
  <2>2. Sum({}) = 0
    BY SumUnfolds DEF Sum
  <2>3. CASE s = {}
    BY <2>2, <2>3
  <2>4. CASE s # {}
    <3> DEFINE p == Picked(s)
    <3>1. p \in s /\ Sum(s) = f[p] + Sum(s \ {p})
      BY <2>1, <2>4
    <3> HIDE DEF p
    <3>2. ASSUME NEW x \in s PROVE s \ {x} \in SUBSET s /\ s \ {x} # s
      OBVIOUS
    <3>3. \A x \in s : /\ Sum(s \ {x}) \in Nat
                       /\ \A y \in s \ {x} : Sum(s \ {x}) = f[y] + Sum((s \ {x}) \ {y})
      BY <1>1, <3>2
    <3>4. Sum(s) \in Nat
      BY <3>1, <3>3
    <3>5. ASSUME NEW x \in s, x # p PROVE Sum(s) = f[x] + Sum(s \ {x})
      <4>1. Sum(s \ {p}) = f[x] + Sum((s \ {p}) \ {x}) /\ Sum(s \ {x}) = f[p] + Sum((s \ {x}) \ {p})
        BY <3>1, <3>3, <3>5
      <4>2. (s \ {p}) \ {x} = (s \ {x}) \ {p}
        OBVIOUS
      <4>3. f[x] \in Nat /\ f[p] \in Nat /\ Sum(s \ {p}) \in Nat /\ Sum(s \ {x}) \in Nat
        BY <3>1, <3>3
      <4>4. (s \ {p}) \ {x} \in SUBSET s /\ (s \ {p}) \ {x} # s
        BY <3>1
      <4>5. Sum((s \ {p}) \ {x}) \in Nat
        BY <1>1, <4>4
      <4> QED
        BY <3>1, <4>1, <4>2, <4>3, <4>5
    <3> QED
      BY <3>1, <3>4, <3>5
  <2> QED
    BY <2>3, <2>4
<1>2. Good \in SUBSET SUBSET S
  OBVIOUS
<1>3. S \in Good
  <2> HIDE DEF Good
  <2>1. Good = SUBSET S
    BY <1>1, <1>2, SubsetInduction
  <2> QED
    BY <2>1
<1> QED
  BY <1>3 DEF Sum

(* The sum with one element more. *)
LEMMA SumAdds ==
    ASSUME NEW S, IsFiniteSet(S), NEW x, x \notin S, NEW f,
           \A y \in S \cup {x} : f[y] \in Nat
    PROVE  SumFunctionOnSet(f, S \cup {x}) = SumFunctionOnSet(f, S) + f[x]
<1>1. IsFiniteSet(S \cup {x}) /\ (S \cup {x}) \ {x} = S
  BY FS_AddElement
<1>2. SumFunctionOnSet(f, S \cup {x}) = f[x] + SumFunctionOnSet(f, S)
  BY <1>1, SumTakesOut
<1>3. SumFunctionOnSet(f, S) \in Nat /\ f[x] \in Nat
  BY SumTakesOut
<1> QED
  BY <1>2, <1>3

(* A larger set of elements that are no smaller has no smaller a sum. *)
LEMMA SumGrows ==
    ASSUME NEW T, IsFiniteSet(T), NEW S \in SUBSET T, NEW f, NEW g,
           \A x \in S : f[x] \in Nat /\ f[x] <= g[x], \A x \in T : g[x] \in Nat
    PROVE  SumFunctionOnSet(f, S) <= SumFunctionOnSet(g, T)
<1> DEFINE SumF(s) == SumFunctionOnSet(f, s)
           SumG(s) == SumFunctionOnSet(g, s)
           Good == {t \in SUBSET T : SumF(S \cap t) <= SumG(t)}
<1> HIDE DEF SumF, SumG
<1>1. ASSUME NEW t \in SUBSET T, \A u \in SUBSET t : u # t => u \in Good
      PROVE  t \in Good
  <2>1. CASE t = {}
    <3>1. SumF({}) = 0 /\ SumG({}) = 0 /\ S \cap {} = {}
      BY SumUnfolds DEF SumF, SumG
    <3> QED
      BY <2>1, <3>1
  <2>2. CASE t # {}
    <3>1. PICK x \in t : TRUE
      BY <2>2
    <3> DEFINE u == t \ {x}
    <3>2. SumF(S \cap u) <= SumG(u)
      BY <1>1, <3>1
    <3>3. IsFiniteSet(u) /\ IsFiniteSet(S \cap u) /\ IsFiniteSet(t) /\ IsFiniteSet(S \cap t)
      BY FS_Subset
    <3>4. SumG(t) = g[x] + SumG(u) /\ g[x] \in Nat /\ SumG(u) \in Nat
      BY <3>1, <3>3, SumTakesOut DEF SumG
    <3>5. SumF(S \cap u) \in Nat
      BY <3>3, SumTakesOut DEF SumF
    <3>6. CASE x \in S
      <4>1. x \in S \cap t /\ (S \cap t) \ {x} = S \cap u
        BY <3>1, <3>6
      <4>2. SumF(S \cap t) = f[x] + SumF(S \cap u)
        BY <3>3, <4>1, SumTakesOut DEF SumF
      <4> QED
        BY <3>2, <3>4, <3>5, <3>6, <4>2
    <3>7. CASE x \notin S
      <4>1. SumF(S \cap t) = SumF(S \cap u)
        <5>1. S \cap t = S \cap u
          BY <3>7
        <5> QED
          BY <5>1
      <4> QED
        BY <3>2, <3>4, <3>5, <4>1
    <3> QED
      BY <3>6, <3>7
  <2> QED
    BY <2>1, <2>2
<1>2. Good \in SUBSET SUBSET T
  OBVIOUS
<1>3. T \in Good
  <2> HIDE DEF Good
  <2>1. Good = SUBSET T
    BY <1>1, <1>2, SubsetInduction
  <2> QED
    BY <2>1
<1>4. S \cap T = S
  OBVIOUS
<1> QED
  BY <1>3, <1>4 DEF SumF, SumG

(* Elements of no more than c each add to a sum no more than c times their number. *)
LEMMA SumWithin ==
    ASSUME NEW S, IsFiniteSet(S), NEW T \in SUBSET S, NEW f, \A x \in S : f[x] \in Nat,
           NEW c \in Nat, \A x \in S \ T : f[x] <= c
    PROVE  SumFunctionOnSet(f, S) <= SumFunctionOnSet(f, T) + Cardinality(S \ T) * c
<1> DEFINE R == S \ T
           Sum(t) == SumFunctionOnSet(f, t)
           Good == {t \in SUBSET R : Sum(T \cup t) <= Sum(T) + Cardinality(t) * c}
<1>1. IsFiniteSet(R) /\ R \in SUBSET S /\ \A x \in R : x \notin T /\ f[x] <= c
  BY FS_Subset
<1>2. ASSUME NEW t \in SUBSET R
      PROVE  /\ IsFiniteSet(t) /\ IsFiniteSet(T \cup t) /\ Cardinality(t) \in Nat
             /\ Sum(T \cup t) \in Nat /\ Sum(T) \in Nat
  <2>1. T \cup t \in SUBSET S /\ T \in SUBSET S /\ t \in SUBSET S
    BY <1>1
  <2>2. IsFiniteSet(t) /\ IsFiniteSet(T \cup t) /\ IsFiniteSet(T)
    BY <2>1, FS_Subset
  <2>3. \A x \in T \cup t : f[x] \in Nat
    BY <2>1
  <2>4. Sum(T \cup t) \in Nat /\ Sum(T) \in Nat
    BY <2>2, <2>3, SumTakesOut
  <2> QED
    BY <2>2, <2>4, FS_CardinalityType
<1>3. ASSUME NEW t \in SUBSET R, \A u \in SUBSET t : u # t => u \in Good
      PROVE  t \in Good
  <2>1. CASE t = {}
    <3>1. Sum(T \cup t) = Sum(T) /\ Cardinality(t) = 0 /\ Sum(T) \in Nat
      <4>1. T \cup t = T
        BY <2>1
      <4> QED
        BY <1>2, <2>1, <4>1, FS_EmptySet
    <3>2. Cardinality(t) * c = 0
      BY <3>1
    <3> HIDE DEF Sum
    <3>3. Sum(T \cup t) <= Sum(T) + Cardinality(t) * c
      BY <3>1, <3>2
    <3> QED
      BY <3>3
  <2>2. CASE t # {}
    <3>1. PICK x \in t : TRUE
      BY <2>2
    <3> DEFINE u == t \ {x}
    <3>2. u \in SUBSET t /\ u # t /\ u \in SUBSET R /\ x \in R /\ x \notin u /\ t = u \cup {x}
      BY <3>1
    <3>3. Sum(T \cup u) <= Sum(T) + Cardinality(u) * c
      BY <1>3, <3>2
    <3>4. x \notin T \cup u /\ T \cup t = (T \cup u) \cup {x} /\ (T \cup u) \cup {x} \in SUBSET S
      BY <1>1, <3>2
    <3>5. IsFiniteSet(T \cup u) /\ \A y \in (T \cup u) \cup {x} : f[y] \in Nat
      BY <1>2, <3>2, <3>4
    <3> HIDE DEF u, R
    <3>6. Sum(T \cup t) = Sum(T \cup u) + f[x]
      BY <3>4, <3>5, SumAdds
    <3>7. Cardinality(t) = Cardinality(u) + 1
      BY <1>2, <3>2, FS_AddElement
    <3> DEFINE m == Cardinality(u)
    <3>8. /\ m \in Nat /\ f[x] \in Nat /\ f[x] <= c /\ Sum(T) \in Nat
          /\ Sum(T \cup u) \in Nat
      BY <1>1, <1>2, <3>2
    <3>9. Cardinality(t) = m + 1 /\ Sum(T \cup u) <= Sum(T) + m * c
      BY <3>3, <3>7
    <3> HIDE DEF m, Sum
    <3>10. m * c \in Nat /\ (m + 1) * c = m * c + c
      BY <3>8
    <3>11. Sum(T \cup t) <= Sum(T) + (m + 1) * c
      BY <3>6, <3>8, <3>9, <3>10
    <3> QED
      BY <3>9, <3>11
  <2> QED
    BY <2>1, <2>2
<1>4. R \in Good
  <2> HIDE DEF R
  <2>1. Good \in SUBSET SUBSET R
    OBVIOUS
  <2> HIDE DEF Good
  <2>2. Good = SUBSET R
    BY <1>1, <1>3, <2>1, SubsetInduction
  <2> QED
    BY <2>2
<1>5. T \cup R = S
  OBVIOUS
<1> QED
  BY <1>4, <1>5

(* The classes of a report of counts are finitely many. *)
LEMMA SixFinite ==
    ASSUME NEW a, NEW b, NEW c, NEW d, NEW e, NEW f
    PROVE  IsFiniteSet({a, b, c, d, e, f})
<1> DEFINE S == {a, b}
           T == S \cup {c}
           U == T \cup {d}
           V == U \cup {e}
           W == V \cup {f}
<1>1. W = {a, b, c, d, e, f} /\ S = {a} \cup {b}
  OBVIOUS
<1> HIDE DEF S, T, U, V, W
<1>2. IsFiniteSet(S)
  BY <1>1, FS_Singleton, FS_AddElement
<1>3. IsFiniteSet(T)
  BY <1>2, FS_AddElement DEF T
<1>4. IsFiniteSet(U)
  BY <1>3, FS_AddElement DEF U
<1>5. IsFiniteSet(V)
  BY <1>4, FS_AddElement DEF V
<1>6. IsFiniteSet(W)
  BY <1>5, FS_AddElement DEF W
<1> QED
  BY <1>1, <1>6


(* Counted by classes, each element of a set is counted once. *)
LEMMA SumCounts ==
    ASSUME NEW R, IsFiniteSet(R), NEW C, IsFiniteSet(C), NEW f, \A r \in R : f[r] \in C,
           NEW g, \A x \in C : g[x] = Cardinality({r \in R : f[r] = x})
    PROVE  SumFunctionOnSet(g, C) = Cardinality(R)
<1> DEFINE Class(x) == {r \in R : f[r] = x}
           Classes(D) == {r \in R : f[r] \in D}
           Sum(D) == SumFunctionOnSet(g, D)
           Good == {D \in SUBSET C : Sum(D) = Cardinality(Classes(D))}
<1>1. \A x \in C : IsFiniteSet(Class(x)) /\ g[x] = Cardinality(Class(x)) /\ g[x] \in Nat
  BY FS_Subset, FS_CardinalityType
<1> HIDE DEF Sum
<1>2. ASSUME NEW D \in SUBSET C, \A E \in SUBSET D : E # D => E \in Good
      PROVE  D \in Good
  <2>1. CASE D = {}
    <3>1. Sum({}) = 0 /\ Classes({}) = {}
      BY SumUnfolds DEF Sum
    <3> QED
      BY <2>1, <3>1, FS_EmptySet
  <2>2. CASE D # {}
    <3>1. PICK x \in D : TRUE
      BY <2>2
    <3> DEFINE E == D \ {x}
    <3>2. Sum(E) = Cardinality(Classes(E))
      BY <1>2, <3>1
    <3>3. IsFiniteSet(D)
      BY FS_Subset
    <3>4. Sum(D) = g[x] + Sum(E)
      BY <1>1, <3>1, <3>3, SumTakesOut DEF Sum
    <3>5. /\ IsFiniteSet(Classes(E)) /\ IsFiniteSet(Class(x)) /\ Class(x) \cap Classes(E) = {}
          /\ Classes(D) = Class(x) \cup Classes(E)
      BY <1>1, <3>1, FS_Subset
    <3> HIDE DEF Class, Classes
    <3>6. /\ Cardinality(Classes(D)) =
                Cardinality(Class(x)) + Cardinality(Classes(E)) - Cardinality(Class(x) \cap Classes(E))
          /\ Cardinality(Class(x) \cap Classes(E)) = 0
          /\ Cardinality(Class(x)) \in Nat /\ Cardinality(Classes(E)) \in Nat
      BY <3>5, FS_Union, FS_EmptySet, FS_CardinalityType
    <3> QED
      BY <1>1, <3>1, <3>2, <3>4, <3>6
  <2> QED
    BY <2>1, <2>2
<1>3. Good \in SUBSET SUBSET C
  OBVIOUS
<1>4. C \in Good
  <2> HIDE DEF Good
  <2>1. Good = SUBSET C
    BY <1>2, <1>3, SubsetInduction
  <2> QED
    BY <2>1
<1>5. Classes(C) = R
  OBVIOUS
<1> QED
  BY <1>4, <1>5 DEF Sum

=============================================================================
