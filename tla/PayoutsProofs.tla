--------------------------- MODULE PayoutsProofs ----------------------------
(* Proofs about Payouts, for any people, requests, prices and clock.  The    *)
(* inductive invariant adds two facts to the properties that TLC checks:     *)
(* a payment row implies a finalized operation, and whoever is not on the    *)
(* roster has no amount and no payment row.  That the payments stay within   *)
(* the loot needs what sums are: the library's induction theorems take an    *)
(* operator, so induction over a finite set is done here with the least of   *)
(* the sets that would be a counterexample.                                  *)
EXTENDS Payouts, FiniteSetTheorems, WellFoundedInduction, TLAPS

Settled   == HasPayments => status = "finalized"
OffRoster == \A p \in People : ~OnRoster(p) =>
               part[p].amount = 0 /\ part[p].paid = Unpaid /\ log[p] = << >>
IInv == TypeOK /\ LogTellsPaid /\ Settled /\ OffRoster

-----------------------------------------------------------------------------
(* Sums over a finite set.  SumFunctionOnSet takes the elements in the order *)
(* of a CHOOSE; the lemmas show that the recursion has one solution, and that *)
(* the order does not matter.                                                *)

Pick(s) == CHOOSE x \in s : TRUE
IsSum(g, f, S) ==
  g = [s \in SUBSET S |-> IF s = {} THEN 0 ELSE f[Pick(s)] + g[s \ {Pick(s)}]]

(* Induction over the subsets of a finite set: a set of them that is not     *)
(* empty has one that leaves the set when any element is taken from it.      *)
LEMMA LeastSubset ==
  ASSUME NEW S, IsFiniteSet(S), NEW Q \in SUBSET SUBSET S, Q # {}
  PROVE  \E s \in Q : s \in SUBSET S /\ \A x \in s : s \ {x} \notin Q
<1>1. IsWellFoundedOn(StrictSubsetOrdering(S), FiniteSubsetsOf(S))
  BY FS_StrictSubsetOrderingWellFounded
<1>2. Q \subseteq FiniteSubsetsOf(S)
  BY FS_Subset DEF FiniteSubsetsOf
<1>3. PICK s \in Q : \A t \in Q : ~(<<t, s>> \in StrictSubsetOrdering(S))
  BY <1>1, <1>2, WFMin
<1>4. ASSUME NEW x \in s PROVE <<s \ {x}, s>> \in StrictSubsetOrdering(S)
  BY <1>4 DEF StrictSubsetOrdering
<1> QED
  BY <1>3, <1>4

(* Two solutions of the recursion agree wherever both are defined.           *)
LEMMA SumUnique ==
  ASSUME NEW S, IsFiniteSet(S), NEW f, NEW g, NEW h,
         NEW T \in SUBSET S, NEW U \in SUBSET S, IsSum(g, f, T), IsSum(h, f, U)
  PROVE  \A s \in SUBSET S : s \subseteq T /\ s \subseteq U => g[s] = h[s]
<1> DEFINE Q == {s \in SUBSET S : s \subseteq T /\ s \subseteq U /\ g[s] # h[s]}
<1> SUFFICES ASSUME Q # {} PROVE FALSE
  OBVIOUS
<1>1. PICK s \in Q : s \in SUBSET S /\ \A x \in s : s \ {x} \notin Q
  <2>1. Q \in SUBSET SUBSET S OBVIOUS
  <2> HIDE DEF Q
  <2> QED BY <2>1, LeastSubset
<1>2. CASE s = {}
  <2>1. g[s] = 0 /\ h[s] = 0
    BY <1>2 DEF IsSum
  <2> QED BY <1>1, <2>1
<1>3. CASE s # {}
  <2>1. Pick(s) \in s
    BY <1>3 DEF Pick
  <2>2. g[s] = f[Pick(s)] + g[s \ {Pick(s)}] /\ h[s] = f[Pick(s)] + h[s \ {Pick(s)}]
    <3>1. s \in SUBSET T /\ s \in SUBSET U
      BY <1>1
    <3> QED BY <1>3, <3>1 DEF IsSum
  <2>3. g[s \ {Pick(s)}] = h[s \ {Pick(s)}]
    BY <1>1, <2>1
  <2> QED BY <1>1, <2>2, <2>3
<1> QED BY <1>2, <1>3

(* The recursion has a solution on every subset.                             *)
LEMMA SumExists ==
  ASSUME NEW S, IsFiniteSet(S), NEW f
  PROVE  \A T \in SUBSET S : \E g : IsSum(g, f, T)
<1> DEFINE Q == {T \in SUBSET S : ~\E g : IsSum(g, f, T)}
<1> SUFFICES ASSUME Q # {} PROVE FALSE
  OBVIOUS
<1>1. PICK T \in Q : T \in SUBSET S /\ \A x \in T : T \ {x} \notin Q
  <2>1. Q \in SUBSET SUBSET S OBVIOUS
  <2> HIDE DEF Q
  <2> QED BY <2>1, LeastSubset
<1>2. ASSUME T = {} PROVE FALSE
  <2> DEFINE g == [s \in SUBSET T |-> 0]
  <2>1. IsSum(g, f, T)
    BY <1>2 DEF IsSum
  <2> QED BY <2>1
<1>3. ASSUME T # {} PROVE FALSE
  <2>1. \A x \in T : \E g : IsSum(g, f, T \ {x})
    BY <1>1
  <2> DEFINE Sol(g, s) == \E x \in T : s \subseteq T \ {x} /\ IsSum(g, f, T \ {x})
             V(s) == (CHOOSE g : Sol(g, s))[s]
             W == f[Pick(T)] + V(T \ {Pick(T)})
             h == [s \in SUBSET T |-> IF s = T THEN W ELSE V(s)]
  <2>2. ASSUME NEW s \in SUBSET T, s # T, NEW g, NEW x \in T,
               s \subseteq T \ {x}, IsSum(g, f, T \ {x})
        PROVE  V(s) = g[s]
    <3>1. Sol(g, s)
      BY <2>2
    <3>2. PICK y \in T : s \subseteq T \ {y} /\ IsSum(CHOOSE k : Sol(k, s), f, T \ {y})
      <4>1. Sol(CHOOSE k : Sol(k, s), s)
        <5> HIDE DEF Sol
        <5> QED BY <3>1
      <4> QED BY <4>1
    <3> HIDE DEF Sol
    <3>3. T \ {x} \in SUBSET S /\ T \ {y} \in SUBSET S /\ s \in SUBSET S
      BY <1>1
    <3> QED BY <2>2, <3>2, <3>3, SumUnique
  <2>3. ASSUME NEW s \in SUBSET T
        PROVE  h[s] = IF s = {} THEN 0 ELSE f[Pick(s)] + h[s \ {Pick(s)}]
    <3>0. s # {} => Pick(s) \in s
      BY DEF Pick
    <3>1. CASE s = T
      <4>1. s \ {Pick(s)} # T /\ s # {}
        BY <1>3, <3>0, <3>1
      <4>2. h[s \ {Pick(s)}] = V(s \ {Pick(s)})
        BY <4>1
      <4>3. h[s] = W
        BY <3>1
      <4> QED BY <3>1, <4>1, <4>2, <4>3
    <3>2. CASE s # T
      <4>1. PICK x \in T : x \notin s
        BY <3>2
      <4>2. PICK g : IsSum(g, f, T \ {x})
        BY <2>1
      <4>3. s \subseteq T \ {x}
        BY <4>1
      <4>4. V(s) = g[s]
        <5> HIDE DEF V
        <5> QED BY <2>2, <3>2, <4>2, <4>3
      <4>5. h[s] = g[s]
        <5> HIDE DEF V, W
        <5> QED BY <3>2, <4>4
      <4>6. CASE s = {}
        <5>1. g[s] = 0
          BY <4>2, <4>6 DEF IsSum
        <5> QED BY <4>5, <4>6, <5>1
      <4>7. CASE s # {}
        <5> DEFINE r == s \ {Pick(s)}
        <5>1. g[s] = f[Pick(s)] + g[r]
          BY <4>2, <4>3, <4>7 DEF IsSum
        <5>2. r \in SUBSET T /\ r # T /\ r \subseteq T \ {x}
          BY <4>3, <4>1
        <5>3. V(r) = g[r]
          <6> HIDE DEF V, r
          <6> QED BY <2>2, <4>2, <5>2
        <5>4. h[r] = g[r]
          <6> HIDE DEF V, W, r
          <6> QED BY <5>2, <5>3
        <5> HIDE DEF h, r
        <5> QED BY <4>5, <4>7, <5>1, <5>4 DEF r
      <4> QED BY <4>6, <4>7
    <3> QED BY <3>1, <3>2
  <2>4. IsSum(h, f, T)
    <3>1. h = [s \in SUBSET T |-> h[s]]
      <4> HIDE DEF V, W
      <4> QED OBVIOUS
    <3> HIDE DEF h
    <3> QED BY <2>3, <3>1 DEF IsSum
  <2> HIDE DEF h
  <2> QED BY <2>4
<1> QED BY <1>2, <1>3

(* The sum of the library is the one that the recursion defines.             *)
LEMMA SumSolves ==
  ASSUME NEW S, IsFiniteSet(S), NEW f, NEW g, IsSum(g, f, S)
  PROVE  SumFunctionOnSet(f, S) = g[S]
<1> DEFINE Body(h) == [s \in SUBSET S |->
             IF s = {} THEN 0
             ELSE f[CHOOSE x \in s : TRUE] + h[s \ {CHOOSE x \in s : TRUE}]]
           iter == CHOOSE h : h = Body(h)
<1>1. SumFunctionOnSet(f, S) = iter[S]
  BY DEF SumFunctionOnSet, FoldFunctionOnSet, MapThenFoldSet
<1>2. g = Body(g)
  BY DEF IsSum, Pick
<1>3. iter = Body(iter)
  <2> HIDE DEF Body
  <2> QED BY <1>2
<1>4. IsSum(iter, f, S)
  <2> HIDE DEF iter
  <2> QED BY <1>3 DEF IsSum, Pick
<1> HIDE DEF iter
<1> QED BY <1>1, <1>4, SumUnique

(* The sum takes one element and goes on with the rest.                      *)
LEMMA SumUnfolds ==
  ASSUME NEW S, IsFiniteSet(S), NEW f
  PROVE  SumFunctionOnSet(f, S) =
           IF S = {} THEN 0 ELSE f[Pick(S)] + SumFunctionOnSet(f, S \ {Pick(S)})
<1>1. PICK g : IsSum(g, f, S)
  BY SumExists
<1>2. g[S] = IF S = {} THEN 0 ELSE f[Pick(S)] + g[S \ {Pick(S)}]
  BY <1>1 DEF IsSum
<1>3. SumFunctionOnSet(f, S) = g[S]
  BY <1>1, SumSolves
<1>4. ASSUME NEW T \in SUBSET S PROVE SumFunctionOnSet(f, T) = g[T]
  <2>1. PICK h : IsSum(h, f, T)
    BY SumExists
  <2>2. IsFiniteSet(T)
    BY FS_Subset
  <2>3. SumFunctionOnSet(f, T) = h[T]
    BY <2>1, <2>2, SumSolves
  <2>4. g[T] = h[T]
    BY <1>1, <2>1, SumUnique
  <2> QED BY <2>3, <2>4
<1> QED BY <1>2, <1>3, <1>4

(* Naturals have a natural sum.                                              *)
LEMMA SumIsNat ==
  ASSUME NEW S, IsFiniteSet(S), NEW f, \A x \in S : f[x] \in Nat
  PROVE  SumFunctionOnSet(f, S) \in Nat
<1> DEFINE Q == {T \in SUBSET S : SumFunctionOnSet(f, T) \notin Nat}
<1> SUFFICES ASSUME Q # {} PROVE FALSE
  OBVIOUS
<1>1. PICK T \in Q : T \in SUBSET S /\ \A x \in T : T \ {x} \notin Q
  <2>1. Q \in SUBSET SUBSET S OBVIOUS
  <2> HIDE DEF Q
  <2> QED BY <2>1, LeastSubset
<1>2. SumFunctionOnSet(f, T) =
        IF T = {} THEN 0 ELSE f[Pick(T)] + SumFunctionOnSet(f, T \ {Pick(T)})
  BY <1>1, SumUnfolds, FS_Subset
<1>3. ASSUME T # {} PROVE SumFunctionOnSet(f, T) \in Nat
  <2>1. Pick(T) \in T
    BY <1>3 DEF Pick
  <2>2. SumFunctionOnSet(f, T \ {Pick(T)}) \in Nat /\ f[Pick(T)] \in Nat
    BY <1>1, <2>1
  <2> QED BY <1>2, <1>3, <2>2
<1> QED BY <1>1, <1>2, <1>3

LEMMA Swap ==
  ASSUME NEW a \in Nat, NEW b \in Nat, NEW n \in Nat
  PROVE  a + (b + n) = b + (a + n)
OBVIOUS

(* Any element may be taken first.                                           *)
LEMMA SumTakes ==
  ASSUME NEW S, IsFiniteSet(S), NEW f, \A x \in S : f[x] \in Nat, NEW z \in S
  PROVE  SumFunctionOnSet(f, S) = f[z] + SumFunctionOnSet(f, S \ {z})
<1> DEFINE Sum(T) == SumFunctionOnSet(f, T)
           Q == {T \in SUBSET S : \E x \in T : Sum(T) # f[x] + Sum(T \ {x})}
<1> SUFFICES ASSUME Q # {} PROVE FALSE
  BY S \in SUBSET S
<1>1. PICK T \in Q : T \in SUBSET S /\ \A x \in T : T \ {x} \notin Q
  <2>1. Q \in SUBSET SUBSET S OBVIOUS
  <2> HIDE DEF Q
  <2> QED BY <2>1, LeastSubset
<1>2. PICK x \in T : Sum(T) # f[x] + Sum(T \ {x})
  BY <1>1
<1>3. \A U \in SUBSET S : Sum(U) = IF U = {} THEN 0 ELSE f[Pick(U)] + Sum(U \ {Pick(U)})
  BY SumUnfolds, FS_Subset
<1>4. \A U \in SUBSET S : Sum(U) \in Nat
  BY SumIsNat, FS_Subset
<1> DEFINE p == Pick(T)
<1>5. p \in T
  BY <1>2 DEF Pick
<1>6. Sum(T) = f[p] + Sum(T \ {p})
  BY <1>2, <1>3
<1>7. p # x
  BY <1>2, <1>6
<1>8. Sum(T \ {p}) = f[x] + Sum((T \ {p}) \ {x})
  BY <1>1, <1>2, <1>5, <1>7
<1>9. Sum(T \ {x}) = f[p] + Sum((T \ {x}) \ {p})
  BY <1>1, <1>2, <1>5, <1>7
<1>10. (T \ {p}) \ {x} = (T \ {x}) \ {p}
  OBVIOUS
<1>11. f[p] \in Nat /\ f[x] \in Nat /\ Sum((T \ {x}) \ {p}) \in Nat
  BY <1>1, <1>2, <1>4, <1>5
<1>12. Sum((T \ {p}) \ {x}) = Sum((T \ {x}) \ {p})
  BY <1>10
<1> HIDE DEF Sum, p
<1>13. Sum(T) = f[p] + (f[x] + Sum((T \ {x}) \ {p}))
  BY <1>6, <1>8, <1>12
<1>14. f[x] + Sum(T \ {x}) = f[x] + (f[p] + Sum((T \ {x}) \ {p}))
  BY <1>9
<1> QED BY <1>2, <1>11, <1>13, <1>14, Swap

LEMMA Distribute ==
  ASSUME NEW k \in Nat, NEW a \in Nat, NEW b \in Nat
  PROVE  k * (a + b) = k * a + k * b /\ k * a \in Nat
OBVIOUS

LEMMA Adds ==
  ASSUME NEW a \in Nat, NEW b \in Nat, NEW m \in Nat, NEW n \in Nat, a <= b, m <= n
  PROVE  a + m <= b + n
OBVIOUS

LEMMA Grows ==
  ASSUME NEW a \in Nat, NEW m \in Nat, NEW n \in Nat, m <= n
  PROVE  m <= a + n
OBVIOUS

(* When c times each term of f is at most k times that of g, and g may have  *)
(* more terms, the same is true of the sums.                                 *)
LEMMA SumsCompare ==
  ASSUME NEW S, IsFiniteSet(S), NEW c \in Nat, NEW k \in Nat,
         NEW f, NEW g, NEW A \in SUBSET S,
         \A x \in S : g[x] \in Nat,
         \A x \in A : f[x] \in Nat /\ c * f[x] <= k * g[x]
  PROVE  c * SumFunctionOnSet(f, A) <= k * SumFunctionOnSet(g, S)
<1> DEFINE Sf(T) == SumFunctionOnSet(f, T)
           Sg(T) == SumFunctionOnSet(g, T)
           Q == {T \in SUBSET S : ~(c * Sf(A \cap T) <= k * Sg(T))}
<1> SUFFICES ASSUME Q # {} PROVE FALSE
  BY A \cap S = A, S \in SUBSET S
<1>1. PICK T \in Q : T \in SUBSET S /\ \A x \in T : T \ {x} \notin Q
  <2>1. Q \in SUBSET SUBSET S OBVIOUS
  <2> HIDE DEF Q
  <2> QED BY <2>1, LeastSubset
<1>2. IsFiniteSet(T) /\ IsFiniteSet(A \cap T)
  <2>1. A \cap T \in SUBSET S OBVIOUS
  <2> QED BY <1>1, <2>1, FS_Subset
<1>3. CASE T = {}
  <2>1. A \cap T = {}
    BY <1>3
  <2>2. Sf(A \cap T) = 0 /\ Sg(T) = 0
    BY <1>2, <1>3, <2>1, SumUnfolds
  <2> HIDE DEF Sf, Sg
  <2> QED BY <1>1, <2>2
<1>4. CASE T # {}
  <2>1. PICK x \in T : TRUE
    BY <1>4
  <2> DEFINE U == T \ {x}
  <2>2. U \in SUBSET S /\ IsFiniteSet(U) /\ IsFiniteSet(A \cap U)
    <3>1. U \in SUBSET S /\ A \cap U \in SUBSET S
      BY <1>1
    <3> QED BY <3>1, FS_Subset
  <2>3. c * Sf(A \cap U) <= k * Sg(U)
    BY <1>1, <2>1, <2>2
  <2>4. Sg(T) = g[x] + Sg(U) /\ g[x] \in Nat
    BY <1>1, <1>2, <2>1, SumTakes
  <2>5. Sg(U) \in Nat /\ Sf(A \cap U) \in Nat
    <3>1. Sg(U) \in Nat
      BY <2>2, SumIsNat
    <3>2. Sf(A \cap U) \in Nat
      BY <2>2, SumIsNat
    <3> QED BY <3>1, <3>2
  <2>6. CASE x \in A
    <3>1. (A \cap T) \ {x} = A \cap U /\ x \in A \cap T
      BY <2>1, <2>6
    <3>2. Sf(A \cap T) = f[x] + Sf(A \cap U) /\ f[x] \in Nat /\ c * f[x] <= k * g[x]
      <4>1. Sf(A \cap T) = f[x] + Sf((A \cap T) \ {x})
        BY <1>2, <3>1, SumTakes
      <4> QED BY <2>6, <3>1, <4>1
    <3> HIDE DEF Sf, Sg, U
    <3>3. /\ c * Sf(A \cap T) = c * f[x] + c * Sf(A \cap U)
          /\ c * f[x] \in Nat /\ c * Sf(A \cap U) \in Nat
      BY <2>5, <3>2, Distribute
    <3>4. /\ k * Sg(T) = k * g[x] + k * Sg(U)
          /\ k * g[x] \in Nat /\ k * Sg(U) \in Nat
      <4>1. k * (g[x] + Sg(U)) = k * g[x] + k * Sg(U)
        BY <2>4, <2>5, Distribute
      <4>2. k * g[x] \in Nat /\ k * Sg(U) \in Nat
        BY <2>4, <2>5, Distribute
      <4> QED BY <2>4, <4>1, <4>2
    <3>5. c * f[x] + c * Sf(A \cap U) <= k * g[x] + k * Sg(U)
      <4> DEFINE a == c * f[x]
                 m == c * Sf(A \cap U)
                 b == k * g[x]
                 n == k * Sg(U)
      <4>1. a \in Nat /\ b \in Nat /\ m \in Nat /\ n \in Nat /\ a <= b /\ m <= n
        BY <2>3, <3>2, <3>3, <3>4
      <4> HIDE DEF a, b, m, n
      <4>2. a + m <= b + n
        BY <4>1, Adds
      <4> QED BY <4>2 DEF a, b, m, n
    <3> QED BY <1>1, <3>3, <3>4, <3>5
  <2>7. CASE x \notin A
    <3>1. A \cap T = A \cap U
      BY <2>7
    <3> HIDE DEF Sf, Sg, U
    <3>2. /\ k * Sg(T) = k * g[x] + k * Sg(U)
          /\ k * g[x] \in Nat /\ k * Sg(U) \in Nat /\ c * Sf(A \cap U) \in Nat
      BY <2>4, <2>5, Distribute
    <3>3. c * Sf(A \cap T) <= k * Sg(T)
      BY <2>3, <3>1, <3>2, Grows
    <3> QED BY <1>1, <3>3
  <2> QED BY <2>6, <2>7
<1> QED BY <1>3, <1>4

(* Functions that agree on a set have one sum over it.                       *)
LEMMA SumsAgree ==
  ASSUME NEW S, IsFiniteSet(S), NEW f, NEW g,
         \A x \in S : f[x] \in Nat /\ f[x] = g[x]
  PROVE  SumFunctionOnSet(f, S) = SumFunctionOnSet(g, S)
<1>1. \A x \in S : f[x] \in Nat /\ g[x] \in Nat /\ 1 * f[x] <= 1 * g[x] /\ 1 * g[x] <= 1 * f[x]
  OBVIOUS
<1>2. SumFunctionOnSet(f, S) \in Nat /\ SumFunctionOnSet(g, S) \in Nat
  BY <1>1, SumIsNat
<1>3. 1 * SumFunctionOnSet(f, S) <= 1 * SumFunctionOnSet(g, S)
  BY <1>1, SumsCompare, S \in SUBSET S
<1>4. 1 * SumFunctionOnSet(g, S) <= 1 * SumFunctionOnSet(f, S)
  BY <1>1, SumsCompare, S \in SUBSET S
<1> QED BY <1>2, <1>3, <1>4

-----------------------------------------------------------------------------
(* The split looks at nothing but who is on the roster, who is excluded and *)
(* the shares (core/payout-split.ts computeSplit).                          *)
LEMMA SplitDependsOn ==
  ASSUME NEW x, NEW loot, NEW a, NEW b,
         \A p \in People : /\ a[p].state = b[p].state
                           /\ a[p].excluded = b[p].excluded
                           /\ a[p].shares = b[p].shares
  PROVE  ComputeSplit(x, loot, a) = ComputeSplit(x, loot, b)
<1>1. Included(a) = Included(b)
  BY DEF Included
<1>2. [p \in People |-> a[p].shares] = [p \in People |-> b[p].shares]
  OBVIOUS
<1>3. SharesOf(a) = SharesOf(b)
  BY <1>1, <1>2 DEF SharesOf
<1>4. PerShare(x, loot, a) = PerShare(x, loot, b)
  BY <1>3 DEF PerShare
<1> QED
  BY <1>1, <1>4 DEF ComputeSplit

(* recalculate writes amounts only, to those on the roster.                 *)
LEMMA RecalculateWritesAmounts ==
  ASSUME NEW x, NEW pl, NEW pt \in [People -> Row], NEW p \in People
  PROVE  /\ Recalculated(x, pl, pt) = [q \in People |-> Recalculated(x, pl, pt)[q]]
         /\ pt[p].state # "on" => Recalculated(x, pl, pt)[p] = pt[p]
         /\ pt[p].state = "on" =>
              Recalculated(x, pl, pt)[p] =
                WithAmount(pt[p], ComputeSplit(x, LootOf(pl), pt)[p])
BY DEF Recalculated

(* One column of a row changes, the others do not.                          *)
LEMMA WithAmountRow ==
  ASSUME NEW q \in Row, NEW n
  PROVE  LET new == WithAmount(q, n) IN
         /\ new.amount = n
         /\ new.state = q.state /\ new.who = q.who /\ new.shares = q.shares
         /\ new.excluded = q.excluded /\ new.paid = q.paid
         /\ n \in Money => new \in Row
BY SMT DEF WithAmount, Row

LEMMA WithSharesRow ==
  ASSUME NEW q \in Row, NEW n \in ShareCounts
  PROVE  /\ WithShares(q, n) \in Row
         /\ WithShares(q, n).paid = q.paid
         /\ WithShares(q, n).amount = q.amount
         /\ WithShares(q, n).state = q.state
BY DEF WithShares, Row

LEMMA WithExcludedRow ==
  ASSUME NEW q \in Row, NEW b \in BOOLEAN
  PROVE  /\ WithExcluded(q, b) \in Row
         /\ WithExcluded(q, b).paid = q.paid
         /\ WithExcluded(q, b).amount = q.amount
         /\ WithExcluded(q, b).state = q.state
BY DEF WithExcluded, Row

(* A roster that an edit may hand to recalculate: rows of the table, nobody *)
(* paid, nothing owed to whoever is not on it.                              *)
Draft(pt) == /\ pt \in [People -> Row]
             /\ \A p \in People : pt[p].paid = Unpaid
             /\ \A p \in People : pt[p].state # "on" => pt[p].amount = 0

LEMMA RecalculatedDraft ==
  ASSUME NEW x, NEW pl, NEW pt, Draft(pt),
         \A p \in People : Recalculated(x, pl, pt)[p].amount \in Money
  PROVE  Draft(Recalculated(x, pl, pt))
<1> DEFINE new == Recalculated(x, pl, pt)
<1>0. pt \in [People -> Row]
  BY DEF Draft
<1>1. \A p \in People : \/ new[p] = pt[p]
                        \/ /\ pt[p].state = "on"
                           /\ \E n : new[p] = WithAmount(pt[p], n)
  BY <1>0, RecalculateWritesAmounts
<1>2. ASSUME NEW p \in People
      PROVE  /\ new[p] \in Row /\ new[p].paid = Unpaid
             /\ new[p].state # "on" => new[p].amount = 0
  <2>1. CASE new[p] = pt[p]
    BY <2>1, <1>0 DEF Draft
  <2>2. ASSUME NEW n, pt[p].state = "on", new[p] = WithAmount(pt[p], n)
        PROVE  new[p] \in Row /\ new[p].paid = Unpaid /\ new[p].state = "on"
    <3>1. pt[p] \in Row /\ pt[p].paid = Unpaid
      BY <1>0 DEF Draft
    <3> QED
      BY <2>2, <3>1, WithAmountRow
  <2> QED
    BY <1>1, <2>1, <2>2
<1>3. new = [q \in People |-> new[q]]
  BY <1>0 DEF Recalculated
<1> QED
  BY <1>2, <1>3 DEF Draft

(* In a draft nobody is paid and no payment row exists.                     *)
LEMMA NothingPaidYet ==
  ASSUME IInv, status # "finalized"
  PROVE  /\ \A p \in People : log[p] = << >> /\ part[p].paid = Unpaid
         /\ Draft(part)
<1>1. \A p \in People : log[p] = << >>
  BY DEF IInv, Settled, HasPayments
<1>2. \A p \in People : part[p].paid = Unpaid
  BY <1>1 DEF IInv, LogTellsPaid
<1> QED
  BY <1>1, <1>2 DEF IInv, OffRoster, OnRoster, Draft, TypeOK

(* What every edit of roster or loot comes to: Edit, on rows nobody was paid *)
(* on.                                                                      *)
DraftEdit ==
  /\ Editable
  /\ \E x \in Percents \union {0} : \E pl, it, pt :
       /\ Draft(pt)
       /\ pl = [l \in Pools |-> pl[l]] /\ it = [i \in Items |-> it[i]]
       /\ Edit(x, pl, it, pt)

LEMMA IsDraftEdit ==
  ASSUME Editable, NEW x \in Percents \union {0}, NEW pl, NEW it, NEW pt,
         Draft(pt), pl = [l \in Pools |-> pl[l]], it = [i \in Items |-> it[i]],
         Edit(x, pl, it, pt)
  PROVE  DraftEdit
BY DEF DraftEdit

LEMMA EditStep ==
  ASSUME IInv, DraftEdit,
         request' \in [Requests -> [actor : Accounts, target : Target] \union {NoRequest}]
  PROVE  IInv'
<1>a. PICK x \in Percents \union {0} :
        \E pl, it, pt : /\ Draft(pt)
                        /\ pl = [l \in Pools |-> pl[l]] /\ it = [i \in Items |-> it[i]]
                        /\ Edit(x, pl, it, pt)
  BY DEF DraftEdit
<1>0. PICK pl, it, pt :
        /\ Draft(pt)
        /\ pl = [l \in Pools |-> pl[l]] /\ it = [i \in Items |-> it[i]]
        /\ Edit(x, pl, it, pt)
  BY <1>a
<1>1. Draft(part')
  BY <1>0, RecalculatedDraft DEF Edit, ColumnsFit
<1>2. \A p \in People : log'[p] = << >>
  BY <1>0, NothingPaidYet DEF DraftEdit, Edit, Editable
<1>3. TypeOK'
  <2>1. pool' \in [Pools -> Money \union {NoValue}]
    BY <1>0 DEF Edit, ColumnsFit
  <2>2. item' \in [Items -> Money \union {NoValue}]
    BY <1>0 DEF Edit, ColumnsFit
  <2> QED
    BY <1>0, <1>1, <2>1, <2>2 DEF IInv, TypeOK, Edit, Draft
<1>4. LogTellsPaid'
  <2>1. ASSUME NEW p \in People
        PROVE  Len(log'[p]) = 0 /\ part'[p].paid = Unpaid
    BY <1>1, <1>2 DEF Draft
  <2> QED
    BY <2>1 DEF LogTellsPaid
<1>5. Settled'
  BY <1>2 DEF Settled, HasPayments
<1>6. OffRoster'
  BY <1>1, <1>2 DEF OffRoster, OnRoster, Draft
<1> QED
  BY <1>3, <1>4, <1>5, <1>6 DEF IInv

-----------------------------------------------------------------------------
(* What the edits hand to recalculate.                                      *)

LEMMA FreshType ==
  ASSUME NEW st \in {"free", "on", "gone"}, NEW who \in Humans \union {NoValue}
  PROVE  Fresh(st, who) \in Row
BY PayoutsAssumption DEF Fresh, Money, Row

LEMMA SeatDraft ==
  ASSUME NEW pt, Draft(pt), NEW H \in SUBSET Humans, NEW f \in Seatings(H)
  PROVE  Draft(Seat(pt, f))
<1>1. PICK S \in SUBSET Free : f \in [S -> H]
  BY DEF Seatings, Bijection, Injection
<1>2. ASSUME NEW p \in People, p \in DOMAIN f
      PROVE  /\ Seat(pt, f)[p] \in Row /\ Seat(pt, f)[p].paid = Unpaid
             /\ Seat(pt, f)[p].state = "on"
  <2>1. f[p] \in Humans
    BY <1>1, <1>2
  <2>2. Seat(pt, f)[p] = Fresh("on", f[p])
    BY <1>2 DEF Seat
  <2>3. Fresh("on", f[p]) \in Row
    BY <2>1, FreshType
  <2> QED
    BY <2>2, <2>3 DEF Fresh
<1>3. ASSUME NEW p \in People, p \notin DOMAIN f
      PROVE  Seat(pt, f)[p] = pt[p]
  BY <1>3 DEF Seat
<1> QED
  BY <1>2, <1>3 DEF Draft, Seat

LEMMA ClearedDraft == ASSUME NEW pt, Draft(pt) PROVE Draft(Cleared(pt))
<1>1. Gone \in Row /\ Gone.paid = Unpaid /\ Gone.amount = 0
  BY FreshType DEF Gone, Fresh
<1> QED
  BY <1>1 DEF Cleared, Draft

LEMMA TouchedDraft ==
  ASSUME NEW p \in People, NEW new \in Row, Draft(part),
         new.paid = Unpaid, new.state # "on" => new.amount = 0
  PROVE  Draft(Touched(p, new))
BY DEF Touched, Draft

LEMMA ItemsWithType ==
  ASSUME NEW f PROVE WithItems(f) = [i \in Items |-> WithItems(f)[i]]
BY DEF WithItems

LEMMA LockedType ==
  ASSUME TypeOK, NEW r \in Requests, NEW t, Locked(r, t)
  PROVE  request' \in [Requests -> [actor : Accounts, target : Target] \union {NoRequest}]
BY DEF TypeOK, Locked

LEMMA RosterEdits ==
  ASSUME IInv, NEW r \in Requests, EditRoster(r)
  PROVE  DraftEdit
<1>0. TypeOK
  BY DEF IInv
<1>a. /\ pct \in Percents \union {0}
      /\ pool = [l \in Pools |-> pool[l]] /\ item = [i \in Items |-> item[i]]
      /\ part \in [People -> Row]
  BY <1>0 DEF TypeOK
<1>b. Editable => Draft(part)
  BY NothingPaidYet DEF Editable
<1>1. CASE \E H \in SUBSET Humans : SetRoster(r, H)
  <2>1. PICK H \in SUBSET Humans : SetRoster(r, H)
    BY <1>1
  <2>2. PICK f \in Seatings(H) : Edit(pct, pool, item, Seat(Cleared(part), f))
    BY <2>1 DEF SetRoster
  <2>3. Editable
    BY <2>1 DEF SetRoster
  <2>4. Draft(Seat(Cleared(part), f))
    BY <1>b, <2>3, SeatDraft, ClearedDraft
  <2> QED
    BY <1>a, <2>2, <2>3, <2>4, IsDraftEdit
<1>2. CASE \E h \in Humans : AddParticipant(r, h)
  <2>1. PICK h \in Humans : AddParticipant(r, h)
    BY <1>2
  <2>2. Editable
    BY <2>1 DEF AddParticipant
  <2>3. CASE Edit(pct, pool, item, part)
    BY <1>a, <1>b, <2>2, <2>3, IsDraftEdit
  <2>4. ASSUME NEW f \in Seatings({h}), Edit(pct, pool, item, Seat(part, f))
        PROVE  DraftEdit
    <3>1. Draft(Seat(part, f))
      BY <1>b, <2>2, SeatDraft, {h} \in SUBSET Humans
    <3> QED
      BY <1>a, <2>2, <2>4, <3>1, IsDraftEdit
  <2> QED
    BY <2>1, <2>3, <2>4 DEF AddParticipant
<1>3. ASSUME NEW p \in People, NEW n \in ShareCounts, SetParticipantShares(r, p, n)
      PROVE  DraftEdit
  <2>1. Editable
    BY <1>3 DEF SetParticipantShares
  <2>2. /\ part[p] \in Row /\ part[p].paid = Unpaid
        /\ part[p].state # "on" => part[p].amount = 0
    BY <1>b, <2>1 DEF Draft
  <2>3. /\ WithShares(part[p], n) \in Row
        /\ WithShares(part[p], n).paid = Unpaid
        /\ WithShares(part[p], n).state # "on" => WithShares(part[p], n).amount = 0
    BY <2>2, WithSharesRow
  <2>4. Draft(part)
    BY <1>b, <2>1
  <2>5. Draft(Touched(p, WithShares(part[p], n)))
    BY <2>3, <2>4, TouchedDraft
  <2> QED
    BY <1>a, <1>3, <2>1, <2>5, IsDraftEdit DEF SetParticipantShares
<1>4. ASSUME NEW p \in People, NEW b \in BOOLEAN, SetParticipantExcluded(r, p, b)
      PROVE  DraftEdit
  <2>1. Editable
    BY <1>4 DEF SetParticipantExcluded
  <2>2. /\ part[p] \in Row /\ part[p].paid = Unpaid
        /\ part[p].state # "on" => part[p].amount = 0
    BY <1>b, <2>1 DEF Draft
  <2>3. /\ WithExcluded(part[p], b) \in Row
        /\ WithExcluded(part[p], b).paid = Unpaid
        /\ WithExcluded(part[p], b).state # "on" => WithExcluded(part[p], b).amount = 0
    BY <2>2, WithExcludedRow
  <2>4. Draft(part)
    BY <1>b, <2>1
  <2>5. Draft(Touched(p, WithExcluded(part[p], b)))
    BY <2>3, <2>4, TouchedDraft
  <2> QED
    BY <1>a, <1>4, <2>1, <2>5, IsDraftEdit DEF SetParticipantExcluded
<1>5. ASSUME NEW p \in People, RemoveParticipant(r, p)
      PROVE  DraftEdit
  <2>1. Editable
    BY <1>5 DEF RemoveParticipant
  <2>2. Gone \in Row /\ Gone.paid = Unpaid /\ Gone.amount = 0
    BY FreshType DEF Gone, Fresh
  <2>3. Draft(Touched(p, Gone))
    BY <1>b, <2>1, <2>2, TouchedDraft
  <2> QED
    BY <1>a, <1>5, <2>1, <2>3, IsDraftEdit DEF RemoveParticipant
<1> QED
  BY <1>1, <1>2, <1>3, <1>4, <1>5 DEF EditRoster

LEMMA LootEdits ==
  ASSUME IInv, NEW r \in Requests, EditLoot(r)
  PROVE  \/ UNCHANGED <<status, creator, book, log, operators, admins>>
         \/ DraftEdit
<1>0. TypeOK
  BY DEF IInv
<1>a. /\ pct \in Percents \union {0}
      /\ pool = [l \in Pools |-> pool[l]] /\ item = [i \in Items |-> item[i]]
  BY <1>0 DEF TypeOK
<1>b. Editable => Draft(part)
  BY NothingPaidYet DEF Editable
<1>1. ASSUME NEW x \in Percents, SetCorpSharePct(r, x)
      PROVE  DraftEdit
  <2>1. Editable
    BY <1>1 DEF SetCorpSharePct
  <2> QED
    BY <1>a, <1>b, <1>1, <2>1, IsDraftEdit DEF SetCorpSharePct
<1>2. ASSUME NEW l \in Pools, NEW v \in Totals, AddFlatPool(r, l, v)
      PROVE  DraftEdit
  <2>1. Editable
    BY <1>2 DEF AddFlatPool
  <2>2. [pool EXCEPT ![l] = v] = [k \in Pools |-> [pool EXCEPT ![l] = v][k]]
    BY <1>a
  <2> QED
    BY <1>a, <1>b, <1>2, <2>1, <2>2, IsDraftEdit DEF AddFlatPool
<1>3. ASSUME NEW l \in Pools, NEW f \in Lines, AddAppraisedPool(r, l, f)
      PROVE  DraftEdit
  <2> DEFINE new == [pool EXCEPT ![l] = PoolValue(WithItems(f), l)]
  <2>1. Editable
    BY <1>3 DEF AddAppraisedPool
  <2>2. new = [k \in Pools |-> new[k]]
    BY <1>a
  <2> QED
    BY <1>a, <1>b, <1>3, <2>1, <2>2, IsDraftEdit, ItemsWithType DEF AddAppraisedPool
<1>4. ASSUME NEW i \in Items, NEW v \in Prices, SetItemPrice(r, i, v)
      PROVE  DraftEdit
  <2> DEFINE lines == [item EXCEPT ![i] = Qty[i] * v]
  <2>1. Editable
    BY <1>4 DEF SetItemPrice
  <2>2. lines = [k \in Items |-> lines[k]]
    BY <1>a
  <2>3. Repriced(i, lines) = [k \in Pools |-> Repriced(i, lines)[k]]
    BY <1>a DEF Repriced
  <2> HIDE DEF lines
  <2>4. Edit(pct, Repriced(i, lines), lines, part)
    BY <1>4 DEF SetItemPrice, lines
  <2> QED
    BY <1>a, <1>b, <2>1, <2>2, <2>3, <2>4, IsDraftEdit
<1>5. ASSUME NEW l \in Pools, DeletePool(r, l)
      PROVE  \/ UNCHANGED <<status, creator, book, log, operators, admins>>
             \/ DraftEdit
  <2>2. CASE pool[l] = NoValue
    BY <1>5, <2>2 DEF DeletePool
  <2>3. CASE pool[l] # NoValue
    <3> DEFINE new == [pool EXCEPT ![l] = NoValue]
               left == [i \in Items |-> IF PoolOf[i] = l THEN NoValue ELSE item[i]]
    <3>1. new = [k \in Pools |-> new[k]] /\ left = [k \in Items |-> left[k]]
      BY <1>a
    <3>2. Editable /\ Edit(pct, new, left, part)
      BY <1>5, <2>3 DEF DeletePool
    <3> HIDE DEF new, left
    <3> QED
      BY <1>a, <1>b, <3>1, <3>2, IsDraftEdit
  <2> QED
    BY <2>2, <2>3
<1> QED
  BY <1>1, <1>2, <1>3, <1>4, <1>5 DEF EditLoot

-----------------------------------------------------------------------------
(* The other steps.                                                         *)

(* What a step that leaves roster and log alone owes the invariant.         *)
LEMMA RosterKept ==
  ASSUME IInv, UNCHANGED <<pct, pool, item, part, log>>,
         status' \in {"none", "draft", "finalized", "deleted"},
         creator' \in Accounts \union {NoValue},
         operators' \subseteq Accounts, admins' \subseteq Accounts,
         request' \in [Requests -> [actor : Accounts, target : Target] \union {NoRequest}],
         HasPayments => status' = "finalized"
  PROVE  IInv'
<1>1. TypeOK'
  BY DEF IInv, TypeOK
<1>2. LogTellsPaid'
  BY DEF IInv, LogTellsPaid, LastEvent
<1>3. Settled'
  BY DEF Settled, HasPayments
<1>4. OffRoster'
  BY DEF IInv, OffRoster, OnRoster
<1> QED
  BY <1>1, <1>2, <1>3, <1>4 DEF IInv

(* A payment event extends one participant's log.                           *)
LEMMA LoggedType ==
  ASSUME TypeOK, NEW p \in People, NEW kind \in {"paid", "reverted"},
         NEW amount \in Money, NEW now \in 0..MaxClock, Logged(p, kind, amount, now)
  PROVE  /\ log' \in [People -> Seq(Event)]
         /\ NextPaymentAt(p, now) \in Nat
         /\ Len(log'[p]) = Len(log[p]) + 1
         /\ \A k \in 1..Len(log[p]) : log'[p][k] = log[p][k]
         /\ log'[p][Len(log[p]) + 1] =
              [kind |-> kind, amount |-> amount, at |-> NextPaymentAt(p, now)]
         /\ \A q \in People \ {p} : log'[q] = log[q]
<1> DEFINE e == [kind |-> kind, amount |-> amount, at |-> NextPaymentAt(p, now)]
<1>1. log[p] \in Seq(Event) /\ now \in Nat
  BY PayoutsAssumption DEF TypeOK
<1>2. log[p] # << >> => LastEvent(p) \in Event
  <2>1. log[p] # << >> => Len(log[p]) \in 1..Len(log[p])
    BY <1>1
  <2> QED
    BY <1>1, <2>1 DEF LastEvent
<1>3. NextPaymentAt(p, now) \in Nat
  <2>1. log[p] # << >> => LastEvent(p).at \in Nat
    BY <1>2 DEF Event
  <2> QED
    BY <1>1, <2>1 DEF NextPaymentAt
<1>4. e \in Event
  BY <1>3 DEF Event
<1>5. log' = [log EXCEPT ![p] = Append(log[p], e)]
  BY DEF Logged
<1> HIDE DEF e
<1>6. Append(log[p], e) \in Seq(Event)
  BY <1>1, <1>4
<1>7. log'[p] = Append(log[p], e)
  BY <1>5 DEF TypeOK
<1>8. /\ Len(log'[p]) = Len(log[p]) + 1
      /\ \A k \in 1..Len(log[p]) : log'[p][k] = log[p][k]
      /\ log'[p][Len(log[p]) + 1] = e
  BY <1>1, <1>4, <1>7
<1>9. log' \in [People -> Seq(Event)] /\ \A q \in People \ {p} : log'[q] = log[q]
  BY <1>5, <1>6 DEF TypeOK
<1> QED
  BY <1>3, <1>8, <1>9 DEF e

LEMMA WithPaidRow ==
  ASSUME NEW q \in Row, NEW v \in Money \union {Unpaid}
  PROVE  LET new == WithPaid(q, v) IN
         /\ new \in Row /\ new.paid = v
         /\ new.amount = q.amount /\ new.state = q.state /\ new.who = q.who
         /\ new.shares = q.shares /\ new.excluded = q.excluded
BY DEF WithPaid, Row

(* The two events differ in the guard and in what the participant is shown  *)
(* as afterwards; this is what they share.                                  *)
LEMMA PaymentStep ==
  ASSUME IInv, NEW p \in People, NEW now \in 0..MaxClock, OnRoster(p),
         NEW kind \in {"paid", "reverted"},
         kind = "paid" <=> ~AlreadyPaid(p),
         NEW v, v = IF kind = "paid" THEN part[p].amount ELSE Unpaid,
         part' = [part EXCEPT ![p] = WithPaid(@, v)],
         Logged(p, kind, part[p].amount, now),
         status = "finalized", UNCHANGED <<status, creator, pct, pool, item, operators, admins>>,
         request' \in [Requests -> [actor : Accounts, target : Target] \union {NoRequest}]
  PROVE  IInv'
<1>1. TypeOK /\ part[p] \in Row /\ part[p].amount \in Money
  BY DEF IInv, TypeOK, Row
<1>2. v \in Money \union {Unpaid} /\ (v = Unpaid <=> kind = "reverted")
  BY <1>1, PayoutsAssumption DEF Money
<1>3. part'[p] = WithPaid(part[p], v) /\ \A q \in People \ {p} : part'[q] = part[q]
  BY <1>1 DEF TypeOK
<1>4. /\ part' \in [People -> Row]
      /\ part'[p].paid = v /\ part'[p].amount = part[p].amount /\ part'[p].state = part[p].state
  BY <1>1, <1>2, <1>3, WithPaidRow DEF TypeOK
<1>5. /\ log' \in [People -> Seq(Event)]
      /\ Len(log'[p]) = Len(log[p]) + 1
      /\ \A k \in 1..Len(log[p]) : log'[p][k] = log[p][k]
      /\ log'[p][Len(log[p]) + 1].kind = kind
      /\ log'[p][Len(log[p]) + 1].amount = part[p].amount
      /\ \A q \in People \ {p} : log'[q] = log[q]
  <2> DEFINE e == [kind |-> kind, amount |-> part[p].amount, at |-> NextPaymentAt(p, now)]
  <2>1. /\ log' \in [People -> Seq(Event)]
        /\ Len(log'[p]) = Len(log[p]) + 1
        /\ \A k \in 1..Len(log[p]) : log'[p][k] = log[p][k]
        /\ log'[p][Len(log[p]) + 1] = e
        /\ \A q \in People \ {p} : log'[q] = log[q]
    BY <1>1, LoggedType
  <2>2. e.kind = kind /\ e.amount = part[p].amount
    OBVIOUS
  <2> QED
    BY <2>1, <2>2
<1>6. Len(log[p]) \in Nat /\ (log[p] = << >> <=> Len(log[p]) = 0)
  BY <1>1 DEF TypeOK
<1>7. TypeOK'
  BY <1>1, <1>4, <1>5 DEF TypeOK
<1>8. LogTellsPaid'
  <2>1. ASSUME NEW q \in People \ {p}
        PROVE  /\ \A k \in 1..Len(log'[q]) :
                    /\ log'[q][k].kind =
                         IF k = 1 \/ log'[q][k - 1].kind = "reverted" THEN "paid" ELSE "reverted"
                    /\ log'[q][k].amount = part'[q].amount
               /\ part'[q].paid = IF log'[q] # << >> /\ log'[q][Len(log'[q])].kind = "paid"
                                  THEN part'[q].amount ELSE Unpaid
    BY <1>3, <1>5 DEF IInv, LogTellsPaid, LastEvent
  <2>2. ASSUME NEW k \in 1..Len(log'[p])
        PROVE  /\ log'[p][k].kind =
                    IF k = 1 \/ log'[p][k - 1].kind = "reverted" THEN "paid" ELSE "reverted"
               /\ log'[p][k].amount = part'[p].amount
    <3>1. CASE k \in 1..Len(log[p])
      <4>1. k = 1 \/ k - 1 \in 1..Len(log[p])
        BY <3>1, <1>6
      <4>2. /\ log[p][k].kind =
                 IF k = 1 \/ log[p][k - 1].kind = "reverted" THEN "paid" ELSE "reverted"
            /\ log[p][k].amount = part[p].amount
        BY <3>1 DEF IInv, LogTellsPaid
      <4>3. log'[p][k] = log[p][k] /\ (k = 1 \/ log'[p][k - 1] = log[p][k - 1])
        BY <3>1, <4>1, <1>5
      <4> QED
        BY <4>2, <4>3, <1>4
    <3>2. CASE k = Len(log[p]) + 1
      <4>1. CASE Len(log[p]) = 0
        <5>1. kind = "paid"
          BY <4>1, <1>6 DEF IInv, LogTellsPaid, AlreadyPaid
        <5> QED
          BY <3>2, <4>1, <5>1, <1>4, <1>5
      <4>2. CASE Len(log[p]) # 0
        <5>1. k # 1 /\ k - 1 = Len(log[p]) /\ Len(log[p]) \in 1..Len(log[p])
          BY <3>2, <4>2, <1>6
        <5>2. log'[p][k - 1] = LastEvent(p) /\ LastEvent(p).kind \in {"paid", "reverted"}
          <6>1. log[p] \in Seq(Event)
            BY <1>1 DEF TypeOK
          <6>2. LastEvent(p) \in Event
            BY <5>1, <6>1 DEF LastEvent
          <6>3. log'[p][Len(log[p])] = LastEvent(p)
            BY <5>1, <1>5 DEF LastEvent
          <6> QED
            BY <5>1, <6>2, <6>3 DEF Event
        <5>3. AlreadyPaid(p) <=> LastEvent(p).kind = "paid"
          BY <4>2, <1>1, <1>6, PayoutsAssumption DEF IInv, LogTellsPaid, AlreadyPaid, Money
        <5> QED
          BY <3>2, <5>1, <5>2, <5>3, <1>4, <1>5
      <4> QED
        BY <4>1, <4>2
    <3> QED
      BY <3>1, <3>2, <1>5, <1>6
  <2>3. part'[p].paid = IF log'[p] # << >> /\ log'[p][Len(log'[p])].kind = "paid"
                        THEN part'[p].amount ELSE Unpaid
    <3>1. log'[p] # << >> /\ log'[p][Len(log'[p])].kind = kind
      BY <1>5, <1>6
    <3> QED
      BY <3>1, <1>4
  <2> QED
    BY <2>1, <2>2, <2>3 DEF LogTellsPaid, LastEvent
<1>9. Settled'
  BY DEF Settled
<1>10. OffRoster'
  BY <1>3, <1>4, <1>5 DEF IInv, OffRoster, OnRoster
<1> QED
  BY <1>7, <1>8, <1>9, <1>10 DEF IInv

LEMMA EditorStep ==
  ASSUME IInv, NEW r \in Requests, EditRoster(r) \/ EditLoot(r)
  PROVE  IInv'
<1>0. TypeOK /\ (HasPayments => status = "finalized")
  BY DEF IInv, Settled
<1>1. \E t : Locked(r, t)
  BY DEF EditRoster, SetRoster, AddParticipant, SetParticipantShares,
         SetParticipantExcluded, RemoveParticipant, EditLoot, SetCorpSharePct,
         AddFlatPool, AddAppraisedPool, SetItemPrice, DeletePool
<1>2. request' \in [Requests -> [actor : Accounts, target : Target] \union {NoRequest}]
  BY <1>0, <1>1, LockedType
<1>3. CASE UNCHANGED <<status, creator, book, log, operators, admins>>
  BY <1>0, <1>2, <1>3, RosterKept DEF TypeOK, book
<1>4. CASE DraftEdit
  BY <1>2, <1>4, EditStep
<1> QED
  BY <1>3, <1>4, RosterEdits, LootEdits

LEMMA SettleStep ==
  ASSUME IInv, NEW r \in Requests, Settle(r)
  PROVE  IInv'
<1> DEFINE Reqs == [Requests -> [actor : Accounts, target : Target] \union {NoRequest}]
<1>0. TypeOK
  BY DEF IInv
<1>a. /\ creator \in Accounts \union {NoValue} /\ operators \subseteq Accounts
      /\ admins \subseteq Accounts
  BY <1>0 DEF TypeOK
<1>1. CASE FinalizeOperation(r)
  <2>1. request' \in Reqs
    BY <1>0, <1>1, LockedType DEF FinalizeOperation
  <2> QED
    BY <1>a, <1>1, <2>1, RosterKept DEF FinalizeOperation, book
<1>2. CASE UnlockOperation(r)
  <2>1. request' \in Reqs
    BY <1>0, <1>2, LockedType DEF UnlockOperation
  <2>2. ~HasPayments
    BY <1>2 DEF UnlockOperation, IInv, Settled
  <2> QED
    BY <1>a, <1>2, <2>1, <2>2, RosterKept DEF UnlockOperation, book
<1>3. CASE DeleteOperation(r)
  <2>1. request' \in Reqs
    BY <1>0, <1>3, LockedType DEF DeleteOperation
  <2>2. Gone \in Row /\ Gone.paid = Unpaid /\ Gone.amount = 0 /\ Gone.state # "on"
    BY FreshType DEF Gone, Fresh
  <2>3. /\ part' = Cleared(part) /\ status' = "deleted"
        /\ pool' = [l \in Pools |-> NoValue] /\ item' = [i \in Items |-> NoValue]
        /\ UNCHANGED <<creator, pct, operators, admins>>
    BY <1>3 DEF DeleteOperation
  <2>4. log' = [p \in People |-> << >>]
    BY <1>3 DEF DeleteOperation
  <2>5. ASSUME NEW p \in People
        PROVE  /\ part'[p] \in Row /\ part'[p].paid = Unpaid /\ part'[p].amount = 0
               /\ log'[p] = << >> /\ Len(log'[p]) = 0
    <3>1. part[p] \in Row /\ part[p].paid = Unpaid
      BY <1>0, <1>3 DEF TypeOK, DeleteOperation, NobodyPaid
    <3>2. part[p].state # "on" => part[p].amount = 0
      BY DEF IInv, OffRoster, OnRoster
    <3> QED
      BY <2>2, <2>3, <2>4, <3>1, <3>2 DEF Cleared
  <2>6. part' \in [People -> Row]
    BY <2>3, <2>5 DEF Cleared
  <2>7. log' \in [People -> Seq(Event)]
    BY <2>4
  <2>8. TypeOK'
    BY <1>0, <2>1, <2>3, <2>6, <2>7 DEF TypeOK
  <2>9. LogTellsPaid'
    BY <2>5 DEF LogTellsPaid
  <2>10. Settled' /\ OffRoster'
    BY <2>5 DEF Settled, HasPayments, OffRoster
  <2> QED
    BY <2>8, <2>9, <2>10 DEF IInv
<1>4. ASSUME NEW p \in People, NEW now \in 0..MaxClock, RecordPayment(r, p, now)
      PROVE  IInv'
  <2>1. request' \in Reqs
    BY <1>0, <1>4, LockedType DEF RecordPayment
  <2>2. /\ OnRoster(p) /\ status = "finalized"
        /\ UNCHANGED <<status, creator, pct, pool, item, operators, admins>>
    BY <1>4 DEF RecordPayment
  <2>3. CASE AlreadyPaid(p)
    BY <1>a, <1>4, <2>1, <2>2, <2>3, RosterKept DEF RecordPayment
  <2>4. CASE ~AlreadyPaid(p)
    <3>1. /\ part' = [part EXCEPT ![p] = WithPaid(@, part[p].amount)]
          /\ Logged(p, "paid", part[p].amount, now)
      BY <1>4, <2>4 DEF RecordPayment
    <3> QED
      BY <2>1, <2>2, <2>4, <3>1, PaymentStep
  <2> QED
    BY <2>3, <2>4
<1>5. ASSUME NEW p \in People, NEW now \in 0..MaxClock, RevertPayment(r, p, now)
      PROVE  IInv'
  <2>1. request' \in Reqs
    BY <1>0, <1>5, LockedType DEF RevertPayment
  <2>2. /\ OnRoster(p) /\ status = "finalized" /\ AlreadyPaid(p)
        /\ UNCHANGED <<status, creator, pct, pool, item, operators, admins>>
        /\ part' = [part EXCEPT ![p] = WithPaid(@, Unpaid)]
        /\ Logged(p, "reverted", part[p].paid, now)
    BY <1>5 DEF RevertPayment
  <2>3. part[p].paid = part[p].amount
    BY <2>2 DEF IInv, LogTellsPaid, AlreadyPaid
  <2> QED
    BY <2>1, <2>2, <2>3, PaymentStep
<1> QED
  BY <1>1, <1>2, <1>3, <1>4, <1>5 DEF Settle

LEMMA CreateStep ==
  ASSUME IInv, NEW a \in Accounts, NEW x \in Percents, NEW L, NEW f,
         NEW H \in SUBSET Humans, Create(a, x, L, f, H)
  PROVE  IInv'
<1>1. TypeOK /\ Draft(part) /\ \A p \in People : log[p] = << >>
  BY NothingPaidYet DEF IInv, Create
<1>2. PICK seats \in Seatings(H) : part' = Recalculated(x, pool', Seat(part, seats))
  BY DEF Create
<1>3. Draft(part')
  BY <1>1, <1>2, SeatDraft, RecalculatedDraft DEF Create, ColumnsFit
<1>4. pool' \in [Pools -> Money \union {NoValue}]
  BY DEF Create, ColumnsFit
<1>5. item' \in [Items -> Money \union {NoValue}]
  BY ItemsWithType DEF Create, ColumnsFit
<1>6. TypeOK'
  BY <1>1, <1>3, <1>4, <1>5 DEF TypeOK, Create, Draft
<1>7. \A p \in People : log'[p] = << >> /\ Len(log'[p]) = 0 /\ part'[p].paid = Unpaid
  <2>1. UNCHANGED log
    BY DEF Create
  <2> QED
    BY <1>1, <1>3, <2>1 DEF Draft
<1>8. LogTellsPaid'
  BY <1>7 DEF LogTellsPaid
<1>9. Settled' /\ OffRoster'
  BY <1>3, <1>7 DEF Settled, HasPayments, OffRoster, OnRoster, Draft
<1> QED
  BY <1>6, <1>8, <1>9 DEF IInv

LEMMA Initially == ASSUME Init PROVE IInv
<1>1. Fresh("free", NoValue) \in Row /\ \A p \in People : part[p] = Fresh("free", NoValue)
  BY FreshType DEF Init
<1>2. TypeOK
  BY <1>1 DEF TypeOK, Init
<1>3. \A p \in People : log[p] = << >> /\ Len(log[p]) = 0
  BY DEF Init
<1>4. LogTellsPaid /\ Settled /\ OffRoster
  BY <1>1, <1>3 DEF LogTellsPaid, Settled, HasPayments, OffRoster, Fresh
<1> QED
  BY <1>2, <1>4 DEF IInv

LEMMA EveryStep == ASSUME IInv, [Next]_vars PROVE IInv'
<1> DEFINE Reqs == [Requests -> [actor : Accounts, target : Target] \union {NoRequest}]
<1>0. TypeOK /\ (HasPayments => status = "finalized")
  BY DEF IInv, Settled
<1>1. CASE Begin
  <2>1. ASSUME NEW r \in Requests, NEW a \in Accounts, NEW t \in Target, Open(r, a, t)
        PROVE  IInv'
    <3>1. request' \in Reqs
      BY <1>0, <2>1 DEF Open, TypeOK
    <3> QED
      BY <1>0, <2>1, <3>1, RosterKept DEF Open, TypeOK, book
  <2> QED
    BY <1>1, <2>1, CreateStep DEF Begin
<1>2. CASE AccountsChange
  BY <1>0, <1>2, RosterKept DEF AccountsChange, TypeOK, book
<1>3. ASSUME NEW r \in Requests, Fail(r)
      PROVE  IInv'
  BY <1>0, <1>3, RosterKept DEF Fail, TypeOK, book
<1>4. CASE UNCHANGED vars
  BY <1>0, <1>4, RosterKept DEF vars, TypeOK
<1> QED
  BY <1>1, <1>2, <1>3, <1>4, EditorStep, SettleStep DEF Next

(* The inductive invariant holds for any roster, loot, and number of        *)
(* requests in flight.                                                      *)
THEOREM Invariance == Spec => []IInv
BY Initially, EveryStep, PTL DEF Spec

(* Every row, pool, item and request has its type, for any constants.       *)
THEOREM TypeCorrect == Spec => []TypeOK
<1>1. IInv => TypeOK
  BY DEF IInv
<1> QED
  BY <1>1, Invariance, PTL

-----------------------------------------------------------------------------
(* Once money has moved.                                                    *)

LEMMA PaidBack ==
  ASSUME NEW q \in Row, NEW v
  PROVE  WithPaid(WithPaid(q, v), q.paid) = q /\ WithPaid(q, q.paid) = q
BY DEF WithPaid, Row

\* What FrozenOncePaid lets a step do that does not delete the operation.
Kept == /\ status' = "finalized"
        /\ UNCHANGED <<pct, pool, item>>
        /\ \A p \in People : WithPaid(part'[p], part[p].paid) = part[p]

LEMMA KeptByOthers ==
  ASSUME IInv, status' = "finalized", UNCHANGED <<pct, pool, item, part>>
  PROVE  Kept
BY PaidBack DEF Kept, IInv, TypeOK

LEMMA SettleFrozen ==
  ASSUME IInv, HasPayments, NEW r \in Requests, Settle(r)
  PROVE  (status' = "deleted" /\ NobodyPaid) \/ Kept
<1>0. status = "finalized" /\ part \in [People -> Row]
  BY DEF IInv, Settled, TypeOK
<1>1. CASE FinalizeOperation(r)
  BY <1>1, KeptByOthers DEF FinalizeOperation, book
<1>2. CASE UnlockOperation(r)
  BY <1>0, <1>2 DEF UnlockOperation
<1>3. CASE DeleteOperation(r)
  BY <1>3 DEF DeleteOperation
<1>4. ASSUME NEW p \in People, NEW v, part' = [part EXCEPT ![p] = WithPaid(@, v)]
      PROVE  \A q \in People : WithPaid(part'[q], part[q].paid) = part[q]
  <2>1. \A q \in People : part'[q] = part[q] \/ part'[q] = WithPaid(part[q], v)
    BY <1>0, <1>4
  <2>2. \A q \in People : part[q] \in Row
    BY <1>0
  <2> QED
    BY <2>1, <2>2, PaidBack
<1>5. ASSUME NEW p \in People, NEW now \in 0..MaxClock,
             RecordPayment(r, p, now) \/ RevertPayment(r, p, now)
      PROVE  Kept
  <2>1. UNCHANGED <<status, pct, pool, item>>
    BY <1>5 DEF RecordPayment, RevertPayment
  <2>2. \/ UNCHANGED part
        \/ \E v : part' = [part EXCEPT ![p] = WithPaid(@, v)]
    BY <1>5 DEF RecordPayment, RevertPayment
  <2>3. CASE UNCHANGED part
    BY <1>0, <2>1, <2>3, KeptByOthers
  <2>4. ASSUME NEW v, part' = [part EXCEPT ![p] = WithPaid(@, v)] PROVE Kept
    BY <1>0, <1>4, <2>1, <2>4 DEF Kept
  <2> QED
    BY <2>2, <2>3, <2>4
<1> QED
  BY <1>1, <1>2, <1>3, <1>5 DEF Settle

(* For any number of requests already past their checks: with one payment   *)
(* row, reverted or not, no edit, unlock or create changes the inputs of    *)
(* the split; only the deletion of an operation that paid nobody does.      *)
THEOREM FrozenOnceMoneyMoved == Spec => FrozenOncePaid
<1> DEFINE Frozen == (status' = "deleted" /\ NobodyPaid) \/ Kept
<1>1. ASSUME IInv, [Next]_vars, HasPayments, vars' # vars
      PROVE  Frozen
  <2>0. status = "finalized" /\ ~Editable
    BY <1>1 DEF IInv, Settled, Editable
  <2>1. CASE Begin
    <3>1. UNCHANGED <<status, creator, book, log, operators, admins>>
      BY <2>0, <2>1 DEF Begin, Create, Open
    <3> QED
      BY <1>1, <2>0, <3>1, KeptByOthers DEF book
  <2>2. CASE AccountsChange
    BY <1>1, <2>0, <2>2, KeptByOthers DEF AccountsChange, book
  <2>3. ASSUME NEW r \in Requests, EditRoster(r) \/ EditLoot(r) PROVE Frozen
    BY <1>1, <2>0, <2>3, RosterEdits, LootEdits, KeptByOthers DEF DraftEdit, book
  <2>4. ASSUME NEW r \in Requests, Settle(r) PROVE Frozen
    BY <1>1, <2>4, SettleFrozen
  <2>5. ASSUME NEW r \in Requests, Fail(r) PROVE Frozen
    BY <1>1, <2>0, <2>5, KeptByOthers DEF Fail, book
  <2> QED
    BY <1>1, <2>1, <2>2, <2>3, <2>4, <2>5 DEF Next
<1>2. IInv /\ [Next]_vars =>
        [HasPayments =>
           \/ status' = "deleted" /\ NobodyPaid
           \/ /\ status' = "finalized"
              /\ UNCHANGED <<pct, pool, item>>
              /\ \A p \in People : WithPaid(part'[p], part[p].paid) = part[p]]_vars
  BY <1>1 DEF Kept
<1> QED
  BY <1>2, Invariance, PTL DEF Spec, FrozenOncePaid

-----------------------------------------------------------------------------
(* The amounts on the roster.                                               *)

\* AmountsAreTheSplit of a percentage, pools and a roster.
IsSplit(x, pl, pt) ==
  \A p \in People : pt[p].state = "on" =>
    pt[p].amount = ComputeSplit(x, LootOf(pl), pt)[p]

LEMMA RecalculatedIsSplit ==
  ASSUME NEW x, NEW pl, NEW pt \in [People -> Row]
  PROVE  IsSplit(x, pl, Recalculated(x, pl, pt))
<1> DEFINE new == Recalculated(x, pl, pt)
<1>1. ASSUME NEW p \in People
      PROVE  /\ new[p].state = pt[p].state /\ new[p].excluded = pt[p].excluded
             /\ new[p].shares = pt[p].shares
             /\ pt[p].state = "on" =>
                  new[p].amount = ComputeSplit(x, LootOf(pl), pt)[p]
  <2>1. CASE pt[p].state # "on"
    BY <2>1, RecalculateWritesAmounts
  <2>2. CASE pt[p].state = "on"
    <3>1. new[p] = WithAmount(pt[p], ComputeSplit(x, LootOf(pl), pt)[p])
      BY <2>2, RecalculateWritesAmounts
    <3> QED
      BY <2>2, <3>1, WithAmountRow
  <2> QED
    BY <2>1, <2>2
<1> HIDE DEF new
<1>2. ComputeSplit(x, LootOf(pl), new) = ComputeSplit(x, LootOf(pl), pt)
  BY <1>1, SplitDependsOn
<1> QED
  BY <1>1, <1>2 DEF IsSplit, new

LEMMA PaidIsSplit ==
  ASSUME NEW x, NEW pl, NEW pt \in [People -> Row], NEW p \in People,
         NEW v \in Money \union {Unpaid}, IsSplit(x, pl, pt)
  PROVE  IsSplit(x, pl, [pt EXCEPT ![p] = WithPaid(@, v)])
<1> DEFINE new == [pt EXCEPT ![p] = WithPaid(@, v)]
<1>1. \A q \in People : new[q] = pt[q] \/ new[q] = WithPaid(pt[q], v)
  OBVIOUS
<1>2. \A q \in People :
        /\ new[q].state = pt[q].state /\ new[q].excluded = pt[q].excluded
        /\ new[q].shares = pt[q].shares /\ new[q].amount = pt[q].amount
  BY <1>1, WithPaidRow
<1> HIDE DEF new
<1>3. ComputeSplit(x, LootOf(pl), new) = ComputeSplit(x, LootOf(pl), pt)
  BY <1>2, SplitDependsOn
<1> QED
  BY <1>2, <1>3 DEF IsSplit, new

(* What a payment event does to the rows.                                   *)
LEMMA PaymentWrites ==
  ASSUME IInv, NEW r \in Requests, NEW p \in People, NEW now \in 0..MaxClock,
         RecordPayment(r, p, now) \/ RevertPayment(r, p, now)
  PROVE  /\ Exists
         /\ UNCHANGED <<status, creator, pct, pool, item, operators, admins>>
         /\ \/ UNCHANGED <<part, log>>
            \/ \E v \in Money \union {Unpaid}, kind \in {"paid", "reverted"} :
                 /\ part' = [part EXCEPT ![p] = WithPaid(@, v)]
                 /\ Logged(p, kind, part[p].amount, now)
<1>1. part[p].amount \in Money
  BY DEF IInv, TypeOK, Row
<1>2. AlreadyPaid(p) => part[p].paid = part[p].amount
  BY DEF IInv, LogTellsPaid, AlreadyPaid
<1> QED
  BY <1>1, <1>2 DEF RecordPayment, RevertPayment, Exists

LEMMA SplitStep ==
  ASSUME IInv, AmountsAreTheSplit, [Next]_vars
  PROVE  AmountsAreTheSplit'
<1>0. part \in [People -> Row] /\ (Exists => IsSplit(pct, pool, part))
  BY DEF IInv, TypeOK, AmountsAreTheSplit, IsSplit, OnRoster
<1>1. ASSUME IsSplit(pct', pool', part') PROVE AmountsAreTheSplit'
  BY <1>1 DEF AmountsAreTheSplit, IsSplit, OnRoster
<1>2. ASSUME UNCHANGED <<pct, pool, part>>, Exists' => Exists PROVE AmountsAreTheSplit'
  BY <1>2 DEF AmountsAreTheSplit, OnRoster
<1>3. ASSUME DraftEdit PROVE AmountsAreTheSplit'
  <2>0. PICK x \in Percents \union {0} : \E pl, it, pt : Draft(pt) /\ Edit(x, pl, it, pt)
    BY <1>3 DEF DraftEdit
  <2>1. PICK pl, it, pt : Draft(pt) /\ Edit(x, pl, it, pt)
    BY <2>0
  <2> QED
    BY <1>1, <2>1, RecalculatedIsSplit DEF Draft, Edit
<1>4. ASSUME NEW a \in Accounts, NEW x \in Percents, NEW L, NEW f,
             NEW H \in SUBSET Humans, Create(a, x, L, f, H)
      PROVE  AmountsAreTheSplit'
  <2>1. Draft(part)
    BY <1>4, NothingPaidYet DEF Create
  <2>2. PICK seats \in Seatings(H) : part' = Recalculated(x, pool', Seat(part, seats))
    BY <1>4 DEF Create
  <2>3. Seat(part, seats) \in [People -> Row]
    BY <2>1, SeatDraft DEF Draft
  <2>4. pct' = x
    BY <1>4 DEF Create
  <2> QED
    BY <1>1, <2>2, <2>3, <2>4, RecalculatedIsSplit
<1>5. ASSUME NEW r \in Requests, Settle(r) PROVE AmountsAreTheSplit'
  <2>1. CASE FinalizeOperation(r) \/ UnlockOperation(r)
    BY <1>2, <2>1 DEF FinalizeOperation, UnlockOperation, Locked, book
  <2>2. CASE DeleteOperation(r)
    BY <2>2 DEF DeleteOperation, AmountsAreTheSplit, Exists
  <2>3. ASSUME NEW p \in People, NEW now \in 0..MaxClock,
               RecordPayment(r, p, now) \/ RevertPayment(r, p, now)
        PROVE  AmountsAreTheSplit'
    <3>1. Exists /\ UNCHANGED <<pct, pool>>
      BY <2>3, PaymentWrites
    <3>2. CASE UNCHANGED part
      BY <1>2, <3>1, <3>2
    <3>3. ASSUME NEW v \in Money \union {Unpaid}, part' = [part EXCEPT ![p] = WithPaid(@, v)]
          PROVE  AmountsAreTheSplit'
      BY <1>0, <1>1, <3>1, <3>3, PaidIsSplit
    <3> QED
      BY <2>3, <3>2, <3>3, PaymentWrites
  <2> QED
    BY <1>5, <2>1, <2>2, <2>3 DEF Settle
<1>6. ASSUME NEW r \in Requests, EditRoster(r) \/ EditLoot(r) PROVE AmountsAreTheSplit'
  BY <1>2, <1>3, <1>6, RosterEdits, LootEdits DEF book, Exists
<1>7. CASE \/ \E r \in Requests, a \in Accounts, t \in Target : Open(r, a, t)
           \/ AccountsChange \/ \E r \in Requests : Fail(r)
           \/ UNCHANGED vars
  BY <1>2, <1>7 DEF Open, AccountsChange, Fail, vars, book, Exists
<1> QED
  BY <1>4, <1>5, <1>6, <1>7 DEF Next, Begin

-----------------------------------------------------------------------------
(* Rows and lines.                                                          *)

\* OneRowEach of a roster, and what the pools of a book owe to its lines.
NoTwins(pt) == \A p, q \in People :
  pt[p].state = "on" /\ pt[q].state = "on" /\ pt[p].who = pt[q].who => p = q
LinesMatch(pl, it) == \A i \in Items : it[i] # NoValue =>
  pl[PoolOf[i]] # NoValue /\ pl[PoolOf[i]] = PoolValue(it, PoolOf[i])
\* Before the operation there is nothing.
NothingYet == status = "none" =>
  (\A i \in Items : item[i] = NoValue) /\ (\A p \in People : part[p].state # "on")
\* Nobody is paid who draws no share.
PaidAreIncluded == \A p \in People : part[p].paid # Unpaid => p \in Included(part)
BookInv == NoTwins(part) /\ LinesMatch(pool, item) /\ NothingYet /\ PaidAreIncluded

(* recalculate moves nobody on or off the roster and renames nobody.        *)
LEMMA RecalculatedNoTwins ==
  ASSUME NEW x, NEW pl, NEW pt \in [People -> Row], NoTwins(pt)
  PROVE  NoTwins(Recalculated(x, pl, pt))
<1> DEFINE new == Recalculated(x, pl, pt)
<1>1. ASSUME NEW p \in People
      PROVE  new[p].state = pt[p].state /\ new[p].who = pt[p].who
  <2>1. CASE pt[p].state # "on"
    BY <2>1, RecalculateWritesAmounts
  <2>2. CASE pt[p].state = "on"
    <3>1. new[p] = WithAmount(pt[p], ComputeSplit(x, LootOf(pl), pt)[p])
      BY <2>2, RecalculateWritesAmounts
    <3> QED
      BY <2>2, <3>1, WithAmountRow
  <2> QED
    BY <2>1, <2>2
<1> HIDE DEF new
<1> QED
  BY <1>1 DEF NoTwins, new

(* New rows for humans that are not listed yet double nobody.               *)
LEMMA SeatNoTwins ==
  ASSUME NEW pt, NoTwins(pt), NEW H, NEW f \in Seatings(H),
         \A p \in People : pt[p].state = "on" => pt[p].who \notin H
  PROVE  NoTwins(Seat(pt, f))
<1>1. PICK S \in SUBSET Free : f \in [S -> H] /\ \A a, b \in S : f[a] = f[b] => a = b
  BY DEF Seatings, Bijection, Injection, IsInjective
<1>2. ASSUME NEW p \in People
      PROVE  /\ p \in S => Seat(pt, f)[p].who = f[p] /\ f[p] \in H
             /\ p \notin S => Seat(pt, f)[p] = pt[p]
  BY <1>1 DEF Seat, Fresh
<1> HIDE DEF Seat
<1> QED
  BY <1>1, <1>2 DEF NoTwins

(* A pool's value depends on its own lines only, and is a number.           *)
LEMMA PoolValueOf ==
  ASSUME NEW a \in [Items -> Money \union {NoValue}],
         NEW b \in [Items -> Money \union {NoValue}], NEW l,
         \A i \in Items : PoolOf[i] = l => a[i] = b[i]
  PROVE  PoolValue(a, l) = PoolValue(b, l) /\ PoolValue(a, l) \in Nat
<1> DEFINE S == {i \in Items : PoolOf[i] = l}
           f == [i \in Items |-> Value(a[i])]
           g == [i \in Items |-> Value(b[i])]
<1>1. IsFiniteSet(S)
  BY FS_Subset, PayoutsAssumption
<1>2. \A i \in S : f[i] \in Nat /\ f[i] = g[i]
  BY DEF Value, Money
<1>3. PoolValue(a, l) = SumFunctionOnSet(f, S) /\ PoolValue(b, l) = SumFunctionOnSet(g, S)
  BY DEF PoolValue
<1> HIDE DEF S, f, g
<1> QED
  BY <1>1, <1>2, <1>3, SumsAgree, SumIsNat

(* An edit that recalculates rows in which nobody is twice, and pools that  *)
(* match their lines.                                                       *)
LEMMA EditKeepsBook ==
  ASSUME IInv, IInv', Editable, NEW x, NEW pl, NEW it, NEW pt \in [People -> Row],
         NoTwins(pt), LinesMatch(pl, it), Edit(x, pl, it, pt)
  PROVE  BookInv'
<1>1. NoTwins(part)' /\ LinesMatch(pool, item)'
  BY RecalculatedNoTwins DEF Edit, NoTwins, LinesMatch, PoolValue
<1>2. status' # "none" /\ status' # "finalized"
  BY DEF Edit, Editable
<1>3. \A p \in People : part'[p].paid = Unpaid
  BY <1>2 DEF IInv, Settled, HasPayments, LogTellsPaid
<1> QED
  BY <1>1, <1>2, <1>3 DEF BookInv, NothingYet, PaidAreIncluded

(* A step that leaves rows and loot alone.                                  *)
LEMMA SameBookKeepsIt ==
  ASSUME BookInv, UNCHANGED <<pool, item, part>>, status' = "none" => status = "none"
  PROVE  BookInv'
BY DEF BookInv, NoTwins, LinesMatch, PoolValue, NothingYet, PaidAreIncluded, Included

(* The edits of the roster.                                                 *)
LEMMA RosterKeepsBook ==
  ASSUME IInv, IInv', BookInv, NEW r \in Requests, EditRoster(r)
  PROVE  BookInv'
<1>0. /\ part \in [People -> Row] /\ NoTwins(part) /\ LinesMatch(pool, item)
      /\ Editable => Draft(part)
  BY NothingPaidYet DEF IInv, TypeOK, BookInv, Editable
<1>a. ASSUME Editable, NEW pt, Draft(pt), NoTwins(pt), Edit(pct, pool, item, pt)
      PROVE  BookInv'
  <2>1. pt \in [People -> Row]
    BY <1>a DEF Draft
  <2> QED
    BY <1>0, <1>a, <2>1, EditKeepsBook
<1>b. ASSUME NEW p \in People, NEW new, new.state = "on" => new.who = part[p].who
      PROVE  NoTwins(Touched(p, new))
  BY <1>0, <1>b DEF NoTwins, Touched, OnRoster
<1>1. ASSUME NEW H \in SUBSET Humans, SetRoster(r, H)
      PROVE  BookInv'
  <2>1. PICK f \in Seatings(H) : Edit(pct, pool, item, Seat(Cleared(part), f))
    BY <1>1 DEF SetRoster
  <2>2. Editable
    BY <1>1 DEF SetRoster
  <2>3. \A p \in People : Cleared(part)[p].state # "on"
    BY DEF Cleared, Gone, Fresh
  <2>4. NoTwins(Seat(Cleared(part), f))
    <3>1. NoTwins(Cleared(part))
      BY <2>3 DEF NoTwins
    <3> QED
      BY <2>3, <3>1, SeatNoTwins
  <2>5. Draft(Seat(Cleared(part), f))
    BY <1>0, <2>2, SeatDraft, ClearedDraft
  <2> QED
    BY <1>a, <2>1, <2>2, <2>4, <2>5
<1>2. ASSUME NEW h \in Humans, AddParticipant(r, h)
      PROVE  BookInv'
  <2>1. Editable
    BY <1>2 DEF AddParticipant
  <2>2. CASE Edit(pct, pool, item, part)
    BY <1>0, <1>a, <2>1, <2>2
  <2>3. ASSUME ~Twin(h), NEW f \in Seatings({h}), Edit(pct, pool, item, Seat(part, f))
        PROVE  BookInv'
    <3>1. \A p \in People : part[p].state = "on" => part[p].who \notin {h}
      BY <2>3 DEF Twin, OnRoster
    <3>2. NoTwins(Seat(part, f))
      BY <1>0, <3>1, SeatNoTwins
    <3>3. Draft(Seat(part, f))
      BY <1>0, <2>1, SeatDraft, {h} \in SUBSET Humans
    <3> QED
      BY <1>a, <2>1, <2>3, <3>2, <3>3
  <2> QED
    BY <1>2, <2>2, <2>3 DEF AddParticipant
<1>3. ASSUME NEW p \in People, NEW new \in Row, Editable,
             new.paid = Unpaid, new.state # "on" => new.amount = 0,
             new.state = "on" => new.who = part[p].who,
             Edit(pct, pool, item, Touched(p, new))
      PROVE  BookInv'
  <2>1. Draft(Touched(p, new))
    BY <1>0, <1>3, TouchedDraft
  <2>2. NoTwins(Touched(p, new))
    BY <1>3, <1>b
  <2> QED
    BY <1>3, <1>a, <2>1, <2>2
<1>4. ASSUME NEW p \in People, NEW n \in ShareCounts, SetParticipantShares(r, p, n)
      PROVE  BookInv'
  <2>1. Editable /\ Edit(pct, pool, item, Touched(p, WithShares(part[p], n)))
    BY <1>4 DEF SetParticipantShares
  <2>2. /\ part[p] \in Row /\ part[p].paid = Unpaid
        /\ part[p].state # "on" => part[p].amount = 0
    BY <1>0, <2>1 DEF Draft
  <2>3. /\ WithShares(part[p], n) \in Row
        /\ WithShares(part[p], n).paid = Unpaid
        /\ WithShares(part[p], n).state # "on" => WithShares(part[p], n).amount = 0
    BY <2>2, WithSharesRow
  <2>4. WithShares(part[p], n).who = part[p].who
    BY <2>2 DEF WithShares, Row
  <2> QED
    BY <1>3, <2>1, <2>3, <2>4
<1>5. ASSUME NEW p \in People, NEW b \in BOOLEAN, SetParticipantExcluded(r, p, b)
      PROVE  BookInv'
  <2>1. Editable /\ Edit(pct, pool, item, Touched(p, WithExcluded(part[p], b)))
    BY <1>5 DEF SetParticipantExcluded
  <2>2. /\ part[p] \in Row /\ part[p].paid = Unpaid
        /\ part[p].state # "on" => part[p].amount = 0
    BY <1>0, <2>1 DEF Draft
  <2>3. /\ WithExcluded(part[p], b) \in Row
        /\ WithExcluded(part[p], b).paid = Unpaid
        /\ WithExcluded(part[p], b).state # "on" => WithExcluded(part[p], b).amount = 0
    BY <2>2, WithExcludedRow
  <2>4. WithExcluded(part[p], b).who = part[p].who
    BY <2>2 DEF WithExcluded, Row
  <2> QED
    BY <1>3, <2>1, <2>3, <2>4
<1>6. ASSUME NEW p \in People, RemoveParticipant(r, p)
      PROVE  BookInv'
  <2>1. Editable /\ Edit(pct, pool, item, Touched(p, Gone))
    BY <1>6 DEF RemoveParticipant
  <2>2. Gone \in Row /\ Gone.paid = Unpaid /\ Gone.amount = 0 /\ Gone.state # "on"
    BY FreshType DEF Gone, Fresh
  <2> QED
    BY <1>3, <2>1, <2>2
<1> QED
  BY <1>1, <1>2, <1>4, <1>5, <1>6 DEF EditRoster

(* What an edit does not touch still matches.                               *)
LEMMA OtherPoolsMatch ==
  ASSUME LinesMatch(pool, item), item \in [Items -> Money \union {NoValue}],
         NEW it \in [Items -> Money \union {NoValue}], NEW pl, NEW m,
         \A i \in Items : PoolOf[i] = m => it[i] = item[i],
         pl[m] = pool[m]
  PROVE  \A i \in Items : PoolOf[i] = m /\ it[i] # NoValue =>
           pl[m] # NoValue /\ pl[m] = PoolValue(it, m)
<1>1. PoolValue(item, m) = PoolValue(it, m)
  BY PoolValueOf
<1> QED
  BY <1>1 DEF LinesMatch

(* The edits of the loot.                                                   *)
LEMMA LootKeepsBook ==
  ASSUME IInv, IInv', BookInv, NEW r \in Requests, EditLoot(r)
  PROVE  BookInv'
<1>0. /\ part \in [People -> Row] /\ NoTwins(part) /\ LinesMatch(pool, item)
      /\ item \in [Items -> Money \union {NoValue}]
      /\ pool \in [Pools -> Money \union {NoValue}]
  BY DEF IInv, TypeOK, BookInv
<1>a. ASSUME NEW x, NEW pl, NEW it, Edit(x, pl, it, part)
      PROVE  (it = [i \in Items |-> it[i]]) => it \in [Items -> Money \union {NoValue}]
  BY <1>a DEF Edit, ColumnsFit
<1>1. ASSUME NEW x \in Percents, SetCorpSharePct(r, x)
      PROVE  BookInv'
  <2>1. Editable /\ Edit(x, pool, item, part)
    BY <1>1 DEF SetCorpSharePct
  <2> QED
    BY <1>0, <2>1, EditKeepsBook
<1>2. ASSUME NEW l \in Pools, NEW v \in Totals, AddFlatPool(r, l, v)
      PROVE  BookInv'
  <2> DEFINE pl == [pool EXCEPT ![l] = v]
  <2>1. Editable /\ Edit(pct, pl, item, part) /\ pool[l] = NoValue
    BY <1>2 DEF AddFlatPool
  <2>2. \A m : m # l => pl[m] = pool[m]
    BY <1>0
  <2> HIDE DEF pl
  <2>3. LinesMatch(pl, item)
    BY <1>0, <2>1, <2>2 DEF LinesMatch
  <2> QED
    BY <1>0, <2>1, <2>3, EditKeepsBook
<1>3. ASSUME NEW l \in Pools, NEW f \in Lines, AddAppraisedPool(r, l, f)
      PROVE  BookInv'
  <2> DEFINE it == WithItems(f)
             pl == [pool EXCEPT ![l] = PoolValue(it, l)]
  <2>1. /\ Editable /\ Edit(pct, pl, it, part) /\ pool[l] = NoValue
        /\ \A i \in DOMAIN f : PoolOf[i] = l
    BY <1>3 DEF AddAppraisedPool
  <2>2. it \in [Items -> Money \union {NoValue}]
    BY <1>a, <2>1, ItemsWithType
  <2>3. \A i \in Items : PoolOf[i] # l => it[i] = item[i]
    BY <2>1 DEF WithItems
  <2>4. pl[l] = PoolValue(it, l) /\ \A m : m # l => pl[m] = pool[m]
    BY <1>0
  <2> HIDE DEF it, pl
  <2>5. PoolValue(it, l) # NoValue
    BY <2>2, PoolValueOf, PayoutsAssumption
  <2>6. ASSUME NEW i \in Items, it[i] # NoValue
        PROVE  pl[PoolOf[i]] # NoValue /\ pl[PoolOf[i]] = PoolValue(it, PoolOf[i])
    <3>1. CASE PoolOf[i] = l
      BY <2>4, <2>5, <3>1
    <3>2. CASE PoolOf[i] # l
      <4>1. \A j \in Items : PoolOf[j] = PoolOf[i] => it[j] = item[j]
        BY <2>3, <3>2
      <4>2. pl[PoolOf[i]] = pool[PoolOf[i]]
        BY <2>4, <3>2
      <4> QED
        BY <1>0, <2>2, <2>6, <4>1, <4>2, OtherPoolsMatch
    <3> QED
      BY <3>1, <3>2
  <2>7. LinesMatch(pl, it)
    BY <2>6 DEF LinesMatch
  <2> QED
    BY <1>0, <2>1, <2>7, EditKeepsBook
<1>4. ASSUME NEW z \in Items, NEW v \in Prices, SetItemPrice(r, z, v)
      PROVE  BookInv'
  <2> DEFINE it == [item EXCEPT ![z] = Qty[z] * v]
             pl == Repriced(z, it)
  <2>1. Editable /\ Edit(pct, pl, it, part) /\ item[z] # NoValue
    BY <1>4 DEF SetItemPrice
  <2>2. it \in [Items -> Money \union {NoValue}]
    <3>1. it = [i \in Items |-> it[i]]
      BY <1>0
    <3> QED
      BY <1>a, <2>1, <3>1
  <2>3. \A i \in Items : PoolOf[i] # PoolOf[z] => it[i] = item[i]
    BY <1>0
  <2>4. pl[PoolOf[z]] = PoolValue(it, PoolOf[z]) /\ \A m : m # PoolOf[z] => pl[m] = pool[m]
    BY <1>0, PayoutsAssumption DEF Repriced
  <2> HIDE DEF it, pl
  <2>5. PoolValue(it, PoolOf[z]) # NoValue
    BY <2>2, PoolValueOf, PayoutsAssumption
  <2>6. ASSUME NEW i \in Items, it[i] # NoValue
        PROVE  pl[PoolOf[i]] # NoValue /\ pl[PoolOf[i]] = PoolValue(it, PoolOf[i])
    <3>1. CASE PoolOf[i] = PoolOf[z]
      BY <2>4, <2>5, <3>1
    <3>2. CASE PoolOf[i] # PoolOf[z]
      <4>1. \A j \in Items : PoolOf[j] = PoolOf[i] => it[j] = item[j]
        BY <2>3, <3>2
      <4>2. pl[PoolOf[i]] = pool[PoolOf[i]]
        BY <2>4, <3>2
      <4> QED
        BY <1>0, <2>2, <2>6, <4>1, <4>2, OtherPoolsMatch
    <3> QED
      BY <3>1, <3>2
  <2>7. LinesMatch(pl, it)
    BY <2>6 DEF LinesMatch
  <2> QED
    BY <1>0, <2>1, <2>7, EditKeepsBook
<1>5. ASSUME NEW l \in Pools, DeletePool(r, l)
      PROVE  BookInv'
  <2>1. CASE pool[l] = NoValue
    BY <1>5, <2>1, SameBookKeepsIt DEF DeletePool, book
  <2>2. CASE pool[l] # NoValue
    <3> DEFINE it == [i \in Items |-> IF PoolOf[i] = l THEN NoValue ELSE item[i]]
               pl == [pool EXCEPT ![l] = NoValue]
    <3>1. Editable /\ Edit(pct, pl, it, part)
      BY <1>5, <2>2 DEF DeletePool
    <3>2. it \in [Items -> Money \union {NoValue}]
      BY <1>0
    <3>3. /\ \A i \in Items : PoolOf[i] # l => it[i] = item[i]
          /\ \A i \in Items : it[i] # NoValue => PoolOf[i] # l
          /\ \A m : m # l => pl[m] = pool[m]
      BY <1>0
    <3> HIDE DEF it, pl
    <3>4. ASSUME NEW i \in Items, it[i] # NoValue
          PROVE  pl[PoolOf[i]] # NoValue /\ pl[PoolOf[i]] = PoolValue(it, PoolOf[i])
      <4>1. \A j \in Items : PoolOf[j] = PoolOf[i] => it[j] = item[j]
        BY <3>3, <3>4
      <4>2. pl[PoolOf[i]] = pool[PoolOf[i]]
        BY <3>3, <3>4
      <4> QED
        BY <1>0, <3>2, <3>4, <4>1, <4>2, OtherPoolsMatch
    <3>5. LinesMatch(pl, it)
      BY <3>4 DEF LinesMatch
    <3> QED
      BY <1>0, <3>1, <3>5, EditKeepsBook
  <2> QED
    BY <2>1, <2>2
<1> QED
  BY <1>1, <1>2, <1>3, <1>4, <1>5 DEF EditLoot

(* An operation begins with one row for each human and pools of its lines.  *)
LEMMA CreateKeepsBook ==
  ASSUME IInv, IInv', BookInv, NEW a \in Accounts, NEW x \in Percents,
         NEW L \in SUBSET Pools, NEW f, NEW H \in SUBSET Humans, Create(a, x, L, f, H)
  PROVE  BookInv'
<1>0. /\ status = "none" /\ status' = "draft" /\ Draft(part)
      /\ \A i \in Items : item[i] = NoValue
      /\ \A p \in People : part[p].state # "on"
  BY NothingPaidYet DEF Create, BookInv, NothingYet
<1>1. PICK seats \in Seatings(H) : part' = Recalculated(x, pool', Seat(part, seats))
  BY DEF Create
<1>2. NoTwins(part)'
  <2>1. Draft(Seat(part, seats)) /\ NoTwins(part)
    BY <1>0, SeatDraft DEF NoTwins
  <2>2. NoTwins(Seat(part, seats))
    BY <1>0, <2>1, SeatNoTwins
  <2>3. NoTwins(Recalculated(x, pool', Seat(part, seats)))
    BY <2>1, <2>2, RecalculatedNoTwins DEF Draft
  <2> QED
    BY <1>1, <2>3 DEF NoTwins
<1>3. LinesMatch(pool, item)'
  <2> DEFINE g == [i \in {i \in DOMAIN f : PoolOf[i] \in L} |-> f[i]]
  <2>1. item' = WithItems(g) /\ pool' = [l \in Pools |-> IF l \in L THEN PoolValue(item', l) ELSE NoValue]
    BY DEF Create
  <2>2. item' \in [Items -> Money \union {NoValue}]
    BY DEF IInv, TypeOK
  <2>3. ASSUME NEW i \in Items, item'[i] # NoValue PROVE PoolOf[i] \in L
    <3>1. i \in DOMAIN g
      <4> HIDE DEF g
      <4> QED
        BY <1>0, <2>1, <2>3 DEF WithItems
    <3> QED
      BY <3>1
  <2>4. \A l : PoolValue(item', l) # NoValue
    BY <2>2, PoolValueOf, PayoutsAssumption
  <2>5. ASSUME NEW i \in Items, item'[i] # NoValue
        PROVE  pool'[PoolOf[i]] # NoValue /\ pool'[PoolOf[i]] = PoolValue(item', PoolOf[i])
    BY <2>1, <2>3, <2>4, <2>5
  <2> QED
    BY <2>5 DEF LinesMatch, PoolValue
<1>4. \A p \in People : part'[p].paid = Unpaid
  BY <1>0 DEF IInv, Settled, HasPayments, LogTellsPaid
<1> QED
  BY <1>0, <1>2, <1>3, <1>4 DEF BookInv, NothingYet, PaidAreIncluded

(* Finalizing, unlocking, deleting and the payments.                        *)
LEMMA SettleKeepsBook ==
  ASSUME IInv, IInv', BookInv, NEW r \in Requests, Settle(r)
  PROVE  BookInv'
<1>1. CASE FinalizeOperation(r) \/ UnlockOperation(r)
  BY <1>1, SameBookKeepsIt DEF FinalizeOperation, UnlockOperation, book
<1>2. CASE DeleteOperation(r)
  <2>1. /\ status' = "deleted" /\ item' = [i \in Items |-> NoValue]
        /\ part' = Cleared(part) /\ NobodyPaid
    BY <1>2 DEF DeleteOperation
  <2>2. \A p \in People : part'[p].state # "on" /\ part'[p].paid = Unpaid
    BY <2>1 DEF Cleared, Gone, Fresh, NobodyPaid
  <2> QED
    BY <2>1, <2>2 DEF BookInv, NoTwins, LinesMatch, NothingYet, PaidAreIncluded
<1>3. ASSUME NEW p \in People, NEW now \in 0..MaxClock,
             RecordPayment(r, p, now) \/ RevertPayment(r, p, now)
      PROVE  BookInv'
  <2>1. UNCHANGED <<status, pool, item>>
    BY <1>3 DEF RecordPayment, RevertPayment
  <2>2. CASE UNCHANGED part
    BY <2>1, <2>2, SameBookKeepsIt
  <2>3. ASSUME NEW v \in Money \union {Unpaid}, part' = [part EXCEPT ![p] = WithPaid(@, v)],
               v # Unpaid => OnRoster(p) /\ ~part[p].excluded
        PROVE  BookInv'
    <3>1. part \in [People -> Row]
      BY DEF IInv, TypeOK
    <3>2. \A q \in People : part'[q] = part[q] \/ part'[q] = WithPaid(part[q], v)
      BY <2>3, <3>1
    <3>3. \A q \in People :
            /\ part'[q].state = part[q].state /\ part'[q].who = part[q].who
            /\ part'[q].excluded = part[q].excluded
      BY <3>1, <3>2, WithPaidRow
    <3>4. NoTwins(part)'
      BY <3>3 DEF NoTwins, BookInv
    <3>5. LinesMatch(pool, item)' /\ NothingYet'
      BY <2>1, <3>3 DEF LinesMatch, PoolValue, NothingYet, BookInv
    <3>6. \A q \in People : q # p => part'[q].paid = part[q].paid
      BY <2>3, <3>1
    <3>7. part'[p].paid = v
      BY <2>3, <3>1, WithPaidRow
    <3>8. PaidAreIncluded'
      BY <2>3, <3>3, <3>6, <3>7 DEF PaidAreIncluded, Included, BookInv, OnRoster
    <3> QED
      BY <3>4, <3>5, <3>8 DEF BookInv
  <2>4. CASE RecordPayment(r, p, now)
    <3>1. part[p].amount \in Money /\ OnRoster(p) /\ ~part[p].excluded
      BY <2>4 DEF IInv, TypeOK, Row, RecordPayment
    <3>2. \/ UNCHANGED part
          \/ part' = [part EXCEPT ![p] = WithPaid(@, part[p].amount)]
      BY <2>4 DEF RecordPayment
    <3> QED
      BY <2>2, <2>3, <3>1, <3>2
  <2>5. CASE RevertPayment(r, p, now)
    <3>1. part' = [part EXCEPT ![p] = WithPaid(@, Unpaid)]
      BY <2>5 DEF RevertPayment
    <3> QED
      BY <2>3, <3>1
  <2> QED
    BY <1>3, <2>4, <2>5
<1> QED
  BY <1>1, <1>2, <1>3 DEF Settle

(* Every step.                                                              *)
LEMMA BookStep == ASSUME IInv, IInv', BookInv, [Next]_vars PROVE BookInv'
<1>1. CASE \/ \E r \in Requests, a \in Accounts, t \in Target : Open(r, a, t)
           \/ AccountsChange \/ \E r \in Requests : Fail(r)
           \/ UNCHANGED vars
  BY <1>1, SameBookKeepsIt DEF Open, AccountsChange, Fail, vars, book
<1>2. ASSUME NEW a \in Accounts, NEW x \in Percents, NEW H \in SUBSET Humans,
             NEW L \in {{}} \union {{l} : l \in Pools}, NEW f \in Lines, Create(a, x, L, f, H)
      PROVE  BookInv'
  BY <1>2, CreateKeepsBook
<1> QED
  BY <1>1, <1>2, RosterKeepsBook, LootKeepsBook, SettleKeepsBook DEF Next, Begin

(* Rows, lines and payments stay in order.                                  *)
LEMMA BookAlways == Spec => []BookInv
<1>1. Init => BookInv
  BY DEF Init, BookInv, NoTwins, LinesMatch, NothingYet, PaidAreIncluded, Fresh
<1> QED
  BY <1>1, BookStep, Invariance, PTL DEF Spec

(* Through any path and any number of requests in flight, an operation adds *)
(* up: nobody draws two shares, a pool with lines is worth their sum, and   *)
(* what the roster shows is the split of the loot, shares and percentage as *)
(* they are.                                                                *)
THEOREM TheBookAddsUp == Spec => []BookAddsUp
<1>1. Init => AmountsAreTheSplit
  BY DEF Init, AmountsAreTheSplit, Exists
<1>2. Spec => []AmountsAreTheSplit
  BY <1>1, SplitStep, Invariance, PTL DEF Spec
<1>3. BookInv => OneRowEach /\ PoolsMatchLines
  BY DEF BookInv, NoTwins, LinesMatch, OneRowEach, OnRoster, PoolsMatchLines
<1> QED
  BY <1>2, <1>3, BookAlways, PTL DEF BookAddsUp

(* What a division drops is never given out (core/payout-split.ts).         *)
LEMMA Quotient ==
  ASSUME NEW n \in Nat, NEW d \in Nat \ {0}
  PROVE  n \div d \in Nat /\ d * (n \div d) <= n
OBVIOUS

(* A percentage of the loot leaves something that is not negative.          *)
LEMMA PartOf ==
  ASSUME NEW d \in Nat \ {0}, NEW x \in Nat, x <= d, NEW n \in Nat
  PROVE  n - ((n * x) \div d) \in Nat
<1>1. n * x \in Nat /\ n * x <= d * n
  <2>1. PICK y \in Nat : d = x + y
    <3>1. d - x \in Nat /\ d = x + (d - x)
      OBVIOUS
    <3> QED
      BY <3>1
  <2>2. n * (x + y) = n * x + n * y /\ n * x \in Nat
    BY <2>1, Distribute
  <2>3. n * y \in Nat
    BY <2>1, Distribute
  <2>4. d * n = n * x + n * y
    BY <2>1, <2>2
  <2> QED
    BY <2>2, <2>3, <2>4
<1> DEFINE m == n * x
           q == m \div d
<1>2. q \in Nat /\ d * q <= m
  BY <1>1, Quotient
<1>3. m \in Nat /\ m <= d * n
  BY <1>1
<1> HIDE DEF m, q
<1>4. d * q <= d * n
  BY <1>2, <1>3
<1>5. q <= n
  BY <1>2, <1>4
<1> QED
  BY <1>2, <1>5 DEF m, q

(* However shares, exclusions, prices and the percentage came about, what   *)
(* is paid out at any time is within the roster's part of the loot.         *)
THEOREM WithinTheLoot == Spec => []NeverOverspent
<1>1. ASSUME IInv, BookInv, AmountsAreTheSplit PROVE NeverOverspent
  <2> DEFINE Paying == {p \in People : part[p].paid # Unpaid}
             paid == [p \in People |-> Value(part[p].paid)]
             shares == [p \in People |-> part[p].shares]
             loot == LootOf(pool)
             k == PerShare(pct, loot, part)
             In == Included(part)
             N == SharesOf(part)
  <2>1. part \in [People -> Row] /\ pct \in Nat /\ pct <= 10000
    BY <1>1, PayoutsAssumption, SMT DEF IInv, TypeOK
  <2>2. loot \in Nat
    <3> DEFINE f == [l \in Pools |-> Value(pool[l])]
    <3>1. \A l \in Pools : f[l] \in Nat
      BY <1>1, PayoutsAssumption DEF IInv, TypeOK, Value, Money
    <3>2. loot = SumFunctionOnSet(f, Pools)
      BY DEF LootOf, SumFunction
    <3> HIDE DEF f
    <3> QED
      BY <3>1, <3>2, SumIsNat, PayoutsAssumption
  <2> HIDE DEF loot
  <2>3. Shared(pct, loot) \in Nat
    BY <2>1, <2>2, PartOf DEF Shared, CorpBase
  <2>4. IsFiniteSet(People) /\ IsFiniteSet(In) /\ Paying \subseteq In /\ In \subseteq People
    <3>1. In \subseteq People /\ Paying \subseteq In
      BY <1>1 DEF Included, BookInv, PaidAreIncluded
    <3> QED
      BY <3>1, FS_Subset, PayoutsAssumption
  <2>5. \A p \in People : shares[p] \in Nat /\ shares[p] # 0
    <3>1. \A n \in ShareCounts : n \in Nat /\ n # 0
      BY PayoutsAssumption
    <3>2. \A p \in People : shares[p] \in ShareCounts
      BY <2>1 DEF Row
    <3> QED
      BY <3>1, <3>2
  <2>6. N \in Nat
    <3> HIDE DEF In, shares
    <3>1. N = SumFunctionOnSet(shares, In)
      BY DEF SharesOf, In, shares
    <3> QED
      BY <2>4, <2>5, <3>1, SumIsNat
  <2>7. k \in Nat /\ k * N <= 100 * Shared(pct, loot)
    <3>1. CASE N = 0
      BY <2>3, <3>1 DEF PerShare
    <3>2. CASE N # 0
      <4>1. Shared(pct, loot) * 100 \in Nat
        BY <2>3
      <4>2. k = (Shared(pct, loot) * 100) \div N
        BY <3>2 DEF PerShare
      <4> DEFINE m == Shared(pct, loot) * 100
      <4>3. m = 100 * Shared(pct, loot) /\ m \in Nat /\ k = m \div N
        BY <2>3, <4>1, <4>2
      <4> HIDE DEF m, k, N
      <4>4. k \in Nat /\ N * k <= m
        BY <2>6, <3>2, <4>3, Quotient
      <4> QED
        BY <2>6, <4>3, <4>4
    <3> QED
      BY <3>1, <3>2
  <2>8. ASSUME NEW p \in Paying
        PROVE  paid[p] \in Nat /\ 100 * paid[p] <= k * shares[p]
    <3>1. p \in In /\ p \in People /\ shares[p] \in Nat
      BY <2>4, <2>5
    <3>2. part[p].paid = part[p].amount /\ Exists
      <4>1. HasPayments
        BY <1>1, <3>1 DEF IInv, LogTellsPaid, HasPayments
      <4> QED
        BY <1>1, <3>1, <4>1 DEF IInv, LogTellsPaid, Settled, Exists
    <3>3. part[p].amount = (k * shares[p]) \div 100
      BY <1>1, <3>1, <3>2 DEF AmountsAreTheSplit, ComputeSplit, loot, OnRoster, Included
    <3>4. k * shares[p] \in Nat
      BY <2>7, <3>1
    <3>5. part[p].amount \in Nat /\ 100 * part[p].amount <= k * shares[p]
      <4> DEFINE m == k * shares[p]
      <4>1. m \in Nat /\ part[p].amount = m \div 100
        BY <3>3, <3>4
      <4> HIDE DEF m
      <4>2. part[p].amount \in Nat /\ 100 * part[p].amount <= m
        BY <4>1, Quotient
      <4> QED
        BY <4>2 DEF m
    <3>6. paid[p] = part[p].amount
      BY <3>1, <3>2, <3>5, PayoutsAssumption DEF Value
    <3> QED
      BY <3>5, <3>6
  <2>9. 100 * PaidOut <= k * N /\ PaidOut \in Nat
    <3>1. PaidOut = SumFunctionOnSet(paid, Paying) /\ N = SumFunctionOnSet(shares, In)
      BY DEF PaidOut, SharesOf
    <3>2. \A p \in In : shares[p] \in Nat
      BY <2>4, <2>5
    <3> HIDE DEF paid, Paying, shares, In, k, N
    <3>3. 100 * SumFunctionOnSet(paid, Paying) <= k * SumFunctionOnSet(shares, In)
      BY <2>4, <2>7, <2>8, <3>2, SumsCompare
    <3>4. IsFiniteSet(Paying)
      BY <2>4, FS_Subset
    <3>5. SumFunctionOnSet(paid, Paying) \in Nat
      BY <2>8, <3>4, SumIsNat
    <3> QED
      BY <3>1, <3>3, <3>5
  <2>10. k * N \in Nat
    BY <2>6, <2>7
  <2> DEFINE kn == k * N
             sh == Shared(pct, loot)
  <2>11. 100 * PaidOut <= kn /\ kn <= 100 * sh /\ kn \in Nat /\ sh \in Nat /\ PaidOut \in Nat
    BY <2>3, <2>7, <2>9, <2>10
  <2> HIDE DEF kn, sh
  <2>12. PaidOut <= sh
    BY <2>11
  <2> QED
    BY <2>12 DEF NeverOverspent, sh, loot
<1>2. BookAddsUp => AmountsAreTheSplit
  BY DEF BookAddsUp
<1> QED
  BY <1>1, <1>2, Invariance, BookAlways, TheBookAddsUp, PTL

-----------------------------------------------------------------------------
(* The order of the payment events.                                         *)

LEMMA StampStep ==
  ASSUME IInv, StampsIncrease, [Next]_vars
  PROVE  StampsIncrease'
<1>1. CASE UNCHANGED log
  BY <1>1 DEF StampsIncrease
<1>2. CASE \A p \in People : log'[p] = << >>
  BY <1>2 DEF StampsIncrease
<1>3. ASSUME NEW p \in People, NEW now \in 0..MaxClock, NEW kind \in {"paid", "reverted"},
             Logged(p, kind, part[p].amount, now)
      PROVE  StampsIncrease'
  <2>0. TypeOK /\ part[p].amount \in Money /\ now \in Nat
    BY PayoutsAssumption DEF IInv, TypeOK, Row
  <2> DEFINE n == Len(log[p])
             e == [kind |-> kind, amount |-> part[p].amount, at |-> NextPaymentAt(p, now)]
  <2>1. /\ Len(log'[p]) = n + 1
        /\ \A k \in 1..n : log'[p][k] = log[p][k]
        /\ log'[p][n + 1] = e
        /\ \A q \in People \ {p} : log'[q] = log[q]
    BY <1>3, <2>0, LoggedType
  <2>2. n \in Nat /\ (n # 0 => log[p] # << >>) /\ log[p] \in Seq(Event)
    BY <2>0 DEF TypeOK
  <2>3. n # 0 => LastEvent(p).at \in Nat /\ e.at > LastEvent(p).at
    <3>1. n # 0 => n \in 1..n
      BY <2>2
    <3>2. n # 0 => LastEvent(p) \in Event
      BY <2>2, <3>1 DEF LastEvent
    <3>3. n # 0 => LastEvent(p).at \in Nat
      BY <3>2 DEF Event
    <3> QED
      BY <2>0, <2>2, <3>3 DEF NextPaymentAt
  <2> HIDE DEF n, e
  <2>4. ASSUME NEW k \in 1..n
        PROVE  log'[p][k].at < log'[p][k + 1].at
    <3>1. CASE k = n
      <4>1. log'[p][k] = LastEvent(p)
        BY <2>1, <3>1 DEF LastEvent, n
      <4> QED
        BY <2>1, <2>2, <2>3, <3>1, <4>1
    <3>2. CASE k # n
      <4>1. k \in 1..(n - 1) /\ k + 1 \in 1..n
        BY <2>2, <3>2
      <4>2. log[p][k].at < log[p][k + 1].at
        BY <4>1 DEF StampsIncrease, n
      <4> QED
        BY <2>1, <4>1, <4>2
    <3> QED
      BY <3>1, <3>2
  <2>5. 1..(Len(log'[p]) - 1) = 1..n
    BY <2>1, <2>2
  <2> QED
    BY <2>1, <2>4, <2>5 DEF StampsIncrease
<1>4. ASSUME NEW r \in Requests, Settle(r) PROVE StampsIncrease'
  <2>1. CASE FinalizeOperation(r) \/ UnlockOperation(r)
    BY <1>1, <2>1 DEF FinalizeOperation, UnlockOperation
  <2>2. CASE DeleteOperation(r)
    BY <1>2, <2>2 DEF DeleteOperation
  <2> QED
    BY <1>1, <1>3, <1>4, <2>1, <2>2, PaymentWrites DEF Settle
<1>5. ASSUME NEW r \in Requests, EditRoster(r) \/ EditLoot(r) PROVE StampsIncrease'
  BY <1>1, <1>5, RosterEdits, LootEdits DEF DraftEdit, Edit
<1>6. CASE Begin \/ AccountsChange \/ (\E r \in Requests : Fail(r)) \/ UNCHANGED vars
  BY <1>1, <1>6 DEF Begin, Create, Open, AccountsChange, Fail, vars
<1> QED
  BY <1>4, <1>5, <1>6 DEF Next

(* Whatever the clock reads, the events of one participant are totally      *)
(* ordered by their stamps (nextPaymentAt).                                 *)
THEOREM StampsOrdered == Spec => []StampsIncrease
<1>1. Init => StampsIncrease
  BY DEF Init, StampsIncrease
<1> QED
  BY <1>1, StampStep, Invariance, PTL DEF Spec

(* For any number of requests at once and any readings of the clock, the    *)
(* log in the order of its stamps is the history the roster shows.          *)
THEOREM PaymentLog == Spec => []LogBelievable
<1>1. IInv => LogTellsPaid
  BY DEF IInv
<1> QED
  BY <1>1, Invariance, StampsOrdered, PTL DEF LogBelievable

-----------------------------------------------------------------------------
(* The operation implements the ledger.                                     *)

\* The refinement mapping of Book.
Phase == CASE status = "none" -> "none"
           [] status = "draft" -> "open"
           [] status = "deleted" -> "gone"
           [] OTHER -> IF HasPayments THEN "settling" ELSE "committed"
Owed  == [p \in People |-> part[p].amount]
Given == [p \in People |-> part[p].paid]

\* Any step of the ledger, in the words of the mapping.
LedgerStep ==
  \/ UNCHANGED <<Phase, Owed, Given>>
  \/ /\ Phase = "none" /\ Phase' = "open"
     /\ Owed' \in [People -> Nat] /\ UNCHANGED Given
  \/ /\ Phase = "open"
     /\ Owed' \in [People -> Nat] /\ UNCHANGED <<Phase, Given>>
  \/ Phase = "open" /\ Phase' = "committed" /\ UNCHANGED <<Owed, Given>>
  \/ Phase = "committed" /\ Phase' = "open" /\ UNCHANGED <<Owed, Given>>
  \/ /\ Phase \notin {"none", "gone"} /\ Phase' = "gone"
     /\ Given = [p \in People |-> Unpaid]
     /\ Owed' = [p \in People |-> 0] /\ UNCHANGED Given
  \/ \E p \in People :
       \/ /\ Phase \in {"committed", "settling"} /\ Phase' = "settling"
          /\ Given[p] = Unpaid
          /\ Given' = [Given EXCEPT ![p] = Owed[p]]
          /\ UNCHANGED Owed
       \/ /\ Phase = "settling"
          /\ Given[p] # Unpaid
          /\ Given' = [Given EXCEPT ![p] = Unpaid]
          /\ UNCHANGED <<Phase, Owed>>

LEMMA LedgerStepIs == LedgerStep => [Book!Next]_(Book!ledgerVars)
BY DEF LedgerStep, Phase, Owed, Given, Book!Next, Book!ledgerVars, Book!Create, Book!Revise,
       Book!Commit, Book!Reopen, Book!Pay, Book!Revert, Book!Discard, Book!Nothing, Book!Nobody

PhaseFacts ==
  /\ status = "none" => Phase = "none"
  /\ status = "draft" => Phase = "open"
  /\ status = "deleted" => Phase = "gone"
  /\ status = "finalized" => Phase = IF HasPayments THEN "settling" ELSE "committed"
  /\ status # "finalized" => ~HasPayments

LEMMA PhaseOf == (IInv => PhaseFacts) /\ (IInv' => PhaseFacts')
<1>1. IInv => PhaseFacts
  BY DEF IInv, Settled, Phase, PhaseFacts
<1>2. IInv' => PhaseFacts'
  BY DEF IInv, Settled, Phase, PhaseFacts
<1> QED
  BY <1>1, <1>2

LEMMA OwedType == IInv' => Owed' \in [People -> Nat]
BY PayoutsAssumption DEF IInv, TypeOK, Row, Money, Owed

LEMMA SameBook ==
  ASSUME UNCHANGED <<status, part, log>>
  PROVE  UNCHANGED <<Phase, Owed, Given>>
BY DEF Phase, Owed, Given, HasPayments

LEMMA LedgerSettle ==
  ASSUME IInv, IInv', NEW r \in Requests, Settle(r)
  PROVE  LedgerStep
<1>0. part \in [People -> Row] /\ log \in [People -> Seq(Event)]
  BY DEF IInv, TypeOK
<1>a. PhaseFacts /\ PhaseFacts'
  BY PhaseOf
<1>1. CASE FinalizeOperation(r)
  <2>1. UNCHANGED <<Owed, Given>> /\ (HasPayments' <=> HasPayments)
    BY <1>1 DEF FinalizeOperation, book, Owed, Given, HasPayments
  <2>2. status' = "finalized" /\ status \in {"draft", "finalized"}
    BY <1>1 DEF FinalizeOperation, Locked, Exists
  <2> QED
    BY <1>a, <2>1, <2>2 DEF LedgerStep, PhaseFacts
<1>2. CASE UnlockOperation(r)
  <2>1. UNCHANGED <<Owed, Given>> /\ (HasPayments' <=> HasPayments)
    BY <1>2 DEF UnlockOperation, book, Owed, Given, HasPayments
  <2>2. /\ status' = "draft" /\ status \in {"draft", "finalized"}
        /\ status = "draft" \/ ~HasPayments
    BY <1>2 DEF UnlockOperation, Locked, Exists
  <2> QED
    BY <1>a, <2>1, <2>2 DEF LedgerStep, PhaseFacts
<1>3. CASE DeleteOperation(r)
  <2>1. status' = "deleted" /\ status \in {"draft", "finalized"}
    BY <1>3 DEF DeleteOperation, Locked, Exists
  <2>2. \A p \in People : part[p].paid = Unpaid
    BY <1>3 DEF DeleteOperation, NobodyPaid
  <2>3. \A p \in People : part'[p].paid = Unpaid /\ part'[p].amount = 0
    <3>1. Gone.paid = Unpaid /\ Gone.amount = 0
      BY DEF Gone, Fresh
    <3>2. \A p \in People : part[p].state # "on" => part[p].amount = 0
      BY DEF IInv, OffRoster, OnRoster
    <3> QED
      BY <1>3, <2>2, <3>1, <3>2 DEF DeleteOperation, Cleared
  <2>4. /\ Given = [p \in People |-> Unpaid] /\ Given' = [p \in People |-> Unpaid]
        /\ Owed' = [p \in People |-> 0]
    BY <2>2, <2>3 DEF Given, Owed
  <2> QED
    BY <1>a, <2>1, <2>4 DEF LedgerStep, PhaseFacts
<1>4. ASSUME NEW p \in People, NEW kind, NEW amount, NEW now, Logged(p, kind, amount, now)
      PROVE  HasPayments'
  <2> DEFINE e == [kind |-> kind, amount |-> amount, at |-> NextPaymentAt(p, now)]
  <2>1. log'[p] = Append(log[p], e) /\ log[p] \in Seq(Event)
    BY <1>0, <1>4 DEF Logged
  <2> HIDE DEF e
  <2>2. Len(log'[p]) = Len(log[p]) + 1 /\ Len(log[p]) \in Nat
    BY <2>1
  <2>3. log'[p] # << >>
    BY <2>2
  <2> QED
    BY <2>3 DEF HasPayments
<1>5. ASSUME NEW p \in People, NEW v, part' = [part EXCEPT ![p] = WithPaid(@, v)]
      PROVE  Owed' = Owed /\ Given' = [Given EXCEPT ![p] = v]
  <2>1. /\ \A q \in People : part'[q].amount = part[q].amount
        /\ part'[p].paid = v
        /\ \A q \in People \ {p} : part'[q].paid = part[q].paid
    BY <1>0, <1>5 DEF WithPaid, Row
  <2> QED
    BY <2>1 DEF Owed, Given
<1>6. ASSUME NEW p \in People, NEW now \in 0..MaxClock, RecordPayment(r, p, now)
      PROVE  LedgerStep
  <2>1. CASE AlreadyPaid(p)
    BY <1>6, <2>1, SameBook DEF RecordPayment, LedgerStep
  <2>2. CASE ~AlreadyPaid(p)
    <3>1. /\ part' = [part EXCEPT ![p] = WithPaid(@, part[p].amount)]
          /\ Logged(p, "paid", part[p].amount, now)
          /\ status = "finalized" /\ status' = "finalized"
      BY <1>6, <2>2 DEF RecordPayment
    <3>2. Given[p] = Unpaid /\ Owed[p] = part[p].amount
      BY <2>2 DEF AlreadyPaid, Given, Owed
    <3>3. Owed' = Owed /\ Given' = [Given EXCEPT ![p] = Owed[p]] /\ HasPayments'
      BY <1>4, <1>5, <3>1, <3>2
    <3> QED
      BY <1>a, <3>1, <3>2, <3>3 DEF LedgerStep, PhaseFacts
  <2> QED
    BY <2>1, <2>2
<1>7. ASSUME NEW p \in People, NEW now \in 0..MaxClock, RevertPayment(r, p, now)
      PROVE  LedgerStep
  <2>1. /\ part' = [part EXCEPT ![p] = WithPaid(@, Unpaid)]
        /\ Logged(p, "reverted", part[p].paid, now) /\ AlreadyPaid(p)
        /\ status = "finalized" /\ status' = "finalized"
    BY <1>7 DEF RevertPayment
  <2>2. HasPayments
    BY <2>1 DEF AlreadyPaid, IInv, LogTellsPaid, HasPayments
  <2>3. Given[p] # Unpaid
    BY <2>1 DEF AlreadyPaid, Given
  <2>4. Owed' = Owed /\ Given' = [Given EXCEPT ![p] = Unpaid] /\ HasPayments'
    BY <1>4, <1>5, <2>1
  <2> QED
    BY <1>a, <2>1, <2>2, <2>3, <2>4 DEF LedgerStep, PhaseFacts
<1> QED
  BY <1>1, <1>2, <1>3, <1>6, <1>7 DEF Settle

LEMMA LedgerEdit ==
  ASSUME IInv, IInv', DraftEdit
  PROVE  LedgerStep
<1>1. status = "draft" /\ status' = "draft" /\ UNCHANGED log
  BY DEF DraftEdit, Editable, Edit
<1>2. \A p \in People : part[p].paid = Unpaid /\ part'[p].paid = Unpaid
  <2>1. \A p \in People : log[p] = << >> /\ part[p].paid = Unpaid
    BY <1>1, NothingPaidYet
  <2> QED
    BY <1>1, <2>1 DEF IInv, LogTellsPaid
<1>3. UNCHANGED Given /\ Owed' \in [People -> Nat]
  BY <1>2, OwedType DEF Given
<1>4. Phase = "open" /\ Phase' = "open"
  BY <1>1, PhaseOf DEF PhaseFacts
<1> QED
  BY <1>3, <1>4 DEF LedgerStep

LEMMA LedgerCreate ==
  ASSUME IInv, IInv', NEW a \in Accounts, NEW x \in Percents, NEW L, NEW f,
         NEW H \in SUBSET Humans, Create(a, x, L, f, H)
  PROVE  LedgerStep
<1>1. status = "none" /\ status' = "draft" /\ UNCHANGED log
  BY DEF Create
<1>2. \A p \in People : part[p].paid = Unpaid /\ part'[p].paid = Unpaid
  <2>1. \A p \in People : log[p] = << >> /\ part[p].paid = Unpaid
    BY <1>1, NothingPaidYet
  <2> QED
    BY <1>1, <2>1 DEF IInv, LogTellsPaid
<1>3. UNCHANGED Given /\ Owed' \in [People -> Nat]
  BY <1>2, OwedType DEF Given
<1>4. Phase = "none" /\ Phase' = "open"
  BY <1>1, PhaseOf DEF PhaseFacts
<1> QED
  BY <1>3, <1>4 DEF LedgerStep

(* For any roster, loot, clock and number of requests, the operation does   *)
(* what Ledger promises: amounts are revised only while open, a sum owed is *)
(* paid once at a time, and an operation that has paid anybody stays.       *)
THEOREM KeepsTheLedger == Spec => LedgerKept
<1>1. Init => Book!Init
  BY DEF Init, Book!Init, Book!Nothing, Book!Nobody, Fresh
<1>2. ASSUME IInv, IInv', [Next]_vars PROVE LedgerStep
  <2>1. ASSUME NEW r \in Requests, EditRoster(r) \/ EditLoot(r) PROVE LedgerStep
    <3>1. CASE DraftEdit
      BY <1>2, <3>1, LedgerEdit
    <3>2. CASE UNCHANGED <<status, creator, book, log, operators, admins>>
      BY <3>2, SameBook DEF LedgerStep, book
    <3> QED
      BY <1>2, <2>1, <3>1, <3>2, RosterEdits, LootEdits
  <2>2. CASE \/ \E r \in Requests, a \in Accounts, t \in Target : Open(r, a, t)
             \/ AccountsChange \/ \E r \in Requests : Fail(r)
             \/ UNCHANGED vars
    BY <2>2, SameBook DEF LedgerStep, Open, AccountsChange, Fail, vars, book
  <2> QED
    BY <1>2, <2>1, <2>2, LedgerCreate, LedgerSettle DEF Next, Begin
<1>3. IInv /\ IInv' /\ [Next]_vars => [Book!Next]_(Book!ledgerVars)
  BY <1>2, LedgerStepIs
<1> QED
  BY <1>1, <1>3, Invariance, PTL DEF Spec, LedgerKept, Book!Spec
=============================================================================
