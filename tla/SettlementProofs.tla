-------------------------- MODULE SettlementProofs --------------------------
(***************************************************************************)
(* Proofs about Settlement, for any users, outcomes, stakes and bounds.    *)
(* IndInv carries the types and what each stage of SettleMarket may rely   *)
(* on; PoolInv the account of the pool (the fee, and the shares of the     *)
(* positions entered) and RefundInv that of the refunds, as sums.          *)
(***************************************************************************)
EXTENDS Settlement, TLAPS, FiniteSetTheorems

(***************************************************************************)
(* The inductive invariant.  Stage says what the tables hold at each point *)
(* of SettleMarket; it rests on markets.resolved having one consumer.      *)
(***************************************************************************)
Stage ==
    /\ settlement.status = "none" =>
         settlement = NoSettlement /\ \A u \in Users : entry[u] = NoEntry
    /\ settlement.status # "none" => settlement.winner \in Outcomes
    /\ pc[Resolved] \in {"check", "load", "tally"} => want \in Outcomes
    /\ pc[Resolved] \in {"load", "tally"} => settlement.status = "none"
    /\ pc[Resolved] \in {"lock", "entries"} =>
         settlement.status = "processing" /\ \A u \in Users : entry[u] = NoEntry
    /\ pc[Resolved] \in {"distribute", "pay"} =>
         settlement.status \in {"processing", "failed"}
    /\ pc[Resolved] = "close" => settlement.status = "completed"

\* The pool recorded is at least the stake of each winner listed.
Tallied ==
    /\ winning <= total
    /\ pc[Resolved] = "tally" => untallied \subseteq DOMAIN listed[Resolved]
    /\ pc[Resolved] = "tally" =>
         \A p \in DOMAIN listed[Resolved] \ untallied :
            p[2] = want => listed[Resolved][p] <= winning
    /\ pc[Resolved] \in {"lock", "entries"} =>
         \A p \in DOMAIN listed[Resolved] :
            p[2] = settlement.winner => listed[Resolved][p] <= settlement.winning
    /\ settlement.net <= settlement.total
    /\ \A u \in Users : entry[u].payout <= settlement.net

\* A payout the wallet confirmed is the payout of a winning entry.
Answered ==
    /\ \A u \in Users : answer[u] = "ok" =>
         entry[u].isWinner /\ paidOut[u] = entry[u].payout
    /\ CreditedAsDecided

IndInv == TypeOK /\ Stage /\ Tallied /\ Answered
-----------------------------------------------------------------------------
(* Arithmetic of domain/position.go.                                       *)

\* The fee is a natural number, at most the pool.
LEMMA FeeWithinPool ==
    ASSUME NEW pool \in Nat
    PROVE  /\ ComputeInsuranceFee(pool) \in Nat
           /\ pool - ComputeInsuranceFee(pool) \in Nat
           /\ pool - ComputeInsuranceFee(pool) <= pool
BY DEF ComputeInsuranceFee, InsuranceFeeBps

LEMMA QuotientBound ==
    ASSUME NEW a \in Nat, NEW n \in Nat, NEW b \in Nat, b > 0
    PROVE  /\ (a * n) \div b \in Nat
           /\ a <= b => (a * n) \div b <= n
<1>1. a * n \in Nat
  OBVIOUS
<1> DEFINE q == (a * n) \div b
<1>2. q \in Nat
  BY <1>1
<1>3. b * q <= a * n
  BY <1>1
<1>4. ASSUME a <= b PROVE q <= n
  <2>1. a * n <= b * n
    BY <1>4
  <2>2. SUFFICES ASSUME q >= n + 1 PROVE FALSE
    BY <1>2
  <2>3. b * q >= b * (n + 1)
    BY <1>2, <2>2
  <2>4. b * (n + 1) = b * n + b
    OBVIOUS
  <2> QED
    BY <1>1, <1>2, <1>3, <2>1, <2>3, <2>4
<1> QED
  BY <1>2, <1>4

\* A winner's share is a natural number, and at most the net pool when the
\* stake is part of the winning stake.
LEMMA PayoutWithinNet ==
    ASSUME NEW stake \in Nat, NEW winningStake \in Nat, NEW net \in Nat
    PROVE  /\ ComputePayout(stake, winningStake, net) \in Nat
           /\ stake <= winningStake => ComputePayout(stake, winningStake, net) <= net
<1>1. CASE winningStake = 0
  BY <1>1 DEF ComputePayout
<1>2. CASE winningStake > 0
  BY <1>2, QuotientBound DEF ComputePayout
<1> QED
  BY <1>1, <1>2

-----------------------------------------------------------------------------
(* Sums.  The sum of natural weights over a finite set is the number of     *)
(* units of weight, so what is known of cardinalities is known of sums.     *)

\* Every nonempty set of natural numbers has a least one.
LEMMA LeastNumber ==
    ASSUME NEW S \in SUBSET Nat, S # {}
    PROVE  \E n \in S : \A m \in S : n <= m
<1>1. PICK n \in S : \A m \in S : <<m, n>> \notin OpToRel(<, Nat)
  BY WFMin, NatLessThanWellFounded, Zenon
<1>2. \A m \in S : ~(m < n)
  BY <1>1, Zenon DEF OpToRel
<1> QED
  BY <1>2

\* Among some subsets of a finite set there is a smallest one.
LEMMA SmallestSet ==
    ASSUME NEW S, IsFiniteSet(S), NEW B \in SUBSET (SUBSET S), B # {}
    PROVE  \E T \in B : \A U \in B : Cardinality(T) <= Cardinality(U)
<1> DEFINE C == {Cardinality(T) : T \in B}
<1>1. \A T \in B : Cardinality(T) \in Nat
  BY FS_Subset, FS_CardinalityType
<1>2. C \in SUBSET Nat /\ C # {}
  BY <1>1
<1>3. PICK n \in C : \A m \in C : n <= m
  BY <1>2, LeastNumber
<1>4. PICK T \in B : n = Cardinality(T)
  OBVIOUS
<1>5. \A U \in B : Cardinality(U) \in C
  OBVIOUS
<1> QED
  BY <1>3, <1>4, <1>5

Unit(w, x)  == {x} \X (1..w[x])
Units(w, S) == UNION {Unit(w, x) : x \in S}

\* An element of weight n has n units.
LEMMA UnitCount ==
    ASSUME NEW w, NEW x, w[x] \in Nat
    PROVE  IsFiniteSet(Unit(w, x)) /\ Cardinality(Unit(w, x)) = w[x]
<1>1. IsFiniteSet({x}) /\ Cardinality({x}) = 1
  BY FS_Singleton
<1>2. IsFiniteSet(1..w[x]) /\ Cardinality(1..w[x]) = w[x]
  BY FS_Interval
<1>3. /\ IsFiniteSet({x} \X (1..w[x]))
      /\ Cardinality({x} \X (1..w[x])) = Cardinality({x}) * Cardinality(1..w[x])
  BY <1>1, <1>2, FS_Product
<1>4. Cardinality({x}) * Cardinality(1..w[x]) = w[x]
  BY <1>1, <1>2
<1> QED
  BY <1>3, <1>4 DEF Unit

\* Finitely many elements have finitely many units.
LEMMA UnitsFinite ==
    ASSUME NEW S, IsFiniteSet(S), NEW w, \A x \in S : w[x] \in Nat
    PROVE  IsFiniteSet(Units(w, S)) /\ Cardinality(Units(w, S)) \in Nat
<1> DEFINE parts == {Unit(w, x) : x \in S}
           f == [x \in S |-> Unit(w, x)]
<1>1. f \in Surjection(S, parts)
  BY DEF Surjection
<1>2. IsFiniteSet(parts)
  BY <1>1, FS_Surjection
<1>3. \A P \in parts : IsFiniteSet(P)
  BY UnitCount
<1>4. IsFiniteSet(UNION parts)
  BY <1>2, <1>3, FS_UNION
<1> QED
  BY <1>4, FS_CardinalityType DEF Units

\* A new element adds its own units.
LEMMA UnitsAdd ==
    ASSUME NEW S, IsFiniteSet(S), NEW x, x \notin S,
           NEW w, w[x] \in Nat, \A y \in S : w[y] \in Nat
    PROVE  Cardinality(Units(w, S \cup {x})) = Cardinality(Units(w, S)) + w[x]
<1>1. Units(w, S \cup {x}) = Units(w, S) \cup Unit(w, x)
  BY DEF Units
<1>2. Units(w, S) \cap Unit(w, x) = {}
  BY DEF Units, Unit
<1>3. /\ IsFiniteSet(Units(w, S)) /\ Cardinality(Units(w, S)) \in Nat
      /\ IsFiniteSet(Unit(w, x)) /\ Cardinality(Unit(w, x)) = w[x]
  BY UnitsFinite, UnitCount
<1>4. Cardinality(Units(w, S) \cup Unit(w, x))
        = Cardinality(Units(w, S)) + w[x] - Cardinality(Units(w, S) \cap Unit(w, x))
  BY <1>3, FS_Union
<1>5. Cardinality(Units(w, S) \cap Unit(w, x)) = 0
  BY <1>2, FS_EmptySet
<1>6. Cardinality(Units(w, S \cup {x})) = Cardinality(Units(w, S)) + w[x] - 0
  BY <1>1, <1>4, <1>5, Zenon
<1> QED
  BY <1>3, <1>6

\* The empty set has no unit.
LEMMA NoUnits == ASSUME NEW w PROVE Cardinality(Units(w, {})) = 0
<1>1. Units(w, {}) = {}
  BY DEF Units
<1> QED
  BY <1>1, FS_EmptySet

\* A sum takes the elements of a set out one by one.
SummedUp(D, w, f) ==
    [s \in D |-> IF s = {} THEN 0
                 ELSE w[CHOOSE x \in s : TRUE] + f[s \ {CHOOSE x \in s : TRUE}]]

\* The sum over a finite set is the number of units.
LEMMA SumIsCount ==
    ASSUME NEW S, IsFiniteSet(S), NEW w, \A x \in S : w[x] \in Nat
    PROVE  SumFunctionOnSet(w, S) = Cardinality(Units(w, S))
<1> DEFINE count == [s \in SUBSET S |-> Cardinality(Units(w, s))]
           one(s) == CHOOSE x \in s : TRUE
<1>1. ASSUME NEW s \in SUBSET S, s # {}
      PROVE  /\ one(s) \in s /\ Cardinality(s \ {one(s)}) < Cardinality(s)
             /\ Cardinality(Units(w, s)) = w[one(s)] + Cardinality(Units(w, s \ {one(s)}))
             /\ w[one(s)] \in Nat
  <2>1. one(s) \in s
    BY <1>1
  <2> HIDE DEF one
  <2>2. IsFiniteSet(s) /\ Cardinality(s) \in Nat
    BY FS_Subset, FS_CardinalityType
  <2>3. /\ IsFiniteSet(s \ {one(s)}) /\ Cardinality(s \ {one(s)}) = Cardinality(s) - 1
    BY <2>1, <2>2, FS_RemoveElement
  <2>4. /\ (s \ {one(s)}) \cup {one(s)} = s /\ w[one(s)] \in Nat
        /\ \A y \in s \ {one(s)} : w[y] \in Nat
    BY <2>1
  <2>5. Cardinality(Units(w, s)) = Cardinality(Units(w, s \ {one(s)})) + w[one(s)]
    BY <2>3, <2>4, UnitsAdd
  <2>6. Cardinality(Units(w, s \ {one(s)})) \in Nat
    BY <2>3, <2>4, UnitsFinite
  <2> QED
    BY <2>1, <2>2, <2>3, <2>4, <2>5, <2>6
<1>2. count = SummedUp(SUBSET S, w, count)
  <2>1. \A s \in SUBSET S : s # {} => s \ {one(s)} \in SUBSET S
    OBVIOUS
  <2> QED
    BY <1>1, <2>1, NoUnits DEF SummedUp
<1>3. ASSUME NEW f, f = SummedUp(SUBSET S, w, f)
      PROVE  f[S] = Cardinality(Units(w, S))
  <2> DEFINE Bad == {s \in SUBSET S : f[s] # Cardinality(Units(w, s))}
  <2> SUFFICES ASSUME Bad # {} PROVE FALSE
    OBVIOUS
  <2>1. PICK s \in Bad : \A t \in Bad : Cardinality(s) <= Cardinality(t)
    BY SmallestSet
  <2>2. s \in SUBSET S /\ f[s] # Cardinality(Units(w, s))
    OBVIOUS
  <2>3. f[s] = IF s = {} THEN 0 ELSE w[one(s)] + f[s \ {one(s)}]
    BY <1>3, <2>2, Zenon DEF SummedUp
  <2>4. s # {}
    BY <2>2, <2>3, NoUnits
  <2>5. s \ {one(s)} \in SUBSET S /\ s \ {one(s)} \notin Bad
    <3>1. IsFiniteSet(s) /\ Cardinality(s) \in Nat
      BY <2>2, FS_Subset, FS_CardinalityType
    <3>2. one(s) \in s
      BY <2>4
    <3> HIDE DEF one
    <3>3. Cardinality(s \ {one(s)}) = Cardinality(s) - 1
      BY <3>1, <3>2, FS_RemoveElement
    <3>4. ~(Cardinality(s) <= Cardinality(s \ {one(s)}))
      BY <3>1, <3>3
    <3> HIDE DEF Bad
    <3>5. s \ {one(s)} \notin Bad
      BY <2>1, <3>4
    <3> QED
      BY <2>2, <3>5
  <2>6. f[s \ {one(s)}] = Cardinality(Units(w, s \ {one(s)}))
    BY <2>5
  <2> HIDE DEF Bad, one
  <2> QED
    BY <1>1, <2>2, <2>3, <2>4, <2>6
<1>4. SumFunctionOnSet(w, S) = (CHOOSE f : f = SummedUp(SUBSET S, w, f))[S]
  BY DEF SumFunctionOnSet, FoldFunctionOnSet, MapThenFoldSet, SummedUp
<1> HIDE DEF count
<1> QED
  BY <1>2, <1>3, <1>4

Weighs(w, S) == IsFiniteSet(S) /\ \A x \in S : w[x] \in Nat

\* A sum of natural numbers is one.
LEMMA SumType ==
    ASSUME NEW S, NEW w, Weighs(w, S)
    PROVE  SumFunctionOnSet(w, S) \in Nat
BY SumIsCount, UnitsFinite DEF Weighs

\* The empty sum is zero.
LEMMA SumNone == ASSUME NEW w PROVE SumFunctionOnSet(w, {}) = 0
BY SumIsCount, NoUnits, FS_EmptySet

\* A new element adds its weight.
LEMMA SumAdd ==
    ASSUME NEW S, NEW x, x \notin S, NEW w, Weighs(w, S), w[x] \in Nat
    PROVE  SumFunctionOnSet(w, S \cup {x}) = SumFunctionOnSet(w, S) + w[x]
<1>1. IsFiniteSet(S \cup {x})
  BY FS_AddElement DEF Weighs
<1>2. \A y \in S \cup {x} : w[y] \in Nat
  BY DEF Weighs
<1>3. /\ SumFunctionOnSet(w, S \cup {x}) = Cardinality(Units(w, S \cup {x}))
      /\ SumFunctionOnSet(w, S) = Cardinality(Units(w, S))
  BY <1>1, <1>2, SumIsCount DEF Weighs
<1> QED
  BY <1>3, UnitsAdd DEF Weighs

\* A sum grows with its set and with its weights; elements without weight do
\* not count.
LEMMA SumGrows ==
    ASSUME NEW S, NEW w, Weighs(w, S), NEW T, NEW v, Weighs(v, T),
           \A x \in T : v[x] = 0 \/ (x \in S /\ v[x] <= w[x])
    PROVE  SumFunctionOnSet(v, T) <= SumFunctionOnSet(w, S)
<1>1. \A x \in T : Unit(v, x) = {} \/ (x \in S /\ Unit(v, x) \subseteq Unit(w, x))
  <2> SUFFICES ASSUME NEW x \in T
               PROVE  Unit(v, x) = {} \/ (x \in S /\ Unit(v, x) \subseteq Unit(w, x))
    OBVIOUS
  <2>1. CASE v[x] = 0
    <3>1. 1..v[x] = {}
      BY <2>1
    <3> QED
      BY <3>1 DEF Unit
  <2>2. CASE x \in S /\ v[x] <= w[x]
    <3>1. 1..v[x] \subseteq 1..w[x]
      BY <2>2 DEF Weighs
    <3> QED
      BY <2>2, <3>1 DEF Unit
  <2> QED
    BY <2>1, <2>2
<1>2. Units(v, T) \subseteq Units(w, S)
  BY <1>1 DEF Units
<1>3. IsFiniteSet(Units(w, S))
  BY UnitsFinite DEF Weighs
<1> QED
  BY <1>2, <1>3, FS_Subset, SumIsCount DEF Weighs

\* Only the weights of the set's own elements count.
LEMMA SumSame ==
    ASSUME NEW S, NEW w, Weighs(w, S), NEW v, \A x \in S : v[x] = w[x]
    PROVE  SumFunctionOnSet(v, S) = SumFunctionOnSet(w, S)
<1>1. Weighs(v, S) /\ \A x \in S : v[x] <= w[x] /\ w[x] <= v[x]
  BY DEF Weighs
<1> QED
  BY <1>1, SumGrows, SumType

\* A sum is at least each of its terms.
LEMMA SumElement ==
    ASSUME NEW S, NEW w, Weighs(w, S), NEW x \in S
    PROVE  w[x] <= SumFunctionOnSet(w, S)
<1>1. Weighs(w, {}) /\ Weighs(w, {x}) /\ w[x] \in Nat
  BY FS_EmptySet, FS_Singleton DEF Weighs
<1>2. PICK e : e = {}
  OBVIOUS
<1>3. SumFunctionOnSet(w, {x}) = 0 + w[x]
  <2>1. e \cup {x} = {x} /\ x \notin e /\ Weighs(w, e) /\ SumFunctionOnSet(w, e) = 0
    BY <1>1, <1>2, SumNone
  <2>2. SumFunctionOnSet(w, e \cup {x}) = SumFunctionOnSet(w, e) + w[x]
    BY <1>1, <2>1, SumAdd
  <2> QED
    BY <2>1, <2>2
<1>4. SumFunctionOnSet(w, {x}) <= SumFunctionOnSet(w, S)
  BY <1>1, SumGrows DEF Weighs
<1> QED
  BY <1>1, <1>3, <1>4

\* Weights moved to distinct elements of another set.
LEMMA SumMoved ==
    ASSUME NEW S, NEW w, Weighs(w, S), NEW T, NEW v, Weighs(v, T),
           NEW f \in [T -> S], \A x, y \in T : f[x] = f[y] => x = y,
           \A x \in T : v[x] <= w[f[x]]
    PROVE  SumFunctionOnSet(v, T) <= SumFunctionOnSet(w, S)
<1> DEFINE g == [t \in Units(v, T) |-> <<f[t[1]], t[2]>>]
<1>1. \A t \in Units(v, T) : t[1] \in T /\ t[2] \in 1..v[t[1]] /\ t = <<t[1], t[2]>>
  BY DEF Units, Unit
<1>2. ASSUME NEW t \in Units(v, T) PROVE g[t] \in Units(w, S)
  <2>1. t[1] \in T /\ f[t[1]] \in S /\ t[2] \in 1..w[f[t[1]]]
    BY <1>1 DEF Weighs
  <2>2. g[t] \in Unit(w, f[t[1]])
    BY <2>1 DEF Unit
  <2> QED
    BY <2>1, <2>2 DEF Units
<1>3. \A t, u \in Units(v, T) : g[t] = g[u] => t = u
  BY <1>1
<1>4. g \in Injection(Units(v, T), Units(w, S))
  BY <1>2, <1>3 DEF Injection, IsInjective
<1> HIDE DEF g
<1>5. Cardinality(Units(v, T)) <= Cardinality(Units(w, S))
  BY <1>4, FS_Injection, UnitsFinite DEF Weighs
<1> QED
  BY <1>5, SumIsCount DEF Weighs

\* Inequalities element by element add up.
LEMMA SumScaled ==
    ASSUME NEW S, NEW a, Weighs(a, S), NEW b, Weighs(b, S), NEW k \in Nat, NEW n \in Nat,
           \A x \in S : a[x] * k <= n * b[x]
    PROVE  SumFunctionOnSet(a, S) * k <= n * SumFunctionOnSet(b, S)
<1> DEFINE Holds(s) == SumFunctionOnSet(a, s) * k <= n * SumFunctionOnSet(b, s)
           Bad == {s \in SUBSET S : ~Holds(s)}
<1> SUFFICES ASSUME Bad # {} PROVE FALSE
  OBVIOUS
<1>1. IsFiniteSet(S) /\ Bad \in SUBSET (SUBSET S)
  BY DEF Weighs
<1>2. PICK s \in Bad : \A t \in Bad : Cardinality(s) <= Cardinality(t)
  BY <1>1, SmallestSet
<1>3. s \in SUBSET S /\ ~Holds(s)
  OBVIOUS
<1>4. s # {}
  <2>1. Holds({})
    BY SumNone
  <2> QED
    BY <1>3, <2>1
<1>5. PICK x \in s : TRUE
  BY <1>4
<1>6. PICK t : t = s \ {x}
  OBVIOUS
<1>7. IsFiniteSet(s) /\ Cardinality(s) \in Nat
  BY <1>1, <1>3, FS_Subset, FS_CardinalityType
<1>8. Cardinality(t) = Cardinality(s) - 1
  BY <1>5, <1>6, <1>7, FS_RemoveElement
<1>9. t \in SUBSET S /\ x \notin t /\ s = t \cup {x} /\ x \in S
  BY <1>3, <1>5, <1>6
<1>10. ~(Cardinality(s) <= Cardinality(t))
  BY <1>7, <1>8
<1> HIDE DEF Bad
<1>11. t \notin Bad
  BY <1>2, <1>10
<1>12. Holds(t)
  BY <1>9, <1>11 DEF Bad
<1>13. Weighs(a, t) /\ Weighs(b, t) /\ a[x] \in Nat /\ b[x] \in Nat
  BY <1>1, <1>9, FS_Subset DEF Weighs
<1>14. PICK p, q : p = SumFunctionOnSet(a, t) /\ q = SumFunctionOnSet(b, t)
  OBVIOUS
<1>15. p \in Nat /\ q \in Nat /\ p * k <= n * q /\ a[x] * k <= n * b[x]
  BY <1>9, <1>12, <1>13, <1>14, SumType
<1>16. SumFunctionOnSet(a, s) = p + a[x] /\ SumFunctionOnSet(b, s) = q + b[x]
  BY <1>9, <1>13, <1>14, SumAdd
<1>17. (p + a[x]) * k = p * k + a[x] * k /\ n * (q + b[x]) = n * q + n * b[x]
  BY <1>13, <1>15
<1>18. p * k \in Nat /\ a[x] * k \in Nat /\ n * q \in Nat /\ n * b[x] \in Nat
  BY <1>13, <1>15
<1>19. (p + a[x]) * k <= n * (q + b[x])
  BY <1>15, <1>17, <1>18
<1> QED
  BY <1>3, <1>16, <1>19

-----------------------------------------------------------------------------
(* Operators shared by several actions.                                    *)

\* Returning from a handler leaves its locals well typed.
LEMMA ReturnOK ==
    ASSUME HandlersOK, NEW c \in Consumers, Return(c)
    PROVE  HandlersOK'
<1> USE DEF HandlersOK, Return, Goto, Consumers, Resolved, Voided, PC
<1>1. pc' \in [Consumers -> PC] /\ pc'[Voided] \in {"idle", "refund_load", "refund"}
  OBVIOUS
<1>2. DOMAIN listed' = Consumers /\ ListedOK'
  <2>1. DOMAIN Nothing = {} /\ Nothing \in [{} -> Nat]
    BY DEF Nothing
  <2> QED
    BY <2>1 DEF ListedOK
<1>3. /\ want' \in Outcomes \cup {"none"}
      /\ untallied' \subseteq Positions /\ total' \in Nat /\ winning' \in Nat
      /\ todo' \subseteq Users
      /\ answer' \in [Users -> {"none", "ok", "error"}]
      /\ failed' \in BOOLEAN
  <2>1. CASE c = Resolved
    <3>1. /\ want' = "none" /\ untallied' = {} /\ total' = 0 /\ winning' = 0
          /\ todo' = {} /\ answer' = [u \in Users |-> "none"]
      BY <2>1
    <3>2. failed' \in BOOLEAN
      BY <2>1
    <3> QED
      BY <3>1, <3>2
  <2>2. CASE c = Voided
    BY <2>2 DEF tallies, payouts
  <2> QED
    BY <2>1, <2>2
<1> QED
  BY <1>1, <1>2, <1>3

\* Moving the positions from one status to another keeps the tables typed.
LEMMA MoveOK ==
    ASSUME TablesOK, NEW old,
           NEW new \in {"none", "open", "settling", "settled", "refunded"},
           MovePositions(new, old)
    PROVE  position' \in [Positions -> [status : {"none", "open", "settling", "settled",
                                                 "refunded"}, stake : Nat]]
BY DEF TablesOK, MovePositions

-----------------------------------------------------------------------------
(* Every action preserves the invariant.                                   *)

LEMMA RecordStep ==
    ASSUME IndInv, NEW p \in Positions, NEW s \in Stakes, RecordPosition(p, s)
    PROVE  IndInv'
<1> USE SettlementAssumption DEF IndInv, RecordPosition, UpsertPosition, tables, wallet, tallies, payouts, locals, bounds, Goto, Return, Nothing, NoEntry, NoSettlement, Resolved, Voided, Consumers
<1>1. TypeOK'
  <2>1. TablesOK'
    BY DEF TypeOK, TablesOK, HandlersOK
  <2>2. WalletOK'
    BY DEF TypeOK, WalletOK, TablesOK
  <2>3. HandlersOK'
    BY DEF TypeOK, HandlersOK, ListedOK, TablesOK, PC
  <2> QED
    BY <2>1, <2>2, <2>3 DEF TypeOK
<1>2. Stage'
  BY DEF TypeOK, TablesOK, HandlersOK, Stage
<1>3. Tallied'
  BY DEF TypeOK, TablesOK, HandlersOK, ListedOK, Stage, Tallied
<1>4. Answered'
  BY DEF TypeOK, TablesOK, WalletOK, HandlersOK, Stage, Answered, CreditedAsDecided
<1> QED
  BY <1>1, <1>2, <1>3, <1>4

LEMMA ReceiveStep ==
    ASSUME IndInv, NEW o \in Outcomes, ReceiveResolved(o)
    PROVE  IndInv'
<1> USE SettlementAssumption DEF IndInv, ReceiveResolved, tables, wallet, tallies, payouts, locals, bounds, Goto, Return, Nothing, NoEntry, NoSettlement, Resolved, Voided, Consumers
<1>1. TypeOK'
  <2>1. TablesOK'
    BY DEF TypeOK, TablesOK, HandlersOK
  <2>2. WalletOK'
    BY DEF TypeOK, WalletOK, TablesOK
  <2>3. HandlersOK'
    BY DEF TypeOK, HandlersOK, ListedOK, TablesOK, PC
  <2> QED
    BY <2>1, <2>2, <2>3 DEF TypeOK
<1>2. Stage'
  BY DEF TypeOK, TablesOK, HandlersOK, Stage
<1>3. Tallied'
  BY DEF TypeOK, TablesOK, HandlersOK, ListedOK, Stage, Tallied
<1>4. Answered'
  BY DEF TypeOK, TablesOK, WalletOK, HandlersOK, Stage, Answered, CreditedAsDecided
<1> QED
  BY <1>1, <1>2, <1>3, <1>4

LEMMA CheckStep ==
    ASSUME IndInv, CheckExisting
    PROVE  IndInv'
<1> USE SettlementAssumption DEF IndInv, CheckExisting, tables, wallet, tallies, payouts, locals, bounds, Goto, Return, Nothing, NoEntry, NoSettlement, Resolved, Voided, Consumers
<1>1. TypeOK'
  <2>1. TablesOK'
    BY DEF TypeOK, TablesOK, HandlersOK
  <2>2. WalletOK'
    BY DEF TypeOK, WalletOK, TablesOK
  <2>3. HandlersOK'
    <3>1. CASE Return(Resolved)
      BY <3>1, ReturnOK DEF TypeOK
    <3>2. CASE UNCHANGED locals /\ \E l \in {"load", "distribute"} : Goto(Resolved, l)
      BY <3>2 DEF TypeOK, HandlersOK, ListedOK, PC
    <3> QED
      BY <3>1, <3>2
  <2> QED
    BY <2>1, <2>2, <2>3 DEF TypeOK
<1>2. Stage'
  BY DEF TypeOK, TablesOK, HandlersOK, Stage
<1>3. Tallied'
  BY DEF TypeOK, TablesOK, HandlersOK, ListedOK, Stage, Tallied
<1>4. Answered'
  BY DEF TypeOK, TablesOK, WalletOK, HandlersOK, Stage, Answered, CreditedAsDecided
<1> QED
  BY <1>1, <1>2, <1>3, <1>4

LEMMA LoadStep ==
    ASSUME IndInv, LoadPositions
    PROVE  IndInv'
<1> USE SettlementAssumption DEF IndInv, LoadPositions, Existing, Listing, tables, wallet, tallies, payouts, locals, bounds, Goto, Return, Nothing, NoEntry, NoSettlement, Resolved, Voided, Consumers
<1>1. TypeOK'
  <2>1. TablesOK'
    BY DEF TypeOK, TablesOK, HandlersOK
  <2>2. WalletOK'
    BY DEF TypeOK, WalletOK, TablesOK
  <2>3. HandlersOK'
    <3>1. CASE Existing = {}
      BY <3>1, ReturnOK DEF TypeOK
    <3>2. CASE Existing # {}
      <4>1. /\ DOMAIN listed'[Resolved] = Existing
            /\ listed'[Resolved] \in [Existing -> Nat]
        BY <3>2 DEF TypeOK, TablesOK, HandlersOK
      <4>2. DOMAIN listed' = Consumers /\ ListedOK'
        BY <3>2, <4>1 DEF TypeOK, HandlersOK, ListedOK
      <4> QED
        BY <3>2, <4>2 DEF TypeOK, HandlersOK, PC
    <3> QED
      BY <3>1, <3>2
  <2> QED
    BY <2>1, <2>2, <2>3 DEF TypeOK
<1>2. Stage'
  BY DEF TypeOK, TablesOK, HandlersOK, Stage
<1>3. Tallied'
  BY DEF TypeOK, TablesOK, HandlersOK, ListedOK, Stage, Tallied
<1>4. Answered'
  BY DEF TypeOK, TablesOK, WalletOK, HandlersOK, Stage, Answered, CreditedAsDecided
<1> QED
  BY <1>1, <1>2, <1>3, <1>4

LEMMA TallyStep ==
    ASSUME IndInv, Tally
    PROVE  IndInv'
<1> USE SettlementAssumption DEF IndInv, Tally, tables, wallet, tallies, payouts, locals, bounds, Goto, Return, Nothing, NoEntry, NoSettlement, Resolved, Voided, Consumers
<1> DEFINE q == CHOOSE r \in untallied : TRUE
<1>0. /\ q \in untallied /\ q \in Positions
      /\ listed[Resolved][q] \in Nat
      /\ untallied' = untallied \ {q}
      /\ total' = total + listed[Resolved][q]
      /\ winning' = IF q[2] = want THEN winning + listed[Resolved][q] ELSE winning
  BY DEF TypeOK, HandlersOK, ListedOK, Tallied
<1> HIDE DEF q
<1>1. TypeOK'
  <2>1. TablesOK'
    BY DEF TypeOK, TablesOK, HandlersOK
  <2>2. WalletOK'
    BY DEF TypeOK, WalletOK, TablesOK
  <2>3. HandlersOK'
    BY <1>0 DEF TypeOK, HandlersOK, ListedOK, TablesOK, PC
  <2> QED
    BY <2>1, <2>2, <2>3 DEF TypeOK
<1>2. Stage'
  BY DEF TypeOK, TablesOK, HandlersOK, Stage
<1>3. Tallied'
  <2>1. untallied' \subseteq DOMAIN listed'[Resolved] /\ winning' <= total'
    BY <1>0 DEF TypeOK, HandlersOK, Tallied
  <2>2. ASSUME NEW p \in DOMAIN listed[Resolved] \ untallied', p[2] = want
        PROVE  listed[Resolved][p] <= winning'
    <3>1. listed[Resolved][p] \in Nat /\ winning \in Nat
      BY DEF TypeOK, HandlersOK, ListedOK
    <3>2. CASE p = q
      BY <1>0, <2>2, <3>1, <3>2
    <3>3. CASE p # q
      BY <1>0, <2>2, <3>1, <3>3 DEF Tallied
    <3> QED
      BY <3>2, <3>3
  <2> QED
    BY <2>1, <2>2 DEF Tallied
<1>4. Answered'
  BY DEF TypeOK, TablesOK, WalletOK, HandlersOK, Stage, Answered, CreditedAsDecided
<1> QED
  BY <1>1, <1>2, <1>3, <1>4

LEMMA CreateStep ==
    ASSUME IndInv, CreateSettlement
    PROVE  IndInv'
<1> USE SettlementAssumption DEF IndInv, CreateSettlement, tables, wallet, tallies, payouts, locals, bounds, Goto, Return, Nothing, NoEntry, NoSettlement, Resolved, Voided, Consumers
<1>1. TypeOK'
  <2>1. TablesOK'
    BY FeeWithinPool DEF TypeOK, TablesOK, HandlersOK, Stage
  <2>2. WalletOK'
    BY DEF TypeOK, WalletOK, TablesOK
  <2>3. HandlersOK'
    BY DEF TypeOK, HandlersOK, ListedOK, TablesOK, PC
  <2> QED
    BY <2>1, <2>2, <2>3 DEF TypeOK
<1>2. Stage'
  BY DEF TypeOK, TablesOK, HandlersOK, Stage
<1>3. Tallied'
  <2>1. settlement.status = "none" /\ \A u \in Users : entry[u].payout = 0
    BY DEF Stage
  <2>2. settlement'.net \in Nat /\ settlement'.net <= settlement'.total
    BY FeeWithinPool DEF TypeOK, HandlersOK
  <2>3. \A u \in Users : entry'[u].payout <= settlement'.net
    BY <2>1, <2>2
  <2> QED
    BY <2>2, <2>3 DEF TypeOK, HandlersOK, Tallied
<1>4. Answered'
  BY DEF TypeOK, TablesOK, WalletOK, HandlersOK, Stage, Answered, CreditedAsDecided
<1> QED
  BY <1>1, <1>2, <1>3, <1>4

LEMMA LockStep ==
    ASSUME IndInv, LockPositions
    PROVE  IndInv'
<1> USE SettlementAssumption DEF IndInv, LockPositions, MovePositions, tables, wallet, tallies, payouts, locals, bounds, Goto, Return, Nothing, NoEntry, NoSettlement, Resolved, Voided, Consumers
<1>1. TypeOK'
  <2>1. TablesOK'
    BY DEF TypeOK, TablesOK, HandlersOK
  <2>2. WalletOK'
    BY DEF TypeOK, WalletOK, TablesOK
  <2>3. HandlersOK'
    BY DEF TypeOK, HandlersOK, ListedOK, TablesOK, PC
  <2> QED
    BY <2>1, <2>2, <2>3 DEF TypeOK
<1>2. Stage'
  BY DEF TypeOK, TablesOK, HandlersOK, Stage
<1>3. Tallied'
  BY DEF TypeOK, TablesOK, HandlersOK, ListedOK, Stage, Tallied
<1>4. Answered'
  BY DEF TypeOK, TablesOK, WalletOK, HandlersOK, Stage, Answered, CreditedAsDecided
<1> QED
  BY <1>1, <1>2, <1>3, <1>4

LEMMA EntriesStep ==
    ASSUME IndInv, CreateEntries
    PROVE  IndInv'
<1> USE SettlementAssumption DEF IndInv, CreateEntries, tables, wallet, tallies, payouts, locals, bounds, Goto, Return, Nothing, NoEntry, NoSettlement, Resolved, Voided, Consumers
<1> DEFINE L == listed[Resolved]
           holders == {p[1] : p \in DOMAIN L}
<1>0. PICK first \in [holders -> DOMAIN L] :
        entry' = [u \in Users |-> IF u \in holders /\ entry[u] = NoEntry
                                 THEN EntryOf(first[u], L[first[u]])
                                 ELSE entry[u]]
  OBVIOUS
<1>e. ASSUME NEW p \in DOMAIN L
      PROVE  /\ EntryOf(p, L[p]) \in [status : {"pending"}, isWinner : BOOLEAN, payout : Nat]
             /\ EntryOf(p, L[p]).payout <= settlement.net
  <2>1. /\ L[p] \in Nat /\ settlement.winning \in Nat /\ settlement.net \in Nat
        /\ p[2] = settlement.winner => L[p] <= settlement.winning
    BY DEF TypeOK, TablesOK, HandlersOK, ListedOK, Tallied
  <2> DEFINE share == ComputePayout(L[p], settlement.winning, settlement.net)
  <2>2. share \in Nat /\ (p[2] = settlement.winner => share <= settlement.net)
    BY <2>1, PayoutWithinNet
  <2> HIDE DEF share
  <2>3. EntryOf(p, L[p]) = [status   |-> "pending",
                            isWinner |-> p[2] = settlement.winner,
                            payout   |-> IF p[2] = settlement.winner THEN share ELSE 0]
    BY DEF EntryOf, share
  <2> QED
    BY <2>1, <2>2, <2>3
<1>f. ASSUME NEW u \in Users
      PROVE  /\ entry'[u] \in [status : {"none", "pending", "paid", "failed", "skipped"},
                               isWinner : BOOLEAN, payout : Nat]
             /\ entry'[u].payout <= settlement.net
             /\ entry'[u].status \in {"none", "pending"}
  <2>1. CASE u \in holders
    BY <1>0, <1>e, <2>1 DEF Stage
  <2>2. CASE u \notin holders
    BY <1>0, <2>2 DEF TypeOK, TablesOK, Stage, Tallied
  <2> QED
    BY <2>1, <2>2
<1>g. entry' = [u \in Users |-> entry'[u]]
  BY <1>0
<1>1. TypeOK'
  <2>1. TablesOK'
    BY <1>f, <1>g DEF TypeOK, TablesOK
  <2>2. WalletOK'
    BY DEF TypeOK, WalletOK, TablesOK
  <2>3. HandlersOK'
    BY DEF TypeOK, HandlersOK, ListedOK, TablesOK, PC
  <2> QED
    BY <2>1, <2>2, <2>3 DEF TypeOK
<1>2. Stage'
  BY DEF TypeOK, TablesOK, HandlersOK, Stage
<1>3. Tallied'
  BY <1>f DEF TypeOK, TablesOK, HandlersOK, ListedOK, Stage, Tallied
<1>4. Answered'
  <2> SUFFICES ASSUME NEW u \in Users
               PROVE  /\ answer'[u] # "ok" /\ paidOut'[u] = 0
                      /\ entry'[u].status # "paid"
    BY DEF Answered, CreditedAsDecided
  <2>1. entry[u] = NoEntry
    BY DEF Stage
  <2>2. answer[u] # "ok" /\ paidOut[u] = 0
    BY <2>1 DEF Answered, CreditedAsDecided
  <2> QED
    BY <1>f, <2>2
<1> QED
  BY <1>1, <1>2, <1>3, <1>4

LEMMA FeeStep ==
    ASSUME IndInv, CollectInsuranceFee
    PROVE  IndInv'
<1> USE SettlementAssumption DEF IndInv, CollectInsuranceFee, tables, wallet, tallies, payouts, locals, bounds, Goto, Return, Nothing, NoEntry, NoSettlement, Resolved, Voided, Consumers
<1>1. TypeOK'
  <2>1. TablesOK'
    BY DEF TypeOK, TablesOK, HandlersOK
  <2>2. WalletOK'
    BY FeeWithinPool DEF TypeOK, WalletOK, TablesOK
  <2>3. HandlersOK'
    BY DEF TypeOK, HandlersOK, ListedOK, TablesOK, PC
  <2> QED
    BY <2>1, <2>2, <2>3 DEF TypeOK
<1>2. Stage'
  BY DEF TypeOK, TablesOK, HandlersOK, Stage
<1>3. Tallied'
  BY DEF TypeOK, TablesOK, HandlersOK, ListedOK, Stage, Tallied
<1>4. Answered'
  BY DEF TypeOK, TablesOK, WalletOK, HandlersOK, Stage, Answered, CreditedAsDecided
<1> QED
  BY <1>1, <1>2, <1>3, <1>4

LEMMA ListStep ==
    ASSUME IndInv, ListPendingEntries
    PROVE  IndInv'
<1> USE SettlementAssumption DEF IndInv, ListPendingEntries, tables, wallet, tallies, payouts, locals, bounds, Goto, Return, Nothing, NoEntry, NoSettlement, Resolved, Voided, Consumers
<1>1. TypeOK'
  <2>1. TablesOK'
    BY DEF TypeOK, TablesOK, HandlersOK
  <2>2. WalletOK'
    BY DEF TypeOK, WalletOK, TablesOK
  <2>3. HandlersOK'
    BY DEF TypeOK, HandlersOK, ListedOK, TablesOK, PC
  <2> QED
    BY <2>1, <2>2, <2>3 DEF TypeOK
<1>2. Stage'
  BY DEF TypeOK, TablesOK, HandlersOK, Stage
<1>3. Tallied'
  BY DEF TypeOK, TablesOK, HandlersOK, ListedOK, Stage, Tallied
<1>4. Answered'
  BY DEF TypeOK, TablesOK, WalletOK, HandlersOK, Stage, Answered, CreditedAsDecided
<1> QED
  BY <1>1, <1>2, <1>3, <1>4

LEMMA SkipStep ==
    ASSUME IndInv, NEW u \in Users, SkipEntry(u)
    PROVE  IndInv'
<1> USE SettlementAssumption DEF IndInv, SkipEntry, Payable, tables, wallet, tallies, payouts, locals, bounds, Goto, Return, Nothing, NoEntry, NoSettlement, Resolved, Voided, Consumers
<1>1. TypeOK'
  <2>1. TablesOK'
    BY DEF TypeOK, TablesOK, HandlersOK
  <2>2. WalletOK'
    BY DEF TypeOK, WalletOK, TablesOK
  <2>3. HandlersOK'
    BY DEF TypeOK, HandlersOK, ListedOK, TablesOK, PC
  <2> QED
    BY <2>1, <2>2, <2>3 DEF TypeOK
<1>2. Stage'
  BY DEF TypeOK, TablesOK, HandlersOK, Stage
<1>3. Tallied'
  BY DEF TypeOK, TablesOK, HandlersOK, ListedOK, Stage, Tallied
<1>4. Answered'
  <2>1. CASE entry' = entry
    BY <2>1 DEF Answered, CreditedAsDecided
  <2>2. CASE entry' = [entry EXCEPT ![u].status = "skipped"]
    <3>1. \A v \in Users : /\ entry'[v].isWinner = entry[v].isWinner
                           /\ entry'[v].payout = entry[v].payout
                           /\ entry'[v].status \in {entry[v].status, "skipped"}
      BY <2>2 DEF TypeOK, TablesOK
    <3> QED
      BY <3>1 DEF Answered, CreditedAsDecided
  <2> QED
    BY <2>1, <2>2
<1> QED
  BY <1>1, <1>2, <1>3, <1>4

LEMMA CreditStep ==
    ASSUME IndInv, NEW u \in Users, CreditEntry(u)
    PROVE  IndInv'
<1> USE SettlementAssumption DEF IndInv, CreditEntry, CreditOnce, Payable, tables, wallet, tallies, payouts, locals, bounds, Goto, Return, Nothing, NoEntry, NoSettlement, Resolved, Voided, Consumers
<1>1. TypeOK'
  <2>1. TablesOK'
    BY DEF TypeOK, TablesOK, HandlersOK
  <2>2. WalletOK'
    BY DEF TypeOK, WalletOK, TablesOK
  <2>3. HandlersOK'
    BY DEF TypeOK, HandlersOK, ListedOK, TablesOK, PC
  <2> QED
    BY <2>1, <2>2, <2>3 DEF TypeOK
<1>2. Stage'
  BY DEF TypeOK, TablesOK, HandlersOK, Stage
<1>3. Tallied'
  BY DEF TypeOK, TablesOK, HandlersOK, ListedOK, Stage, Tallied
<1>4. Answered'
  BY DEF TypeOK, TablesOK, WalletOK, HandlersOK, Stage, Answered, CreditedAsDecided
<1> QED
  BY <1>1, <1>2, <1>3, <1>4

LEMMA MarkStep ==
    ASSUME IndInv, NEW u \in Users, MarkEntry(u)
    PROVE  IndInv'
<1> USE SettlementAssumption DEF IndInv, MarkEntry, tables, wallet, tallies, payouts, locals, bounds, Goto, Return, Nothing, NoEntry, NoSettlement, Resolved, Voided, Consumers
<1>1. TypeOK'
  <2>1. TablesOK'
    BY DEF TypeOK, TablesOK, HandlersOK
  <2>2. WalletOK'
    BY DEF TypeOK, WalletOK, TablesOK
  <2>3. HandlersOK'
    BY DEF TypeOK, HandlersOK, ListedOK, TablesOK, PC
  <2> QED
    BY <2>1, <2>2, <2>3 DEF TypeOK
<1>2. Stage'
  BY DEF TypeOK, TablesOK, HandlersOK, Stage
<1>3. Tallied'
  BY DEF TypeOK, TablesOK, HandlersOK, ListedOK, Stage, Tallied
<1>4. Answered'
  BY DEF TypeOK, TablesOK, WalletOK, HandlersOK, Stage, Answered, CreditedAsDecided
<1> QED
  BY <1>1, <1>2, <1>3, <1>4

LEMMA DistributeFailedStep ==
    ASSUME IndInv, DistributeFailed
    PROVE  IndInv'
<1> USE SettlementAssumption DEF IndInv, DistributeFailed, tables, wallet, tallies, payouts, locals, bounds, Goto, Return, Nothing, NoEntry, NoSettlement, Resolved, Voided, Consumers
<1>1. TypeOK'
  <2>1. TablesOK'
    BY DEF TypeOK, TablesOK, HandlersOK
  <2>2. WalletOK'
    BY DEF TypeOK, WalletOK, TablesOK
  <2>3. HandlersOK'
    BY ReturnOK DEF TypeOK
  <2> QED
    BY <2>1, <2>2, <2>3 DEF TypeOK
<1>2. Stage'
  BY DEF TypeOK, TablesOK, HandlersOK, Stage
<1>3. Tallied'
  <2>1. settlement'.net = settlement.net /\ settlement'.total = settlement.total
    BY DEF TypeOK, TablesOK
  <2>2. pc'[Resolved] = "idle" /\ winning' = 0 /\ total' = 0 /\ UNCHANGED entry
    BY DEF TypeOK, HandlersOK
  <2> QED
    BY <2>1, <2>2 DEF Tallied
<1>4. Answered'
  BY DEF TypeOK, TablesOK, WalletOK, HandlersOK, Stage, Answered, CreditedAsDecided
<1> QED
  BY <1>1, <1>2, <1>3, <1>4

LEMMA CompleteStep ==
    ASSUME IndInv, CompleteSettlement
    PROVE  IndInv'
<1> USE SettlementAssumption DEF IndInv, CompleteSettlement, tables, wallet, tallies, payouts, locals, bounds, Goto, Return, Nothing, NoEntry, NoSettlement, Resolved, Voided, Consumers
<1>1. TypeOK'
  <2>1. TablesOK'
    BY DEF TypeOK, TablesOK, HandlersOK
  <2>2. WalletOK'
    BY DEF TypeOK, WalletOK, TablesOK
  <2>3. HandlersOK'
    BY DEF TypeOK, HandlersOK, ListedOK, TablesOK, PC
  <2> QED
    BY <2>1, <2>2, <2>3 DEF TypeOK
<1>2. Stage'
  BY DEF TypeOK, TablesOK, HandlersOK, Stage
<1>3. Tallied'
  BY DEF TypeOK, TablesOK, HandlersOK, ListedOK, Stage, Tallied
<1>4. Answered'
  BY DEF TypeOK, TablesOK, WalletOK, HandlersOK, Stage, Answered, CreditedAsDecided
<1> QED
  BY <1>1, <1>2, <1>3, <1>4

LEMMA SettledStep ==
    ASSUME IndInv, MarkPositionsSettled
    PROVE  IndInv'
<1> USE SettlementAssumption DEF IndInv, MarkPositionsSettled, tables, wallet, tallies, payouts, locals, bounds, Goto, Return, Nothing, NoEntry, NoSettlement, Resolved, Voided, Consumers
<1>1. TypeOK'
  <2>1. TablesOK'
    BY MoveOK DEF TypeOK, TablesOK
  <2>2. WalletOK'
    BY DEF TypeOK, WalletOK, TablesOK
  <2>3. HandlersOK'
    BY ReturnOK DEF TypeOK
  <2> QED
    BY <2>1, <2>2, <2>3 DEF TypeOK
<1>2. Stage'
  BY DEF TypeOK, TablesOK, HandlersOK, Stage
<1>3. Tallied'
  BY DEF TypeOK, TablesOK, HandlersOK, ListedOK, Stage, Tallied
<1>4. Answered'
  BY DEF TypeOK, TablesOK, WalletOK, HandlersOK, Stage, Answered, CreditedAsDecided
<1> QED
  BY <1>1, <1>2, <1>3, <1>4

LEMMA ReceiveRefundStep ==
    ASSUME IndInv, NEW c \in Consumers, ReceiveRefund(c)
    PROVE  IndInv'
<1> USE SettlementAssumption DEF IndInv, ReceiveRefund, tables, wallet, tallies, payouts, locals, bounds, Goto, Return, Nothing, NoEntry, NoSettlement, Resolved, Voided, Consumers
<1>1. TypeOK'
  <2>1. TablesOK'
    BY DEF TypeOK, TablesOK, HandlersOK
  <2>2. WalletOK'
    BY DEF TypeOK, WalletOK, TablesOK
  <2>3. HandlersOK'
    BY DEF TypeOK, HandlersOK, ListedOK, TablesOK, PC
  <2> QED
    BY <2>1, <2>2, <2>3 DEF TypeOK
<1>2. Stage'
  BY DEF TypeOK, TablesOK, HandlersOK, Stage
<1>3. Tallied'
  BY DEF TypeOK, TablesOK, HandlersOK, ListedOK, Stage, Tallied
<1>4. Answered'
  BY DEF TypeOK, TablesOK, WalletOK, HandlersOK, Stage, Answered, CreditedAsDecided
<1> QED
  BY <1>1, <1>2, <1>3, <1>4

LEMMA LoadRefundableStep ==
    ASSUME IndInv, NEW c \in Consumers, LoadRefundable(c)
    PROVE  IndInv'
<1> USE SettlementAssumption DEF IndInv, LoadRefundable, Refundable, Existing, tables, wallet, tallies, payouts, locals, bounds, Goto, Return, Nothing, NoEntry, NoSettlement, Resolved, Voided, Consumers
<1>1. TypeOK'
  <2>1. TablesOK'
    BY DEF TypeOK, TablesOK, HandlersOK
  <2>2. WalletOK'
    BY DEF TypeOK, WalletOK, TablesOK
  <2>3. HandlersOK'
    <3>1. CASE Existing = {}
      BY <3>1, ReturnOK DEF TypeOK
    <3>2. CASE Existing # {}
      <4>1. /\ DOMAIN listed'[c] \subseteq Positions
            /\ listed'[c] \in [DOMAIN listed'[c] -> Nat]
        BY <3>2 DEF TypeOK, TablesOK, HandlersOK
      <4>2. DOMAIN listed' = Consumers /\ ListedOK'
        BY <3>2, <4>1 DEF TypeOK, HandlersOK, ListedOK
      <4> QED
        BY <3>2, <4>2 DEF TypeOK, HandlersOK, PC
    <3> QED
      BY <3>1, <3>2
  <2> QED
    BY <2>1, <2>2, <2>3 DEF TypeOK
<1>2. Stage'
  BY DEF TypeOK, TablesOK, HandlersOK, Stage
<1>3. Tallied'
  <2>1. CASE c = Voided
    BY <2>1 DEF TypeOK, HandlersOK, Tallied
  <2>2. CASE c = Resolved
    <3>1. pc'[Resolved] \in {"idle", "refund"}
      BY <2>2 DEF TypeOK, HandlersOK
    <3>2. winning' <= total'
      BY <2>2 DEF Tallied
    <3> QED
      BY <3>1, <3>2 DEF Tallied
  <2> QED
    BY <2>1, <2>2
<1>4. Answered'
  BY DEF TypeOK, TablesOK, WalletOK, HandlersOK, Stage, Answered, CreditedAsDecided
<1> QED
  BY <1>1, <1>2, <1>3, <1>4

LEMMA RefundStep ==
    ASSUME IndInv, NEW c \in Consumers, NEW p \in Positions, RefundPosition(c, p)
    PROVE  IndInv'
<1> USE SettlementAssumption DEF IndInv, RefundPosition, CreditOnce, Restrict, tables, wallet, tallies, payouts, locals, bounds, Goto, Return, Nothing, NoEntry, NoSettlement, Resolved, Voided, Consumers
<1>1. TypeOK'
  <2>1. TablesOK'
    BY DEF TypeOK, TablesOK, HandlersOK
  <2>2. WalletOK'
    <3>1. listed[c][p] \in Nat
      BY DEF TypeOK, HandlersOK, ListedOK
    <3> QED
      BY <3>1 DEF TypeOK, WalletOK
  <2>3. HandlersOK'
    BY DEF TypeOK, HandlersOK, ListedOK, TablesOK, PC
  <2> QED
    BY <2>1, <2>2, <2>3 DEF TypeOK
<1>2. Stage'
  BY DEF TypeOK, TablesOK, HandlersOK, Stage
<1>3. Tallied'
  BY DEF TypeOK, TablesOK, HandlersOK, ListedOK, Stage, Tallied
<1>4. Answered'
  BY DEF TypeOK, TablesOK, WalletOK, HandlersOK, Stage, Answered, CreditedAsDecided
<1> QED
  BY <1>1, <1>2, <1>3, <1>4

LEMMA RefundedStep ==
    ASSUME IndInv, NEW c \in Consumers, MarkPositionsRefunded(c)
    PROVE  IndInv'
<1> USE SettlementAssumption DEF IndInv, MarkPositionsRefunded, tables, wallet, tallies, payouts, locals, bounds, Goto, Return, Nothing, NoEntry, NoSettlement, Resolved, Voided, Consumers
<1>1. TypeOK'
  <2>1. TablesOK'
    BY MoveOK DEF TypeOK, TablesOK
  <2>2. WalletOK'
    BY DEF TypeOK, WalletOK, TablesOK
  <2>3. HandlersOK'
    BY ReturnOK DEF TypeOK
  <2> QED
    BY <2>1, <2>2, <2>3 DEF TypeOK
<1>2. Stage'
  BY DEF TypeOK, TablesOK, HandlersOK, Stage
<1>3. Tallied'
  BY DEF TypeOK, TablesOK, HandlersOK, ListedOK, Stage, Tallied
<1>4. Answered'
  BY DEF TypeOK, TablesOK, WalletOK, HandlersOK, Stage, Answered, CreditedAsDecided
<1> QED
  BY <1>1, <1>2, <1>3, <1>4

LEMMA AbortStep ==
    ASSUME IndInv, NEW c \in Consumers, Abort(c)
    PROVE  IndInv'
<1> USE SettlementAssumption DEF IndInv, Abort, tables, wallet, tallies, payouts, locals, bounds, Goto, Return, Nothing, NoEntry, NoSettlement, Resolved, Voided, Consumers
<1>1. TypeOK'
  <2>1. TablesOK'
    BY DEF TypeOK, TablesOK, HandlersOK
  <2>2. WalletOK'
    <3>1. feeTask' \in BOOLEAN
      BY DEF TypeOK, WalletOK
    <3>2. UNCHANGED <<wallet, trades, messages>> /\ aborts' = aborts + 1
      OBVIOUS
    <3> QED
      BY <3>1, <3>2 DEF TypeOK, WalletOK
  <2>3. HandlersOK'
    BY ReturnOK DEF TypeOK
  <2> QED
    BY <2>1, <2>2, <2>3 DEF TypeOK
<1>2. Stage'
  BY DEF TypeOK, TablesOK, HandlersOK, Stage
<1>3. Tallied'
  BY DEF TypeOK, TablesOK, HandlersOK, ListedOK, Stage, Tallied
<1>4. Answered'
  BY DEF TypeOK, TablesOK, WalletOK, HandlersOK, Stage, Answered, CreditedAsDecided
<1> QED
  BY <1>1, <1>2, <1>3, <1>4
-----------------------------------------------------------------------------
(* The theorems.                                                           *)

\* The invariant holds initially.
LEMMA InitOK == Init => IndInv
<1> SUFFICES ASSUME Init PROVE IndInv
  OBVIOUS
<1> USE DEF Init, Resolved, Voided, Consumers, NoEntry, NoSettlement
<1>1. TypeOK
  <2>1. TablesOK
    BY DEF TablesOK
  <2>2. WalletOK
    BY SettlementAssumption DEF WalletOK
  <2>3. HandlersOK
    <3>1. \A c \in Consumers : /\ DOMAIN listed[c] = {}
                              /\ listed[c] \in [{} -> Nat]
      BY DEF Nothing
    <3>2. ListedOK
      BY <3>1 DEF ListedOK
    <3> QED
      BY <3>2 DEF HandlersOK, PC
  <2> QED
    BY <2>1, <2>2, <2>3 DEF TypeOK
<1>2. Stage
  BY DEF Stage
<1>3. Tallied
  BY DEF Tallied
<1>4. Answered
  BY DEF Answered, CreditedAsDecided
<1> QED
  BY <1>1, <1>2, <1>3, <1>4 DEF IndInv

\* Every step of the service keeps the invariant.
LEMMA NextOK == IndInv /\ [Next]_vars => IndInv'
<1> SUFFICES ASSUME IndInv, [Next]_vars PROVE IndInv'
  OBVIOUS
<1>1. CASE ConsumeOrderMatched \/ PostPosition
  BY <1>1, RecordStep DEF ConsumeOrderMatched, PostPosition
<1>2. CASE \E o \in Outcomes : ReceiveResolved(o)
  BY <1>2, ReceiveStep
<1>3. CASE Settle
  BY <1>3, CheckStep, LoadStep, TallyStep, CreateStep, LockStep, EntriesStep, ListStep,
     SkipStep, CreditStep, MarkStep, DistributeFailedStep, CompleteStep, SettledStep
     DEF Settle
<1>4. CASE CollectInsuranceFee
  BY <1>4, FeeStep
<1>5. CASE \E c \in Consumers : ReceiveRefund(c) \/ Refund(c) \/ Abort(c)
  BY <1>5, ReceiveRefundStep, LoadRefundableStep, RefundStep, RefundedStep, AbortStep
     DEF Refund
<1>6. CASE UNCHANGED vars
  BY <1>6 DEF IndInv, TypeOK, TablesOK, WalletOK, HandlersOK, ListedOK, Stage, Tallied,
     Answered, CreditedAsDecided, vars, tables, wallet, tallies, payouts, bounds
<1> QED
  BY <1>1, <1>2, <1>3, <1>4, <1>5, <1>6 DEF Next

\* The invariant holds in every reachable state.
THEOREM Invariance == Spec => []IndInv
  BY InitOK, NextOK, PTL DEF Spec

\* Every variable keeps its type, for any users, outcomes, stakes and bounds.
THEOREM TypeCorrect == Spec => []TypeOK
<1>1. IndInv => TypeOK
  BY DEF IndInv
<1> QED
  BY <1>1, Invariance, PTL

\* The wallet credits exactly what the entries of the settlement state, and an
\* entry marked paid was credited (distributePayout, resumed any number of times).
THEOREM PayoutsAsDecided == Spec => []CreditedAsDecided
<1>1. IndInv => CreditedAsDecided
  BY DEF IndInv, Answered
<1> QED
  BY <1>1, Invariance, PTL

\* No single payout exceeds the pool net of the fee (ComputePayout on the
\* stakes listed when the settlement was created).
THEOREM PayoutsWithinNet == Spec => [](\A u \in Users : paidOut[u] <= settlement.net)
<1>1. IndInv => \A u \in Users : paidOut[u] <= settlement.net
  BY DEF IndInv, TypeOK, TablesOK, WalletOK, Tallied, Answered, CreditedAsDecided
<1> QED
  BY <1>1, Invariance, PTL

\* A completed settlement is final: no later step changes it, an entry or a
\* payout (the early return of SettleMarket and the single consumer).
THEOREM CompletedFinal == Spec => CompletedIsFinal
<1>1. IndInv /\ [Next]_vars
        => [settlement.status = "completed" => UNCHANGED <<settlement, entry, paidOut>>]_vars
  <2> SUFFICES ASSUME IndInv, Next, settlement.status = "completed"
               PROVE  UNCHANGED <<settlement, entry, paidOut>>
    OBVIOUS
  <2>1. pc[Resolved] \in {"idle", "check", "close", "refund_load", "refund"}
    BY DEF IndInv, TypeOK, HandlersOK, Stage, PC, Consumers
  <2>2. CASE Settle
    <3> USE <2>1, <2>2 DEF tables, wallet
    <3>1. CASE CheckExisting
      BY <3>1 DEF CheckExisting
    <3>2. CASE MarkPositionsSettled
      BY <3>2 DEF MarkPositionsSettled
    <3>3. pc[Resolved] \notin {"load", "tally", "lock", "entries", "distribute", "pay"}
      BY <2>1
    <3>4. CASE LoadPositions \/ Tally \/ CreateSettlement \/ LockPositions \/ CreateEntries
      BY <3>3, <3>4 DEF LoadPositions, Tally, CreateSettlement, LockPositions, CreateEntries
    <3>5. CASE ListPendingEntries \/ DistributeFailed \/ CompleteSettlement
      BY <3>3, <3>5 DEF ListPendingEntries, DistributeFailed, CompleteSettlement
    <3>6. CASE \E u \in Users : SkipEntry(u) \/ CreditEntry(u) \/ MarkEntry(u)
      BY <3>3, <3>6 DEF SkipEntry, CreditEntry, MarkEntry
    <3> QED
      BY <2>2, <3>1, <3>2, <3>4, <3>5, <3>6 DEF Settle
  <2>3. CASE ConsumeOrderMatched \/ PostPosition
    BY <2>3 DEF ConsumeOrderMatched, PostPosition, RecordPosition, wallet
  <2>4. CASE \E o \in Outcomes : ReceiveResolved(o)
    BY <2>4 DEF ReceiveResolved, tables, wallet
  <2>5. CASE CollectInsuranceFee
    BY <2>5 DEF CollectInsuranceFee, tables
  <2>6. CASE \E c \in Consumers : ReceiveRefund(c) \/ Refund(c) \/ Abort(c)
    BY <2>6 DEF ReceiveRefund, Refund, LoadRefundable, RefundPosition,
       MarkPositionsRefunded, Abort, tables, wallet
  <2> QED
    BY <2>2, <2>3, <2>4, <2>5, <2>6 DEF Next
<1> QED
  BY <1>1, Invariance, PTL DEF Spec, CompletedIsFinal

\* Every step of the service is a step of the promise or leaves it alone.
LEMMA PromiseStep == IndInv /\ [Next]_vars => [Promise!Next]_(Promise!vars)
<1> DEFINE owed   == [u \in Users |-> entry[u].payout]
           closed == settlement.status = "completed"
<1> SUFFICES ASSUME IndInv, [Next]_vars
             PROVE  Promise!Next \/ UNCHANGED <<settlement.winner, owed, paidOut, closed>>
  BY DEF Promise!vars
<1> USE DEF tables, wallet
<1>1. CASE UNCHANGED <<settlement, entry, paidOut>>
  BY <1>1
<1>2. CASE CreateSettlement
  <2>1. /\ settlement.winner = "none" /\ settlement.status = "none" /\ want \in Outcomes
    BY <1>2 DEF IndInv, Stage, CreateSettlement, NoSettlement
  <2>2. settlement'.winner = want /\ settlement'.status = "processing"
    BY <1>2 DEF CreateSettlement
  <2>3. Promise!Decide(want)
    BY <1>2, <2>1, <2>2 DEF Promise!Decide, CreateSettlement
  <2> QED
    BY <2>1, <2>3 DEF Promise!Next
<1>3. CASE CreateEntries
  <2>1. /\ settlement.status = "processing" /\ settlement.winner \in Outcomes
        /\ \A u \in Users : entry[u] = NoEntry
    BY <1>3 DEF IndInv, Stage, CreateEntries
  <2>2. TablesOK'
    BY <1>3, EntriesStep DEF IndInv, TypeOK
  <2>3. owed = [u \in Users |-> 0] /\ owed' \in [Users -> Nat]
    BY <2>1, <2>2 DEF TablesOK, NoEntry
  <2>4. settlement.winner # "none"
    BY <2>1, SettlementAssumption
  <2>5. UNCHANGED <<settlement, paidOut>>
    BY <1>3 DEF CreateEntries
  <2>6. Promise!Owe
    BY <2>1, <2>3, <2>4, <2>5 DEF Promise!Owe, Promise!Zero
  <2> QED
    BY <2>6 DEF Promise!Next
<1>4. ASSUME NEW u \in Users, SkipEntry(u) \/ MarkEntry(u)
      PROVE  UNCHANGED <<settlement.winner, owed, paidOut, closed>>
  <2>1. \A v \in Users : entry'[v].payout = entry[v].payout
    <3>1. PICK s : entry' \in {entry, [entry EXCEPT ![u].status = s]}
      BY <1>4 DEF SkipEntry, MarkEntry
    <3> QED
      BY <3>1 DEF IndInv, TypeOK, TablesOK
  <2> QED
    BY <1>4, <2>1 DEF SkipEntry, MarkEntry
<1>5. ASSUME NEW u \in Users, CreditEntry(u)
      PROVE  Promise!Next \/ UNCHANGED <<settlement.winner, owed, paidOut, closed>>
  <2>1. settlement.status # "completed" /\ UNCHANGED <<settlement, entry>>
    BY <1>5 DEF IndInv, Stage, CreditEntry
  <2>2. CASE UNCHANGED paidOut
    BY <2>1, <2>2
  <2>3. CASE paidOut' = CreditOnce(paidOut, u, entry[u].payout) /\ paidOut[u] = 0
    <3>1. Promise!Give(u)
      BY <2>1, <2>3 DEF Promise!Give, CreditOnce
    <3> QED
      BY <3>1 DEF Promise!Next
  <2>4. CASE paidOut' = CreditOnce(paidOut, u, entry[u].payout) /\ paidOut[u] # 0
    <3>1. paidOut' = paidOut
      BY <2>4 DEF CreditOnce, IndInv, TypeOK, WalletOK
    <3> QED
      BY <2>1, <3>1
  <2> QED
    BY <1>5, <2>2, <2>3, <2>4 DEF CreditEntry
<1>6. CASE DistributeFailed
  <2>1. settlement.status # "completed"
    BY <1>6 DEF IndInv, Stage, DistributeFailed
  <2>2. settlement'.winner = settlement.winner /\ settlement'.status # "completed"
    BY <1>6, <2>1 DEF DistributeFailed, IndInv, TypeOK, TablesOK
  <2> QED
    BY <1>6, <2>1, <2>2 DEF DistributeFailed
<1>7. CASE CompleteSettlement
  <2>1. settlement.winner # "none"
    BY <1>7, SettlementAssumption DEF IndInv, Stage, CompleteSettlement
  <2>2. settlement'.winner = settlement.winner /\ settlement'.status = "completed"
    BY <1>7 DEF CompleteSettlement, IndInv, TypeOK, TablesOK
  <2>3. Promise!Close
    BY <1>7, <2>1, <2>2 DEF Promise!Close, CompleteSettlement
  <2> QED
    BY <2>3 DEF Promise!Next
<1>8. CASE CheckExisting \/ LoadPositions \/ Tally \/ LockPositions \/ ListPendingEntries
           \/ MarkPositionsSettled
  BY <1>1, <1>8 DEF CheckExisting, LoadPositions, Tally, LockPositions, ListPendingEntries,
     MarkPositionsSettled
<1>9. CASE ConsumeOrderMatched \/ PostPosition
           \/ (\E o \in Outcomes : ReceiveResolved(o)) \/ CollectInsuranceFee
  BY <1>1, <1>9 DEF ConsumeOrderMatched, PostPosition, RecordPosition, ReceiveResolved, CollectInsuranceFee
<1>10. CASE \E c \in Consumers : ReceiveRefund(c) \/ Refund(c) \/ Abort(c)
  BY <1>1, <1>10 DEF ReceiveRefund, Refund, LoadRefundable, RefundPosition,
     MarkPositionsRefunded, Abort
<1>11. CASE UNCHANGED vars
  BY <1>1, <1>11 DEF vars
<1> QED
  BY <1>2, <1>3, <1>4, <1>5, <1>6, <1>7, <1>8, <1>9, <1>10, <1>11 DEF Next, Settle

\* SettleMarket implements the promise: a winner decided once, what is owed
\* fixed once, each user given at most that and at most once, nothing after.
THEOREM PromiseKept == Spec => KeepsPromise
<1>1. Init => Promise!Init
  BY DEF Init, Promise!Init, Promise!Zero, NoSettlement, NoEntry
<1> QED
  BY <1>1, PromiseStep, Invariance, PTL DEF Spec, KeepsPromise, Promise!Spec

-----------------------------------------------------------------------------
(* The pool.                                                               *)

Owed == [u \in Users |-> entry[u].payout]

WinnersAmong(S, o) == {p \in S : p[2] = o}

\* The winning stake is the sum of the listed stakes on the winner.
Counted ==
    /\ pc[Resolved] # "tally" => winning = 0
    /\ pc[Resolved] = "tally" =>
         winning = SumFunctionOnSet(listed[Resolved],
                     WinnersAmong(DOMAIN listed[Resolved] \ untallied, want))
    /\ pc[Resolved] \in {"lock", "entries"} =>
         settlement.winning = SumFunctionOnSet(listed[Resolved],
                                WinnersAmong(DOMAIN listed[Resolved], settlement.winner))

\* The fee is set aside from the pool, and what is left is shared out.
Shared ==
    /\ settlement.net = settlement.total - ComputeInsuranceFee(settlement.total)
    /\ insurance <= ComputeInsuranceFee(settlement.total)
    /\ SumFunctionOnSet(Owed, Users) <= settlement.net

PoolInv == Counted /\ Shared

\* The listing of a consumer is a finite set of weighted positions.
LEMMA ListingWeighs ==
    ASSUME IndInv, NEW c \in Consumers, NEW S \in SUBSET (DOMAIN listed[c])
    PROVE  Weighs(listed[c], S)
<1>1. DOMAIN listed[c] \subseteq Positions /\ listed[c] \in [DOMAIN listed[c] -> Nat]
  BY DEF IndInv, TypeOK, HandlersOK, ListedOK
<1>2. IsFiniteSet(Positions)
  BY SettlementAssumption, FS_Product DEF Positions
<1>3. IsFiniteSet(S)
  BY <1>1, <1>2, FS_Subset
<1> QED
  BY <1>1, <1>3 DEF Weighs

\* The payouts of the entries are weights of the users.
LEMMA OwedWeighs == IndInv => Weighs(Owed, Users)
BY SettlementAssumption DEF IndInv, TypeOK, TablesOK, Owed, Weighs

\* Every step but three leaves the account of the pool alone.
LEMMA PoolUntouched ==
    ASSUME IndInv, [Next]_vars
    PROVE  \/ CreateSettlement \/ CreateEntries \/ CollectInsuranceFee
           \/ /\ settlement'.total = settlement.total /\ settlement'.net = settlement.net
              /\ settlement'.winning = settlement.winning
              /\ settlement'.winner = settlement.winner
              /\ insurance' = insurance /\ Owed' = Owed
<1> DEFINE Same == /\ settlement'.total = settlement.total
                   /\ settlement'.net = settlement.net
                   /\ settlement'.winning = settlement.winning
                   /\ settlement'.winner = settlement.winner
                   /\ insurance' = insurance /\ Owed' = Owed
<1> SUFFICES ASSUME ~(CreateSettlement \/ CreateEntries \/ CollectInsuranceFee)
             PROVE  Same
  OBVIOUS
<1>1. UNCHANGED <<settlement, entry, insurance>> => Same
  BY DEF Owed
<1> HIDE DEF Same
<1>2. CASE CheckExisting \/ LoadPositions \/ Tally \/ LockPositions \/ ListPendingEntries
           \/ MarkPositionsSettled
  BY <1>1, <1>2 DEF CheckExisting, LoadPositions, Tally, LockPositions, ListPendingEntries,
     MarkPositionsSettled, tables, wallet
<1>3. CASE ConsumeOrderMatched \/ PostPosition \/ \E o \in Outcomes : ReceiveResolved(o)
  BY <1>1, <1>3 DEF ConsumeOrderMatched, PostPosition, RecordPosition, ReceiveResolved,
     tables, wallet
<1>4. CASE \E c \in Consumers : ReceiveRefund(c) \/ Refund(c) \/ Abort(c)
  BY <1>1, <1>4 DEF ReceiveRefund, Refund, LoadRefundable, RefundPosition,
     MarkPositionsRefunded, Abort, tables, wallet
<1>5. ASSUME NEW u \in Users, CreditEntry(u) PROVE Same
  BY <1>1, <1>5 DEF CreditEntry, tables
<1>6. ASSUME NEW u \in Users, SkipEntry(u) \/ MarkEntry(u) PROVE Same
  <2>1. PICK s : entry' \in {entry, [entry EXCEPT ![u].status = s]}
    BY <1>6 DEF SkipEntry, MarkEntry
  <2>2. \A v \in Users : entry'[v].payout = entry[v].payout
    BY <2>1 DEF IndInv, TypeOK, TablesOK
  <2>3. UNCHANGED <<settlement, insurance>>
    BY <1>6 DEF SkipEntry, MarkEntry, wallet
  <2> QED
    BY <2>2, <2>3 DEF Owed, Same
<1>7. CASE DistributeFailed \/ CompleteSettlement
  <2>1. PICK s : settlement' \in {settlement, [settlement EXCEPT !.status = s]}
    BY <1>7 DEF DistributeFailed, CompleteSettlement
  <2>2. UNCHANGED <<entry, insurance>>
    BY <1>7 DEF DistributeFailed, CompleteSettlement, wallet
  <2> QED
    BY <2>1, <2>2 DEF Owed, IndInv, TypeOK, TablesOK, Same
<1>8. CASE UNCHANGED vars
  BY <1>1, <1>8 DEF vars, tables, wallet
<1> QED
  BY <1>2, <1>3, <1>4, <1>5, <1>6, <1>7, <1>8 DEF Next, Settle

\* What the loop over the listing counts.
LEMMA CountedStep ==
    ASSUME IndInv, PoolInv, [Next]_vars
    PROVE  Counted'
<1> DEFINE L == listed[Resolved]
           Kept == /\ UNCHANGED <<L, winning, want, untallied, settlement.winning,
                                  settlement.winner>>
                   /\ \/ UNCHANGED pc[Resolved]
                      \/ pc[Resolved] = "lock" /\ pc'[Resolved] = "entries"
           Past == pc'[Resolved] \notin {"tally", "lock", "entries"} /\ winning' = 0
<1>1. Kept => Counted'
  <2> SUFFICES ASSUME Kept PROVE Counted'
    OBVIOUS
  <2>1. PICK l, d, w : l = L /\ d = WinnersAmong(DOMAIN L \ untallied, want)
                       /\ w = WinnersAmong(DOMAIN L, settlement.winner)
    OBVIOUS
  <2>2. listed'[Resolved] = l /\ WinnersAmong(DOMAIN L \ untallied, want)' = d
        /\ WinnersAmong(DOMAIN L, settlement.winner)' = w
    BY <2>1 DEF WinnersAmong
  <2> QED
    BY <2>1, <2>2 DEF PoolInv, Counted
<1>2. Past => Counted'
  BY DEF Counted
<1> HIDE DEF Kept, Past
<1> USE DEF Resolved, Voided, Consumers
<1>3. pc \in [Consumers -> PC] /\ DOMAIN listed = Consumers
  BY DEF IndInv, TypeOK, HandlersOK
<1>4. pc[Resolved] # "tally" => winning = 0
  BY DEF PoolInv, Counted
<1>5. ASSUME Return(Resolved) PROVE Past
  BY <1>3, <1>5 DEF Return, Goto, Past
<1>6. CASE UNCHANGED <<settlement, pc, listed, want, tallies>>
  BY <1>1, <1>6 DEF tallies, Kept
<1>7. CASE \E u \in Users : SkipEntry(u) \/ CreditEntry(u) \/ MarkEntry(u)
  BY <1>6, <1>7 DEF SkipEntry, CreditEntry, MarkEntry, tables
<1>8. CASE ConsumeOrderMatched \/ PostPosition \/ CollectInsuranceFee
  BY <1>6, <1>8 DEF ConsumeOrderMatched, PostPosition, RecordPosition, CollectInsuranceFee,
     tables
<1>9. CASE (\E o \in Outcomes : ReceiveResolved(o)) \/ CheckExisting \/ ListPendingEntries
           \/ DistributeFailed \/ CompleteSettlement \/ MarkPositionsSettled
  <2>1. CASE Return(Resolved)
    BY <1>2, <1>5, <2>1
  <2>2. CASE ~Return(Resolved)
    <3>1. /\ pc[Resolved] # "tally" /\ UNCHANGED tallies
          /\ pc'[Resolved] \notin {"tally", "lock", "entries"}
      BY <1>3, <1>9, <2>2 DEF ReceiveResolved, CheckExisting, ListPendingEntries,
         DistributeFailed, CompleteSettlement, MarkPositionsSettled, locals, Goto
    <3> QED
      BY <1>2, <1>4, <3>1 DEF tallies, Past
  <2> QED
    BY <2>1, <2>2
<1>10. CASE LoadPositions
  <2>1. CASE Return(Resolved)
    BY <1>2, <1>5, <2>1
  <2>2. CASE ~Return(Resolved)
    <3>1. /\ pc'[Resolved] = "tally" /\ untallied' = DOMAIN listed'[Resolved]
          /\ winning' = 0
      BY <1>3, <1>4, <1>10, <2>2 DEF LoadPositions, Listing, Goto
    <3>2. WinnersAmong(DOMAIN L \ untallied, want)' = {}
      BY <3>1 DEF WinnersAmong
    <3> QED
      BY <3>1, <3>2, SumNone DEF Counted
  <2> QED
    BY <2>1, <2>2
<1>11. CASE Tally
  <2> DEFINE q == CHOOSE r \in untallied : TRUE
             S == WinnersAmong(DOMAIN L \ untallied, want)
  <2>1. /\ q \in untallied /\ q \in DOMAIN L
        /\ untallied' = untallied \ {q}
        /\ winning' = IF q[2] = want THEN winning + L[q] ELSE winning
        /\ UNCHANGED <<L, want>> /\ pc'[Resolved] = "tally" /\ pc[Resolved] = "tally"
    BY <1>11 DEF Tally, IndInv, Tallied
  <2> HIDE DEF q
  <2>2. winning = SumFunctionOnSet(L, S)
    BY <2>1 DEF PoolInv, Counted
  <2>3. q \notin S /\ S \subseteq DOMAIN L
    BY <2>1 DEF WinnersAmong
  <2>4. Weighs(L, S) /\ L[q] \in Nat
    BY <2>1, <2>3, ListingWeighs DEF Weighs, IndInv, TypeOK, HandlersOK, ListedOK
  <2>5. WinnersAmong(DOMAIN L \ untallied, want)' = IF q[2] = want THEN S \cup {q} ELSE S
    BY <2>1 DEF WinnersAmong
  <2>6. SumFunctionOnSet(L, S \cup {q}) = SumFunctionOnSet(L, S) + L[q]
    BY <2>3, <2>4, SumAdd
  <2> HIDE DEF S
  <2>7. PICK l : l = L /\ l = L'
    BY <2>1
  <2>8. winning' = SumFunctionOnSet(l, WinnersAmong(DOMAIN L \ untallied, want)')
    BY <2>1, <2>2, <2>5, <2>6, <2>7
  <2> QED
    BY <2>1, <2>7, <2>8 DEF Counted
<1>12. CASE CreateSettlement
  <2>1. /\ pc[Resolved] = "tally" /\ untallied = {} /\ pc'[Resolved] = "lock"
        /\ settlement'.winning = winning /\ settlement'.winner = want
        /\ winning' = 0 /\ UNCHANGED L
    BY <1>3, <1>12 DEF CreateSettlement, Goto
  <2>2. PICK l, w : l = L /\ w = WinnersAmong(DOMAIN L \ untallied, want)
    OBVIOUS
  <2>3. winning = SumFunctionOnSet(l, w)
    BY <2>1, <2>2 DEF PoolInv, Counted
  <2>4. listed'[Resolved] = l /\ WinnersAmong(DOMAIN L, settlement.winner)' = w
    BY <2>1, <2>2 DEF WinnersAmong
  <2> QED
    BY <2>1, <2>3, <2>4 DEF Counted
<1>13. CASE LockPositions
  <2>1. Kept
    BY <1>3, <1>13 DEF LockPositions, Goto, locals, tallies, Kept
  <2> QED
    BY <1>1, <2>1
<1>14. CASE CreateEntries
  <2>1. Past
    BY <1>3, <1>4, <1>14 DEF CreateEntries, Goto, tallies, Past
  <2> QED
    BY <1>2, <2>1
<1>15. ASSUME NEW c \in Consumers, ReceiveRefund(c) \/ Refund(c) \/ Abort(c)
       PROVE  Counted'
  <2>1. CASE c = Voided
    <3>1. UNCHANGED <<settlement, want, tallies>> /\ UNCHANGED <<pc[Resolved], L>>
      BY <1>3, <1>15, <2>1 DEF ReceiveRefund, Refund, LoadRefundable, RefundPosition,
         MarkPositionsRefunded, Abort, Return, Goto, tables, locals
    <3> QED
      BY <1>1, <3>1 DEF Kept, tallies
  <2>2. CASE c = Resolved
    <3>1. CASE Return(Resolved)
      BY <1>2, <1>5, <3>1
    <3>2. CASE ~Return(Resolved)
      <4>1. /\ pc[Resolved] # "tally" /\ UNCHANGED tallies
            /\ pc'[Resolved] \notin {"tally", "lock", "entries"}
        BY <1>3, <1>15, <2>2, <3>2 DEF ReceiveRefund, Refund, LoadRefundable, RefundPosition,
         MarkPositionsRefunded, Abort, locals, Goto
      <4> QED
        BY <1>2, <1>4, <4>1 DEF tallies, Past
    <3> QED
      BY <3>1, <3>2
  <2> QED
    BY <2>1, <2>2
<1>16. CASE UNCHANGED vars
  BY <1>6, <1>16 DEF vars, tables
<1> QED
  BY <1>7, <1>8, <1>9, <1>10, <1>11, <1>12, <1>13, <1>14, <1>15, <1>16 DEF Next, Settle

\* A common factor of an inequality is left out.
LEMMA Cancel ==
    ASSUME NEW a \in Nat, NEW n \in Nat, NEW b \in Nat, b > 0, a * b <= n * b
    PROVE  a <= n
<1> SUFFICES ASSUME a >= n + 1 PROVE FALSE
  OBVIOUS
<1>1. a * b >= (n + 1) * b
  OBVIOUS
<1>2. (n + 1) * b = n * b + b
  OBVIOUS
<1> QED
  BY <1>1, <1>2

\* A winner's share, times the winning stake, is within its stake's share.
LEMMA ShareScaled ==
    ASSUME NEW stake \in Nat, NEW winningStake \in Nat, NEW net \in Nat
    PROVE  /\ ComputePayout(stake, winningStake, net) \in Nat
           /\ ComputePayout(stake, winningStake, net) * winningStake <= net * stake
<1> DEFINE q == (stake * net) \div winningStake
<1>1. CASE winningStake = 0
  BY <1>1 DEF ComputePayout
<1>2. CASE winningStake > 0
  <2>1. stake * net \in Nat /\ stake * net = net * stake
    OBVIOUS
  <2>2. q \in Nat /\ winningStake * q <= stake * net
    BY <1>2, <2>1
  <2>3. ComputePayout(stake, winningStake, net) = q
    BY <1>2 DEF ComputePayout
  <2> HIDE DEF q
  <2>4. winningStake * q = q * winningStake
    BY <2>2
  <2> QED
    BY <2>1, <2>2, <2>3, <2>4
<1> QED
  BY <1>1, <1>2

\* One position of each user is entered, so the shares of the winners entered
\* add up to at most the net pool.
LEMMA EntriesShared ==
    ASSUME IndInv, PoolInv, CreateEntries
    PROVE  SumFunctionOnSet(Owed', Users) <= settlement.net
<1> DEFINE L == listed[Resolved]
           holders == {p[1] : p \in DOMAIN L}
           W == WinnersAmong(DOMAIN L, settlement.winner)
<1>1. PICK first \in [holders -> DOMAIN L] :
        /\ \A u \in holders : first[u][1] = u
        /\ entry' = [u \in Users |-> IF u \in holders /\ entry[u] = NoEntry
                                      THEN EntryOf(first[u], L[first[u]])
                                      ELSE entry[u]]
  BY DEF CreateEntries
<1>2. /\ pc[Resolved] = "entries" /\ \A u \in Users : entry[u] = NoEntry
      /\ settlement.winning = SumFunctionOnSet(L, W)
      /\ settlement.winning \in Nat /\ settlement.net \in Nat
  BY DEF CreateEntries, IndInv, Stage, TypeOK, TablesOK, PoolInv, Counted, Resolved
<1>3. DOMAIN L \subseteq Positions /\ \A p \in DOMAIN L : L[p] \in Nat
  BY DEF IndInv, TypeOK, HandlersOK, ListedOK, Consumers, Resolved
<1>4. W \subseteq DOMAIN L /\ Weighs(L, W)
  BY ListingWeighs DEF WinnersAmong, Consumers
<1> DEFINE H == {u \in holders : first[u] \in W}
           stake == [u \in H |-> L[first[u]]]
           owed == [u \in Users |-> entry'[u].payout]
<1>5. H \subseteq Users /\ IsFiniteSet(H)
  <2>1. H \subseteq Users
    BY <1>3 DEF Positions
  <2> QED
    BY <2>1, SettlementAssumption, FS_Subset
<1>6. ASSUME NEW u \in Users
      PROVE  /\ owed[u] \in Nat
             /\ u \notin H => owed[u] = 0
             /\ u \in H => owed[u] * settlement.winning <= settlement.net * stake[u]
             /\ settlement.winning = 0 => owed[u] = 0
  <2>1. CASE u \in holders
    <3>1. first[u] \in DOMAIN L /\ L[first[u]] \in Nat
      BY <1>1, <1>3, <2>1
    <3> DEFINE share == ComputePayout(L[first[u]], settlement.winning, settlement.net)
    <3>2. /\ share \in Nat
          /\ share * settlement.winning <= settlement.net * L[first[u]]
          /\ settlement.winning = 0 => share = 0
      BY <1>2, <3>1, ShareScaled DEF ComputePayout
    <3> HIDE DEF share
    <3>3. owed[u] = IF first[u][2] = settlement.winner THEN share ELSE 0
      BY <1>1, <1>2, <2>1 DEF EntryOf, share
    <3>4. u \in H <=> first[u][2] = settlement.winner
      BY <2>1, <3>1 DEF WinnersAmong
    <3>5. u \in H => stake[u] = L[first[u]]
      OBVIOUS
    <3> HIDE DEF H, stake, owed, holders, L
    <3> QED
      BY <3>2, <3>3, <3>4, <3>5
  <2>2. CASE u \notin holders
    <3>1. owed[u] = 0 /\ u \notin H
      BY <1>1, <1>2, <2>2 DEF NoEntry
    <3> QED
      BY <3>1
  <2> QED
    BY <2>1, <2>2
<1>7. Weighs(owed, Users) /\ Weighs(owed, H)
  BY <1>5, <1>6, SettlementAssumption DEF Weighs
<1>8. Owed' = owed
  BY DEF Owed
<1>9. first \in [holders -> DOMAIN L] /\ \A u \in holders : first[u][1] = u
  BY <1>1
<1>10. Weighs(stake, H)
  BY <1>3, <1>5, <1>9 DEF Weighs
<1>11. SumFunctionOnSet(stake, H) <= SumFunctionOnSet(L, W)
  <2> DEFINE f == [u \in H |-> first[u]]
  <2>1. f \in [H -> W]
    OBVIOUS
  <2>2. \A x, y \in H : f[x] = f[y] => x = y
    BY <1>9
  <2>3. \A x \in H : stake[x] <= L[f[x]]
    BY <1>3, <1>9
  <2> HIDE DEF f, H, W, stake
  <2> QED
    BY <1>4, <1>10, <2>1, <2>2, <2>3, SumMoved
<1>12. SumFunctionOnSet(owed, Users) <= SumFunctionOnSet(owed, H)
  <2> HIDE DEF owed, H, stake, L, W
  <2>1. \A x \in Users : owed[x] = 0 \/ (x \in H /\ owed[x] <= owed[x])
    <3> SUFFICES ASSUME NEW x \in Users, x \in H PROVE owed[x] <= owed[x]
      BY <1>6
    <3>1. owed[x] \in Nat
      BY <1>6
    <3> QED
      BY <3>1
  <2> QED
    BY <1>7, <2>1, SumGrows
<1> HIDE DEF owed, H, W, L, stake
<1>13. PICK a, b : a = SumFunctionOnSet(owed, H) /\ b = SumFunctionOnSet(stake, H)
  OBVIOUS
<1>14. a \in Nat /\ b \in Nat /\ SumFunctionOnSet(owed, Users) \in Nat
  BY <1>7, <1>10, <1>13, SumType
<1>15. CASE settlement.winning > 0
  <2>1. \A x \in H : owed[x] * settlement.winning <= settlement.net * stake[x]
    BY <1>5, <1>6
  <2>2. a * settlement.winning <= settlement.net * b
    BY <1>2, <1>7, <1>10, <1>13, <2>1, SumScaled
  <2>3. b <= settlement.winning
    BY <1>2, <1>11, <1>13
  <2>4. PICK n, k : n = settlement.net /\ k = settlement.winning
    OBVIOUS
  <2>5. n * b <= n * k
    BY <1>2, <1>14, <2>3, <2>4
  <2>6. a * k \in Nat /\ n * b \in Nat /\ n * k \in Nat
    BY <1>2, <1>14, <2>4
  <2>7. a * k <= n * k
    BY <2>2, <2>4, <2>5, <2>6
  <2>8. a <= n
    BY <1>2, <1>14, <1>15, <2>4, <2>7, Cancel
  <2> QED
    BY <1>2, <1>8, <1>12, <1>13, <1>14, <2>4, <2>8
<1>16. CASE settlement.winning = 0
  <2>1. PICK e : e = {}
    OBVIOUS
  <2>2. Weighs(owed, e) /\ SumFunctionOnSet(owed, e) = 0
    BY <2>1, SumNone, FS_EmptySet DEF Weighs
  <2>3. \A x \in Users : owed[x] = 0
    BY <1>6, <1>16, Zenon
  <2>4. SumFunctionOnSet(owed, Users) <= 0
    BY <1>7, <2>2, <2>3, SumGrows
  <2> QED
    BY <1>2, <1>8, <1>14, <2>4
<1> QED
  BY <1>2, <1>15, <1>16

\* The account of the pool is kept by the three steps that touch it.
LEMMA SharedStep ==
    ASSUME IndInv, PoolInv, [Next]_vars
    PROVE  Shared'
<1>1. CASE CreateSettlement
  <2>1. /\ settlement = NoSettlement /\ \A u \in Users : entry[u].payout = 0
        /\ UNCHANGED <<entry, insurance>> /\ settlement'.total = total /\ total \in Nat
        /\ settlement'.net = total - ComputeInsuranceFee(total)
    BY <1>1 DEF CreateSettlement, IndInv, Stage, TypeOK, HandlersOK, wallet, NoEntry,
       Resolved
  <2>2. insurance <= 0 /\ insurance \in Nat
    BY <2>1 DEF PoolInv, Shared, NoSettlement, ComputeInsuranceFee, InsuranceFeeBps,
       IndInv, TypeOK, WalletOK
  <2>3. ComputeInsuranceFee(total) \in Nat /\ total - ComputeInsuranceFee(total) \in Nat
    BY <2>1, FeeWithinPool
  <2>4. SumFunctionOnSet(Owed, Users) <= 0 /\ SumFunctionOnSet(Owed, Users) \in Nat
    <3>1. SumFunctionOnSet(Owed, Users) \in Nat
      BY OwedWeighs, SumType
    <3> QED
      BY <2>1, <3>1 DEF PoolInv, Shared, NoSettlement, ComputeInsuranceFee, InsuranceFeeBps
  <2>5. Owed' = Owed
    BY <2>1 DEF Owed
  <2> QED
    BY <2>1, <2>2, <2>3, <2>4, <2>5 DEF Shared
<1>2. CASE CreateEntries
  <2>1. UNCHANGED <<settlement, insurance>>
    BY <1>2 DEF CreateEntries, wallet
  <2> QED
    BY <1>2, <2>1, EntriesShared DEF PoolInv, Shared
<1>3. CASE CollectInsuranceFee
  <2>1. /\ UNCHANGED settlement /\ Owed' = Owed
        /\ insurance' \in {insurance, ComputeInsuranceFee(settlement.total)}
        /\ ComputeInsuranceFee(settlement.total) \in Nat
    BY <1>3, FeeWithinPool DEF CollectInsuranceFee, tables, Owed, IndInv, TypeOK, TablesOK
  <2> QED
    BY <2>1 DEF PoolInv, Shared
<1>4. CASE /\ settlement'.total = settlement.total /\ settlement'.net = settlement.net
           /\ insurance' = insurance /\ Owed' = Owed
  BY <1>4 DEF PoolInv, Shared
<1> QED
  BY <1>1, <1>2, <1>3, <1>4, PoolUntouched

\* An empty market owes nothing.
LEMMA PoolInit == Init => PoolInv
<1> SUFFICES ASSUME Init PROVE PoolInv
  OBVIOUS
<1>1. pc[Resolved] = "idle" /\ winning = 0 /\ settlement = NoSettlement /\ insurance = 0
      /\ \A u \in Users : entry[u] = NoEntry
  BY DEF Init, Consumers
<1>2. Counted
  BY <1>1 DEF Counted
<1>3. \A u \in Users : Owed[u] = 0
  BY <1>1 DEF Owed, NoEntry
<1>4. SumFunctionOnSet(Owed, Users) <= 0
  <2>1. PICK e, w : e = {} /\ w = Owed
    OBVIOUS
  <2>2. Weighs(w, e) /\ SumFunctionOnSet(w, e) = 0 /\ Weighs(w, Users)
    BY <1>3, <2>1, SumNone, FS_EmptySet, SettlementAssumption DEF Weighs
  <2>3. \A x \in Users : w[x] = 0 \/ (x \in e /\ w[x] <= w[x])
    BY <1>3, <2>1
  <2> QED
    BY <2>1, <2>2, <2>3, SumGrows
<1>5. Shared
  BY <1>1, <1>4 DEF Shared, NoSettlement, ComputeInsuranceFee, InsuranceFeeBps
<1> QED
  BY <1>2, <1>5 DEF PoolInv

\* What the wallet paid out and the fee it collected fit in the pool.
LEMMA PoolWithin == IndInv /\ PoolInv => PoolConserved
<1> SUFFICES ASSUME IndInv, PoolInv PROVE PoolConserved
  OBVIOUS
<1>1. \A u \in Users : /\ paidOut[u] \in Nat /\ Owed[u] \in Nat /\ paidOut[u] <= Owed[u]
  BY DEF Owed, IndInv, TypeOK, TablesOK, WalletOK, Answered, CreditedAsDecided
<1>2. PICK w, v : w = Owed /\ v = paidOut
  OBVIOUS
<1>3. Weighs(w, Users) /\ Weighs(v, Users) /\ \A u \in Users : v[u] <= w[u]
  BY <1>1, <1>2, SettlementAssumption DEF Weighs
<1>4. SumFunctionOnSet(v, Users) <= SumFunctionOnSet(w, Users)
  BY <1>3, SumGrows
<1>5. SumFunctionOnSet(v, Users) \in Nat /\ SumFunctionOnSet(w, Users) \in Nat
  BY <1>3, SumType
<1>6. SumFunction(paidOut) = SumFunctionOnSet(v, Users)
  BY <1>2 DEF SumFunction, IndInv, TypeOK, WalletOK
<1>7. /\ SumFunctionOnSet(w, Users) <= settlement.total - ComputeInsuranceFee(settlement.total)
      /\ insurance <= ComputeInsuranceFee(settlement.total)
      /\ insurance \in Nat /\ settlement.total \in Nat
      /\ ComputeInsuranceFee(settlement.total) \in Nat
  BY <1>2, FeeWithinPool DEF PoolInv, Shared, IndInv, TypeOK, TablesOK, WalletOK
<1> QED
  BY <1>4, <1>5, <1>6, <1>7 DEF PoolConserved

\* Payouts and the fee never exceed the pool, for any stakes.
THEOREM PoolKept == Spec => []PoolConserved
<1>1. IndInv /\ PoolInv /\ [Next]_vars => PoolInv'
  BY CountedStep, SharedStep DEF PoolInv
<1>2. Spec => []PoolInv
  BY <1>1, PoolInit, Invariance, PTL DEF Spec
<1> QED
  BY <1>2, PoolWithin, Invariance, PTL

-----------------------------------------------------------------------------
(* Refunds.                                                                *)

\* What a consumer has listed, and what a user got back, is at most the stake
\* of one of the user's positions.
RefundInv ==
    /\ \A c \in Consumers : \A p \in DOMAIN listed[c] : listed[c][p] <= position[p].stake
    /\ \A u \in Users : \/ refunded[u] = 0
                        \/ \E o \in Outcomes : refunded[u] <= position[<<u, o>>].stake

\* A stake never shrinks.
LEMMA StakesGrow ==
    ASSUME IndInv, [Next]_vars
    PROVE  \A p \in Positions : /\ position[p].stake \in Nat /\ position'[p].stake \in Nat
                                /\ position[p].stake <= position'[p].stake
<1>1. position \in [Positions -> [status : {"none", "open", "settling", "settled",
                                             "refunded"}, stake : Nat]]
  BY DEF IndInv, TypeOK, TablesOK
<1>2. CASE UNCHANGED position
  BY <1>1, <1>2
<1>3. ASSUME NEW new, NEW old, MovePositions(new, old)
      PROVE  \A p \in Positions : position'[p].stake = position[p].stake
  BY <1>1, <1>3 DEF MovePositions
<1>4. ASSUME NEW p \in Positions, NEW s \in Stakes, RecordPosition(p, s)
      PROVE  \A q \in Positions : /\ position'[q].stake \in Nat
                                   /\ position[q].stake <= position'[q].stake
  BY <1>1, <1>4, SettlementAssumption DEF RecordPosition, UpsertPosition
<1>5. CASE ConsumeOrderMatched \/ PostPosition
  BY <1>1, <1>4, <1>5 DEF ConsumeOrderMatched, PostPosition
<1>6. CASE LockPositions \/ MarkPositionsSettled \/ \E c \in Consumers : MarkPositionsRefunded(c)
  BY <1>1, <1>2, <1>3, <1>6 DEF LockPositions, MarkPositionsSettled, MarkPositionsRefunded
<1>7. CASE \/ CheckExisting \/ LoadPositions \/ Tally \/ CreateSettlement
           \/ CreateEntries \/ ListPendingEntries \/ DistributeFailed \/ CompleteSettlement
           \/ CollectInsuranceFee
           \/ \E u \in Users : SkipEntry(u) \/ CreditEntry(u) \/ MarkEntry(u)
  BY <1>2, <1>7 DEF CheckExisting, LoadPositions, Tally, CreateSettlement, CreateEntries,
     ListPendingEntries, DistributeFailed, CompleteSettlement, CollectInsuranceFee,
     SkipEntry, CreditEntry, MarkEntry, tables
<1>8. CASE \/ UNCHANGED vars
           \/ \E o \in Outcomes : ReceiveResolved(o)
           \/ \E c \in Consumers : \/ ReceiveRefund(c) \/ LoadRefundable(c) \/ Abort(c)
                                    \/ \E p \in Positions : RefundPosition(c, p)
  BY <1>2, <1>8 DEF vars, ReceiveResolved, ReceiveRefund, LoadRefundable, Abort,
     RefundPosition, tables
<1> QED
  BY <1>5, <1>6, <1>7, <1>8 DEF Next, Settle, Refund

\* A listing takes the stakes of the moment, shrinks or goes out of scope.
LEMMA ListedStep ==
    ASSUME IndInv, [Next]_vars, NEW c \in Consumers, NEW p \in DOMAIN listed'[c]
    PROVE  \/ p \in DOMAIN listed[c] /\ listed'[c][p] = listed[c][p]
           \/ p \in Positions /\ listed'[c][p] = position[p].stake
<1> USE DEF Consumers, Resolved, Voided
<1>1. DOMAIN listed = Consumers
  BY DEF IndInv, TypeOK, HandlersOK
<1>2. CASE UNCHANGED listed
  BY <1>2
<1>3. ASSUME NEW d \in Consumers, listed' = [listed EXCEPT ![d] = Nothing]
      PROVE  p \in DOMAIN listed[c] /\ listed'[c][p] = listed[c][p]
  BY <1>1, <1>3 DEF Nothing
<1>4. CASE \/ ConsumeOrderMatched \/ PostPosition \/ (\E o \in Outcomes : ReceiveResolved(o))
           \/ Tally \/ CreateSettlement \/ LockPositions \/ CollectInsuranceFee
           \/ ListPendingEntries \/ CompleteSettlement
           \/ \E u \in Users : SkipEntry(u) \/ CreditEntry(u) \/ MarkEntry(u)
           \/ \E d \in Consumers : ReceiveRefund(d)
           \/ UNCHANGED vars
  BY <1>2, <1>4 DEF ConsumeOrderMatched, PostPosition, RecordPosition, ReceiveResolved,
     Tally, CreateSettlement, LockPositions, CollectInsuranceFee, ListPendingEntries,
     CompleteSettlement, SkipEntry, CreditEntry, MarkEntry, ReceiveRefund, vars, locals
<1>5. CASE CheckExisting \/ CreateEntries \/ DistributeFailed \/ MarkPositionsSettled
           \/ \E d \in Consumers : MarkPositionsRefunded(d) \/ Abort(d)
  BY <1>2, <1>3, <1>5 DEF CheckExisting, CreateEntries, DistributeFailed,
     MarkPositionsSettled, MarkPositionsRefunded, Abort, Return, locals
<1>6. CASE LoadPositions
  <2>1. CASE Return(Resolved)
    BY <1>3, <2>1 DEF Return
  <2>2. CASE listed' = [listed EXCEPT ![Resolved] = Listing]
    BY <1>1, <2>2 DEF Listing, Existing
  <2> QED
    BY <1>6, <2>1, <2>2 DEF LoadPositions
<1>7. ASSUME NEW d \in Consumers, LoadRefundable(d)
      PROVE  \/ p \in DOMAIN listed[c] /\ listed'[c][p] = listed[c][p]
             \/ p \in Positions /\ listed'[c][p] = position[p].stake
  <2>1. CASE Return(d)
    BY <1>3, <2>1 DEF Return
  <2>2. CASE listed' = [listed EXCEPT ![d] = [q \in Refundable |-> position[q].stake]]
    BY <1>1, <2>2 DEF Refundable, Existing
  <2> QED
    BY <1>7, <2>1, <2>2 DEF LoadRefundable
<1>8. ASSUME NEW d \in Consumers, NEW q \in Positions, RefundPosition(d, q)
      PROVE  p \in DOMAIN listed[c] /\ listed'[c][p] = listed[c][p]
  BY <1>1, <1>8 DEF RefundPosition, Restrict
<1> QED
  BY <1>4, <1>5, <1>6, <1>7, <1>8 DEF Next, Settle, Refund

\* A refund is the stake the consumer has listed for a position of the user.
LEMMA RefundedOnce ==
    ASSUME IndInv, [Next]_vars, NEW u \in Users
    PROVE  \/ refunded'[u] = refunded[u]
           \/ \E c \in Consumers, p \in Positions :
                p \in DOMAIN listed[c] /\ p[1] = u /\ refunded'[u] = listed[c][p]
<1>1. CASE UNCHANGED refunded
  BY <1>1
<1>2. CASE \/ ConsumeOrderMatched \/ PostPosition \/ (\E o \in Outcomes : ReceiveResolved(o))
           \/ Settle \/ CollectInsuranceFee
  BY <1>1, <1>2 DEF ConsumeOrderMatched, PostPosition, RecordPosition, ReceiveResolved, Settle,
     CollectInsuranceFee, CheckExisting, LoadPositions, Tally, CreateSettlement,
     LockPositions, CreateEntries, ListPendingEntries, DistributeFailed,
     CompleteSettlement, MarkPositionsSettled, SkipEntry, CreditEntry, MarkEntry, wallet
<1>3. CASE \/ UNCHANGED vars
           \/ \E c \in Consumers : \/ ReceiveRefund(c) \/ LoadRefundable(c) \/ Abort(c)
                                    \/ MarkPositionsRefunded(c)
  BY <1>1, <1>3 DEF vars, ReceiveRefund, LoadRefundable, Abort, MarkPositionsRefunded, wallet
<1>4. ASSUME NEW c \in Consumers, NEW p \in Positions, RefundPosition(c, p)
      PROVE  \/ refunded'[u] = refunded[u]
             \/ p \in DOMAIN listed[c] /\ p[1] = u /\ refunded'[u] = listed[c][p]
  BY <1>4 DEF RefundPosition, CreditOnce, IndInv, TypeOK, WalletOK
<1> QED
  BY <1>2, <1>3, <1>4 DEF Next, Refund

\* Every step keeps the bounds of listings and refunds.
LEMMA RefundKept == IndInv /\ RefundInv /\ [Next]_vars => RefundInv'
<1> SUFFICES ASSUME IndInv, RefundInv, [Next]_vars PROVE RefundInv'
  OBVIOUS
<1>1. \A p \in Positions : /\ position[p].stake \in Nat /\ position'[p].stake \in Nat
                            /\ position[p].stake <= position'[p].stake
  BY StakesGrow
<1>2. \A c \in Consumers : \A p \in DOMAIN listed[c] :
        p \in Positions /\ listed[c][p] \in Nat /\ listed[c][p] <= position[p].stake
  BY DEF RefundInv, IndInv, TypeOK, HandlersOK, ListedOK
<1>3. ASSUME NEW c \in Consumers, NEW p \in DOMAIN listed'[c]
      PROVE  listed'[c][p] <= position'[p].stake
  BY <1>1, <1>2, ListedStep
<1>4. ASSUME NEW u \in Users
      PROVE  refunded'[u] = 0 \/ \E o \in Outcomes : refunded'[u] <= position'[<<u, o>>].stake
  <2>1. \A o \in Outcomes : <<u, o>> \in Positions
    BY DEF Positions
  <2>2. refunded[u] \in Nat
    BY DEF IndInv, TypeOK, WalletOK
  <2>3. CASE refunded'[u] = refunded[u]
    BY <1>1, <2>1, <2>2, <2>3 DEF RefundInv
  <2>4. ASSUME NEW c \in Consumers, NEW p \in Positions, p \in DOMAIN listed[c],
               p[1] = u, refunded'[u] = listed[c][p]
        PROVE  \E o \in Outcomes : refunded'[u] <= position'[<<u, o>>].stake
    <3>1. p[2] \in Outcomes /\ p = <<u, p[2]>>
      BY <2>4 DEF Positions
    <3>2. refunded'[u] <= position'[p].stake
      BY <1>1, <1>2, <2>4
    <3> QED
      BY <3>1, <3>2
  <2> QED
    BY <2>3, <2>4, RefundedOnce
<1> QED
  BY <1>3, <1>4 DEF RefundInv

\* A user is refunded at most what the user staked.
LEMMA RefundWithin == IndInv /\ RefundInv => RefundWithinStake
<1> SUFFICES ASSUME IndInv, RefundInv, NEW u \in Users
             PROVE  refunded[u] <= SumFunction([o \in Outcomes |-> position[<<u, o>>].stake])
  BY DEF RefundWithinStake
<1> DEFINE w == [o \in Outcomes |-> position[<<u, o>>].stake]
<1>1. Weighs(w, Outcomes)
  BY SettlementAssumption DEF Weighs, IndInv, TypeOK, TablesOK, Positions
<1>2. DOMAIN w = Outcomes /\ \A o \in Outcomes : w[o] = position[<<u, o>>].stake
  OBVIOUS
<1>3. refunded[u] \in Nat
  BY DEF IndInv, TypeOK, WalletOK
<1>4. refunded[u] = 0 \/ \E o \in Outcomes : refunded[u] <= w[o]
  BY <1>2 DEF RefundInv
<1> HIDE DEF w
<1>5. SumFunctionOnSet(w, Outcomes) \in Nat
  BY <1>1, SumType
<1>6. \A o \in Outcomes : w[o] \in Nat /\ w[o] <= SumFunctionOnSet(w, Outcomes)
  BY <1>1, SumElement DEF Weighs
<1>7. refunded[u] <= SumFunctionOnSet(w, Outcomes)
  BY <1>3, <1>4, <1>5, <1>6
<1> QED
  BY <1>2, <1>7 DEF SumFunction, w

\* Refunds stay within the stakes, whichever consumers refund the market.
THEOREM RefundsWithin == Spec => []RefundWithinStake
<1>1. Init => RefundInv
  BY DEF Init, RefundInv, Nothing
<1>2. Spec => []RefundInv
  BY <1>1, RefundKept, Invariance, PTL DEF Spec
<1> QED
  BY <1>2, RefundWithin, Invariance, PTL
=============================================================================
