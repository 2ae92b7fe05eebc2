--------------------------- MODULE MatchingProofs ---------------------------
(***************************************************************************)
(* Theorems of Matching: its types, the order in which orders match and    *)
(* trades are logged, and the account of every share submitted, for any    *)
(* orders, users, outcomes, AMM prices and bounds.                         *)
(*                                                                         *)
(* Numbers, Queues and Sums are lemmas on data: what Max, Retain and the   *)
(* sums over sets return.  An induction on a length or a cardinality is    *)
(* the search for a least counterexample (LeastNumber, SmallestSet).       *)
(* The invariant is Inv, with RestsOK on the order process_order works on  *)
(* and Apart on the two sides of the book; the book's steps are described  *)
(* once each (Matched, Added, Withdrew) and the invariants follow.         *)
(***************************************************************************)
EXTENDS Matching, TLAPS, FiniteSetTheorems

-----------------------------------------------------------------------------
(* Numbers *)

\* Every nonempty set of natural numbers has a least one.
LEMMA LeastNumber ==
    ASSUME NEW S \in SUBSET Nat, S # {}
    PROVE  \E n \in S : \A m \in S : n <= m
<1>1. PICK n \in S : \A m \in S : <<m, n>> \notin OpToRel(<, Nat)
  BY WFMin, NatLessThanWellFounded, Zenon
<1>2. \A m \in S : ~(m < n)
  BY <1>1, Zenon DEF OpToRel
<1> QED
  BY <1>2

LEMMA GreatestPrice ==
    ASSUME NEW S \in SUBSET (0..MaxPrice), S # {}
    PROVE  Max(S) \in S /\ \A x \in S : x <= Max(S)
<1> DEFINE D == {MaxPrice - x : x \in S}
<1>1. MaxPrice \in Nat
  BY OrdersAssumption
<1>2. \A x \in S : x \in Int /\ x <= MaxPrice /\ MaxPrice - x \in Nat
  <2> TAKE x \in S
  <2>1. x \in 0..MaxPrice
    OBVIOUS
  <2> QED
    BY <1>1, <2>1
<1>3. D \in SUBSET Nat /\ D # {}
  BY <1>2
<1>4. PICK n \in D : \A m \in D : n <= m
  BY <1>3, LeastNumber
<1>5. PICK y \in S : n = MaxPrice - y
  BY <1>4
<1>6. \A x \in S : y >= x
  <2> TAKE x \in S
  <2>1. MaxPrice - y <= MaxPrice - x
    BY <1>4, <1>5
  <2> QED
    BY <1>1, <1>2, <2>1
<1> HIDE DEF D
<1>7. Max(S) \in S /\ \A x \in S : Max(S) >= x
  BY <1>6 DEF Max
<1> QED
  BY <1>2, <1>7

-----------------------------------------------------------------------------
(* Queues *)

\* Retain goes through a queue from its front.
KeptFrom(queue, gone, n, f) == [k \in 0..n |->
    IF k = 0 THEN <<>>
    ELSE IF queue[k] \in gone THEN f[k - 1] ELSE Append(f[k - 1], queue[k])]

LEMMA KeptExists ==
    ASSUME NEW queue, NEW gone, NEW n \in Nat
    PROVE  \E f : f = KeptFrom(queue, gone, n, f)
<1> DEFINE Bad == {k \in Nat : ~ \E f : f = KeptFrom(queue, gone, k, f)}
<1> SUFFICES ASSUME Bad # {} PROVE FALSE
  OBVIOUS
<1>1. PICK m \in Bad : \A k \in Bad : m <= k
  BY LeastNumber
<1>2. m # 0
  <2>1. PICK f : f = [k \in 0..0 |-> <<>>]
    OBVIOUS
  <2>2. f = KeptFrom(queue, gone, 0, f)
    BY <2>1 DEF KeptFrom
  <2> QED
    BY <2>2
<1>3. m - 1 \in Nat /\ m - 1 \notin Bad
  BY <1>1, <1>2
<1>4. PICK f : f = KeptFrom(queue, gone, m - 1, f)
  BY <1>3
<1>5. PICK g : g = [k \in 0..m |->
          IF k < m THEN f[k]
          ELSE IF queue[k] \in gone THEN f[k - 1] ELSE Append(f[k - 1], queue[k])]
  OBVIOUS
<1>6. \A k \in 0..(m - 1) : f[k] = IF k = 0 THEN <<>>
          ELSE IF queue[k] \in gone THEN f[k - 1] ELSE Append(f[k - 1], queue[k])
  BY <1>3, <1>4 DEF KeptFrom
<1>7. \A k \in 0..m : g[k] = IF k = 0 THEN <<>>
          ELSE IF queue[k] \in gone THEN g[k - 1] ELSE Append(g[k - 1], queue[k])
  <2> SUFFICES ASSUME NEW k \in 0..m
               PROVE  g[k] = IF k = 0 THEN <<>> ELSE IF queue[k] \in gone THEN g[k - 1]
                             ELSE Append(g[k - 1], queue[k])
    OBVIOUS
  <2>1. CASE k < m
    <3>1. k \in 0..(m - 1) /\ g[k] = f[k] /\ (k # 0 => g[k - 1] = f[k - 1])
      BY <1>3, <1>5, <2>1
    <3> QED
      BY <1>6, <3>1
  <2>2. CASE k = m
    BY <1>2, <1>3, <1>5, <2>2
  <2> QED
    BY <2>1, <2>2
<1>8. g = KeptFrom(queue, gone, m, g)
  BY <1>5, <1>7 DEF KeptFrom
<1> QED
  BY <1>8

\* The orders Retain keeps are the queue's that are not gone, in the order of
\* their numbers if the queue was.
Ascending(queue) == \A i, j \in DOMAIN queue : i < j => queue[i].seq < queue[j].seq

KeptOf(queue, gone, k, q) ==
    /\ q \in Seq(RestingOrder)
    /\ \A i \in 1..Len(q) : \E j \in 1..k : q[i] = queue[j] /\ queue[j] \notin gone
    /\ \A j \in 1..k : queue[j] \notin gone => \E i \in 1..Len(q) : q[i] = queue[j]
    /\ Ascending(queue) => Ascending(q)

LEMMA KeptNext ==
    ASSUME NEW queue \in Seq(RestingOrder), NEW gone, NEW k \in 1..Len(queue), NEW q,
           KeptOf(queue, gone, k - 1, q)
    PROVE  KeptOf(queue, gone, k, IF queue[k] \in gone THEN q ELSE Append(q, queue[k]))
<1>1. /\ q \in Seq(RestingOrder) /\ Len(q) \in Nat /\ queue[k] \in RestingOrder
      /\ \A i \in 1..Len(q) : \E j \in 1..(k - 1) : q[i] = queue[j] /\ queue[j] \notin gone
      /\ \A j \in 1..(k - 1) : queue[j] \notin gone => \E i \in 1..Len(q) : q[i] = queue[j]
      /\ Ascending(queue) => Ascending(q)
  BY DEF KeptOf
<1>2. k \in Nat /\ \A j \in 1..k : j \in 1..(k - 1) \/ j = k
  OBVIOUS
<1>3. CASE queue[k] \in gone
  <2>1. KeptOf(queue, gone, k, q)
    BY <1>1, <1>2, <1>3 DEF KeptOf
  <2> QED
    BY <1>3, <2>1
<1>4. CASE queue[k] \notin gone
  <2>1. PICK x : x = Append(q, queue[k])
    OBVIOUS
  <2>2. /\ x \in Seq(RestingOrder) /\ Len(x) = Len(q) + 1
        /\ x[Len(q) + 1] = queue[k] /\ \A i \in 1..Len(q) : x[i] = q[i]
    BY <1>1, <2>1
  <2>3. \A i \in 1..Len(x) : i \in 1..Len(q) \/ i = Len(q) + 1
    BY <1>1, <2>2
  <2>4. \A i \in 1..Len(x) : \E j \in 1..k : x[i] = queue[j] /\ queue[j] \notin gone
    <3> SUFFICES ASSUME NEW i \in 1..Len(x)
                 PROVE  \E j \in 1..k : x[i] = queue[j] /\ queue[j] \notin gone
      OBVIOUS
    <3>1. CASE i \in 1..Len(q)
      <4>1. PICK j \in 1..(k - 1) : q[i] = queue[j] /\ queue[j] \notin gone
        BY <1>1, <3>1
      <4>2. j \in 1..k /\ x[i] = queue[j]
        BY <1>2, <2>2, <3>1, <4>1
      <4> QED
        BY <4>1, <4>2
    <3>2. CASE i = Len(q) + 1
      <4>1. k \in 1..k
        BY <1>2
      <4> QED
        BY <1>4, <2>2, <3>2, <4>1
    <3> QED
      BY <2>3, <3>1, <3>2
  <2>5. \A j \in 1..k : queue[j] \notin gone => \E i \in 1..Len(x) : x[i] = queue[j]
    <3>1. \A i \in 1..Len(q) : i \in 1..Len(x)
      BY <1>1, <2>2
    <3>2. Len(q) + 1 \in 1..Len(x)
      BY <1>1, <2>2
    <3> QED
      BY <1>1, <1>2, <2>2, <3>1, <3>2
  <2>6. ASSUME Ascending(queue) PROVE Ascending(x)
    <3> SUFFICES ASSUME NEW i \in 1..Len(x), NEW j \in 1..Len(x), i < j
                 PROVE  x[i].seq < x[j].seq
      BY <2>2 DEF Ascending
    <3>1. CASE j \in 1..Len(q)
      <4>1. i \in 1..Len(q) /\ Ascending(q)
        BY <1>1, <2>3, <2>6, <3>1
      <4>2. i \in DOMAIN q /\ j \in DOMAIN q
        <5>1. DOMAIN q = 1..Len(q)
          BY <1>1
        <5> QED
          BY <3>1, <4>1, <5>1
      <4>3. q[i].seq < q[j].seq
        BY <4>1, <4>2 DEF Ascending
      <4> QED
        BY <2>2, <3>1, <4>1, <4>3
    <3>2. CASE j = Len(q) + 1
      <4>1. i \in 1..Len(q)
        BY <1>1, <2>3, <3>2
      <4>2. PICK h \in 1..(k - 1) : q[i] = queue[h]
        BY <1>1, <4>1
      <4>3. queue[h].seq < queue[k].seq
        <5>1. h \in DOMAIN queue /\ k \in DOMAIN queue /\ h < k
          BY <1>2
        <5> QED
          BY <2>6, <5>1 DEF Ascending
      <4> QED
        BY <2>2, <3>2, <4>1, <4>2, <4>3
    <3> QED
      BY <2>3, <3>1, <3>2
  <2>7. KeptOf(queue, gone, k, x)
    BY <2>2, <2>4, <2>5, <2>6 DEF KeptOf
  <2> QED
    BY <1>4, <2>1, <2>7
<1> QED
  BY <1>3, <1>4

LEMMA RetainKeeps ==
    ASSUME NEW queue \in Seq(RestingOrder), NEW gone
    PROVE  KeptOf(queue, gone, Len(queue), Retain(queue, gone))
<1> DEFINE K == CHOOSE f : f = KeptFrom(queue, gone, Len(queue), f)
<1>1. K = KeptFrom(queue, gone, Len(queue), K)
  BY KeptExists
<1>2. Retain(queue, gone) = K[Len(queue)]
  BY DEF Retain, KeptFrom
<1> HIDE DEF K
<1>3. Len(queue) \in Nat
  OBVIOUS
<1>4. \A k \in 0..Len(queue) : K[k] =
          IF k = 0 THEN <<>>
          ELSE IF queue[k] \in gone THEN K[k - 1] ELSE Append(K[k - 1], queue[k])
  BY <1>1, Zenon DEF KeptFrom
<1>5. KeptOf(queue, gone, 0, K[0])
  <2>1. K[0] = <<>>
    BY <1>3, <1>4
  <2>2. KeptOf(queue, gone, 0, <<>>)
    BY DEF KeptOf, Ascending
  <2> QED
    BY <2>1, <2>2
<1> DEFINE Bad == {k \in 0..Len(queue) : ~KeptOf(queue, gone, k, K[k])}
<1>6. Bad = {}
  <2> SUFFICES ASSUME Bad # {} PROVE FALSE
    OBVIOUS
  <2>1. Bad \in SUBSET Nat
    BY <1>3
  <2>2. PICK m \in Bad : \A k \in Bad : m <= k
    BY <2>1, LeastNumber
  <2>3. m # 0 /\ m \in 0..Len(queue)
    BY <1>5
  <2>4. m - 1 \in 0..Len(queue) /\ m - 1 \notin Bad /\ m \in 1..Len(queue)
    BY <1>3, <2>2, <2>3
  <2>5. KeptOf(queue, gone, m - 1, K[m - 1])
    BY <2>4
  <2>6. ~KeptOf(queue, gone, m, K[m])
    OBVIOUS
  <2> HIDE DEF Bad
  <2>7. K[m] = IF queue[m] \in gone THEN K[m - 1] ELSE Append(K[m - 1], queue[m])
    BY <1>3, <1>4, <2>4
  <2> QED
    BY <2>4, <2>5, <2>6, <2>7, KeptNext
<1>7. Len(queue) \in 0..Len(queue) /\ Len(queue) \notin Bad
  BY <1>3, <1>6
<1> QED
  BY <1>2, <1>7
-----------------------------------------------------------------------------
(* Sums *)

\* Among some subsets of a finite set there is a smallest one.
LEMMA SmallestSet ==
    ASSUME NEW S, IsFiniteSet(S), NEW B \in SUBSET (SUBSET S), B # {}
    PROVE  \E T \in B : IsFiniteSet(T) /\ \A U \in B : Cardinality(T) <= Cardinality(U)
<1> DEFINE C == {Cardinality(T) : T \in B}
<1>1. \A T \in B : IsFiniteSet(T) /\ Cardinality(T) \in Nat
  BY FS_Subset, FS_CardinalityType
<1>2. C \in SUBSET Nat /\ C # {}
  BY <1>1
<1>3. PICK n \in C : \A m \in C : n <= m
  BY <1>2, LeastNumber
<1>4. PICK T \in B : n = Cardinality(T)
  OBVIOUS
<1>5. \A U \in B : Cardinality(U) \in C
  OBVIOUS
<1> QED
  BY <1>1, <1>3, <1>4, <1>5

Pick(s) == CHOOSE x \in s : TRUE

\* A sum of weights takes the elements of a set out one by one.
SummedUp(D, w, f) == [s \in D |-> IF s = {} THEN 0
                                  ELSE w[Pick(s)] + f[s \ {Pick(s)}]]

UpTo(S, n) == {s \in SUBSET S : Cardinality(s) <= n}

LEMMA PickOne ==
    ASSUME NEW S, IsFiniteSet(S), S # {}
    PROVE  /\ Pick(S) \in S /\ IsFiniteSet(S \ {Pick(S)})
           /\ Cardinality(S \ {Pick(S)}) = Cardinality(S) - 1 /\ Cardinality(S) \in Nat
<1>1. Pick(S) \in S
  BY DEF Pick
<1> QED
  BY <1>1, FS_RemoveElement, FS_CardinalityType

LEMMA SumsUpTo ==
    ASSUME NEW S, IsFiniteSet(S), NEW w, NEW n \in Nat
    PROVE  \E f : f = SummedUp(UpTo(S, n), w, f)
<1> DEFINE Bad == {k \in Nat : ~ \E f : f = SummedUp(UpTo(S, k), w, f)}
<1> SUFFICES ASSUME Bad # {} PROVE FALSE
  OBVIOUS
<1>1. PICK m \in Bad : \A k \in Bad : m <= k
  BY LeastNumber
<1>2. \A s \in SUBSET S : IsFiniteSet(s) /\ Cardinality(s) \in Nat
  BY FS_Subset, FS_CardinalityType
<1>3. m # 0
  <2>1. PICK f : f = [s \in UpTo(S, 0) |-> 0]
    OBVIOUS
  <2>2. \A s \in UpTo(S, 0) : s = {}
    BY <1>2, FS_EmptySet DEF UpTo
  <2>3. f = SummedUp(UpTo(S, 0), w, f)
    BY <2>1, <2>2 DEF SummedUp
  <2> QED
    BY <2>3
<1>4. m - 1 \in Nat /\ m - 1 \notin Bad
  BY <1>1, <1>3
<1>5. PICK f : f = SummedUp(UpTo(S, m - 1), w, f)
  BY <1>4
<1>6. PICK g : g = [s \in UpTo(S, m) |-> IF s = {} THEN 0
                                         ELSE w[Pick(s)] + f[s \ {Pick(s)}]]
  OBVIOUS
<1>7. \A s \in UpTo(S, m - 1) : s \in UpTo(S, m) /\ g[s] = f[s]
  <2>1. \A s \in UpTo(S, m - 1) : s \in UpTo(S, m)
    BY <1>2, <1>4 DEF UpTo
  <2> QED
    BY <1>5, <1>6, <2>1 DEF SummedUp
<1>8. \A s \in UpTo(S, m) : s # {} => s \ {Pick(s)} \in UpTo(S, m - 1)
  <2> SUFFICES ASSUME NEW s \in UpTo(S, m), s # {} PROVE s \ {Pick(s)} \in UpTo(S, m - 1)
    OBVIOUS
  <2>1. s \in SUBSET S /\ Cardinality(s) <= m
    BY DEF UpTo
  <2>2. Cardinality(s \ {Pick(s)}) = Cardinality(s) - 1 /\ Cardinality(s) \in Nat
    BY <1>2, <2>1, PickOne
  <2>3. Cardinality(s \ {Pick(s)}) <= m - 1
    BY <1>4, <2>1, <2>2
  <2> QED
    BY <2>1, <2>3 DEF UpTo
<1>9. g = SummedUp(UpTo(S, m), w, g)
  BY <1>6, <1>7, <1>8 DEF SummedUp
<1> QED
  BY <1>9

LEMMA SumsExist ==
    ASSUME NEW S, IsFiniteSet(S), NEW w
    PROVE  \E f : f = SummedUp(SUBSET S, w, f)
<1>1. UpTo(S, Cardinality(S)) = SUBSET S
  BY FS_Subset DEF UpTo
<1> QED
  BY <1>1, FS_CardinalityType, SumsUpTo

LEMMA SumsAgree ==
    ASSUME NEW S, NEW T, IsFiniteSet(S), T \subseteq S,
           NEW w, NEW v, \A x \in T : w[x] = v[x],
           NEW f, NEW g, f = SummedUp(SUBSET S, w, f), g = SummedUp(SUBSET T, v, g)
    PROVE  f[T] = g[T]
<1> DEFINE Bad == {s \in SUBSET T : f[s] # g[s]}
<1> SUFFICES ASSUME Bad # {} PROVE FALSE
  OBVIOUS
<1>1. Bad \in SUBSET (SUBSET S)
  OBVIOUS
<1>2. PICK s \in Bad : IsFiniteSet(s) /\ \A u \in Bad : Cardinality(s) <= Cardinality(u)
  BY <1>1, SmallestSet
<1>3. s \in SUBSET S /\ s \in SUBSET T /\ f[s] # g[s]
  OBVIOUS
<1>4. \A u \in SUBSET T :
         /\ f[u] = IF u = {} THEN 0 ELSE w[Pick(u)] + f[u \ {Pick(u)}]
         /\ g[u] = IF u = {} THEN 0 ELSE v[Pick(u)] + g[u \ {Pick(u)}]
  <2>1. \A u \in SUBSET S : f[u] = IF u = {} THEN 0 ELSE w[Pick(u)] + f[u \ {Pick(u)}]
    BY Zenon DEF SummedUp
  <2>2. \A u \in SUBSET T : g[u] = IF u = {} THEN 0 ELSE v[Pick(u)] + g[u \ {Pick(u)}]
    BY Zenon DEF SummedUp
  <2> QED
    BY <2>1, <2>2
<1>5. s # {}
  BY <1>3, <1>4
<1>6. s \ {Pick(s)} \in SUBSET T /\ s \ {Pick(s)} \notin Bad
  <2>1. PICK u : u = s \ {Pick(s)}
    OBVIOUS
  <2>2. Cardinality(u) = Cardinality(s) - 1 /\ Cardinality(s) \in Nat
    BY <1>2, <1>5, <2>1, PickOne
  <2>3. ~(Cardinality(s) <= Cardinality(u))
    BY <2>2
  <2>4. u \notin Bad
    BY <1>2, <2>3
  <2> QED
    BY <1>3, <2>1, <2>4
<1>7. f[s \ {Pick(s)}] = g[s \ {Pick(s)}]
  BY <1>6
<1>8. w[Pick(s)] = v[Pick(s)]
  BY <1>2, <1>3, <1>5, PickOne
<1> QED
  BY <1>3, <1>4, <1>5, <1>7, <1>8

Total(w, S) == (CHOOSE f : f = SummedUp(SUBSET S, w, f))[S]

\* The sum over a set is its pick's weight and the sum over the others.
LEMMA TotalPick ==
    ASSUME NEW S, IsFiniteSet(S), NEW w
    PROVE  /\ S = {} => Total(w, S) = 0
           /\ S # {} => Total(w, S) = w[Pick(S)] + Total(w, S \ {Pick(S)})
<1> DEFINE F(s) == CHOOSE f : f = SummedUp(SUBSET s, w, f)
<1>1. \A s : Total(w, s) = F(s)[s]
  BY DEF Total
<1>2. \A s : IsFiniteSet(s) => F(s) = SummedUp(SUBSET s, w, F(s))
  BY SumsExist
<1> HIDE DEF F
<1>3. F(S)[S] = IF S = {} THEN 0 ELSE w[Pick(S)] + F(S)[S \ {Pick(S)}]
  <2>1. F(S) = SummedUp(SUBSET S, w, F(S)) /\ S \in SUBSET S
    BY <1>2
  <2> QED
    BY <2>1, Zenon DEF SummedUp
<1>4. ASSUME S # {} PROVE F(S)[S \ {Pick(S)}] = F(S \ {Pick(S)})[S \ {Pick(S)}]
  <2>1. PICK T : T = S \ {Pick(S)}
    OBVIOUS
  <2>2. IsFiniteSet(T) /\ T \subseteq S
    BY <1>4, <2>1, PickOne
  <2>3. PICK f, g : f = F(S) /\ g = F(T)
    OBVIOUS
  <2>4. f = SummedUp(SUBSET S, w, f) /\ g = SummedUp(SUBSET T, w, g)
    BY <1>2, <2>2, <2>3
  <2>5. f[T] = g[T]
    BY <2>2, <2>4, SumsAgree
  <2> QED
    BY <2>1, <2>3, <2>5
<1> QED
  BY <1>1, <1>3, <1>4

\* Only the weights of a set's own elements count.
LEMMA TotalSame ==
    ASSUME NEW S, IsFiniteSet(S), NEW w, NEW v, \A x \in S : w[x] = v[x]
    PROVE  Total(w, S) = Total(v, S)
<1>1. PICK f : f = CHOOSE h : h = SummedUp(SUBSET S, w, h)
  OBVIOUS
<1>2. PICK g : g = CHOOSE h : h = SummedUp(SUBSET S, v, h)
  OBVIOUS
<1>3. f = SummedUp(SUBSET S, w, f) /\ g = SummedUp(SUBSET S, v, g)
  BY <1>1, <1>2, SumsExist
<1>4. f[S] = g[S]
  BY <1>3, SumsAgree
<1> QED
  BY <1>1, <1>2, <1>4 DEF Total

LEMMA TotalType ==
    ASSUME NEW S, IsFiniteSet(S), NEW w, \A x \in S : w[x] \in Nat
    PROVE  Total(w, S) \in Nat
<1> DEFINE Bad == {T \in SUBSET S : Total(w, T) \notin Nat}
<1> SUFFICES ASSUME Bad # {} PROVE FALSE
  OBVIOUS
<1>1. Bad \in SUBSET (SUBSET S)
  OBVIOUS
<1>2. PICK T \in Bad : IsFiniteSet(T) /\ \A U \in Bad : Cardinality(T) <= Cardinality(U)
  BY <1>1, SmallestSet
<1>3. T # {}
  <2>1. T = {} => Total(w, T) = 0
    BY <1>2, TotalPick
  <2> QED
    BY <2>1
<1>4. PICK U : U = T \ {Pick(T)}
  OBVIOUS
<1>5. Pick(T) \in S /\ U \in SUBSET S /\ ~(Cardinality(T) <= Cardinality(U))
  <2>1. Pick(T) \in T /\ Cardinality(U) = Cardinality(T) - 1 /\ Cardinality(T) \in Nat
    BY <1>2, <1>3, <1>4, PickOne
  <2>2. T \in SUBSET S
    OBVIOUS
  <2>3. ~(Cardinality(T) <= Cardinality(U))
    BY <2>1
  <2> QED
    BY <1>4, <2>1, <2>2, <2>3
<1>6. Total(w, U) \in Nat
  BY <1>2, <1>5
<1>7. Total(w, T) = w[Pick(T)] + Total(w, U)
  BY <1>2, <1>3, <1>4, TotalPick
<1> QED
  BY <1>5, <1>6, <1>7

LEMMA TotalAdd ==
    ASSUME NEW W, IsFiniteSet(W), NEW w, \A x \in W : w[x] \in Nat,
           NEW S \in SUBSET W, NEW y \in W \ S
    PROVE  Total(w, S \cup {y}) = Total(w, S) + w[y]
<1> DEFINE Adds(T, x) == Total(w, T \cup {x}) = Total(w, T) + w[x]
           Bad == {T \in SUBSET W : \E x \in W \ T : ~Adds(T, x)}
<1> SUFFICES ASSUME Bad # {} PROVE FALSE
  OBVIOUS
<1>1. Bad \in SUBSET (SUBSET W)
  OBVIOUS
<1>2. PICK T \in Bad : IsFiniteSet(T) /\ \A U \in Bad : Cardinality(T) <= Cardinality(U)
  BY <1>1, SmallestSet
<1>3. PICK x \in W \ T : ~Adds(T, x)
  OBVIOUS
<1>4. PICK U, c : U = T \cup {x} /\ c = Pick(U)
  OBVIOUS
<1>5. IsFiniteSet(U) /\ U # {} /\ c \in U
  BY <1>2, <1>4, FS_AddElement, PickOne
<1>6. Total(w, U) = w[c] + Total(w, U \ {c})
  BY <1>4, <1>5, TotalPick
<1>7. \A V \in SUBSET W : Total(w, V) \in Nat
  BY TotalType, FS_Subset
<1>8. CASE c = x
  <2>1. U \ {c} = T
    BY <1>3, <1>4, <1>8
  <2> QED
    <3>1. Total(w, T) \in Nat /\ w[x] \in Nat
      BY <1>3, <1>7
    <3>2. Total(w, U) = w[x] + Total(w, T)
      BY <1>6, <1>8, <2>1
    <3>3. Total(w, T \cup {x}) = Total(w, T) + w[x]
      BY <1>4, <3>1, <3>2
    <3> QED
      BY <1>3, <3>3
<1>9. CASE c # x
  <2>1. PICK V : V = T \ {c}
    OBVIOUS
  <2>2. c \in T /\ V \in SUBSET W /\ V \cup {c} = T /\ U \ {c} = V \cup {x} /\ c \in W \ V
        /\ x \in W \ V
    BY <1>3, <1>4, <1>5, <1>9, <2>1
  <2>3. Cardinality(V) = Cardinality(T) - 1 /\ Cardinality(T) \in Nat
    BY <1>2, <2>1, <2>2, FS_RemoveElement, FS_CardinalityType
  <2>4. V \notin Bad
    BY <1>2, <2>3
  <2>5. Adds(V, x) /\ Adds(V, c)
    BY <2>2, <2>4
  <2>6. w[x] \in Nat /\ w[c] \in Nat /\ Total(w, V) \in Nat
    BY <1>3, <1>7, <2>2
  <2>7. /\ Total(w, U) = w[c] + Total(w, V \cup {x})
        /\ Total(w, V \cup {x}) = Total(w, V) + w[x]
        /\ Total(w, T) = Total(w, V) + w[c]
    BY <1>6, <2>2, <2>5
  <2>8. Total(w, T \cup {x}) = Total(w, T) + w[x]
    BY <1>4, <2>6, <2>7
  <2> QED
    BY <1>3, <2>8
<1> QED
  BY <1>8, <1>9

LEMMA TotalUnion ==
    ASSUME NEW W, IsFiniteSet(W), NEW w, \A x \in W : w[x] \in Nat,
           NEW A \in SUBSET W, NEW B \in SUBSET W, A \cap B = {}
    PROVE  Total(w, A \cup B) = Total(w, A) + Total(w, B)
<1> DEFINE Bad == {T \in SUBSET B : Total(w, A \cup T) # Total(w, A) + Total(w, T)}
<1> SUFFICES ASSUME Bad # {} PROVE FALSE
  OBVIOUS
<1>1. IsFiniteSet(B) /\ Bad \in SUBSET (SUBSET B)
  BY FS_Subset
<1>2. PICK T \in Bad : IsFiniteSet(T) /\ \A U \in Bad : Cardinality(T) <= Cardinality(U)
  BY <1>1, SmallestSet
<1>3. \A V \in SUBSET W : Total(w, V) \in Nat
  BY TotalType, FS_Subset
<1>4. T # {}
  <2>1. Total(w, {}) = 0
    BY FS_EmptySet, TotalPick
  <2>2. A \cup {} = A /\ Total(w, A) \in Nat
    BY <1>3
  <2> QED
    BY <2>1, <2>2
<1>5. PICK y, U : y = Pick(T) /\ U = T \ {y}
  OBVIOUS
<1>6. y \in T /\ U \in SUBSET B /\ ~(Cardinality(T) <= Cardinality(U)) /\ U \cup {y} = T
  <2>1. y \in T /\ Cardinality(U) = Cardinality(T) - 1 /\ Cardinality(T) \in Nat
    BY <1>2, <1>4, <1>5, PickOne
  <2> QED
    BY <1>5, <2>1
<1>7. Total(w, A \cup U) = Total(w, A) + Total(w, U)
  BY <1>2, <1>6
<1>8. y \in W \ U /\ y \in W \ (A \cup U) /\ A \cup U \in SUBSET W /\ U \in SUBSET W
  BY <1>5, <1>6
<1>9. Total(w, T) = Total(w, U) + w[y]
  BY <1>6, <1>8, TotalAdd
<1>10. Total(w, A \cup T) = Total(w, A \cup U) + w[y]
  <2>1. (A \cup U) \cup {y} = A \cup T
    BY <1>6
  <2>2. PICK V : V = A \cup U
    OBVIOUS
  <2>3. V \in SUBSET W /\ y \in W \ V
    BY <1>8, <2>2
  <2>4. Total(w, V \cup {y}) = Total(w, V) + w[y]
    BY <2>3, TotalAdd
  <2> QED
    BY <2>1, <2>2, <2>4
<1>11. Total(w, A) \in Nat /\ Total(w, U) \in Nat /\ w[y] \in Nat
  BY <1>3, <1>8
<1> QED
  BY <1>7, <1>9, <1>10, <1>11

\* What remains of resting orders, as a sum of weights.
Left == [o \in RestingOrder |-> o.remaining]

LEMMA RemainingTotal ==
    ASSUME NEW S, IsFiniteSet(S), S \subseteq RestingOrder
    PROVE  /\ Remaining(S) = Total(Left, S) /\ Remaining(S) \in Nat
           /\ \A o \in S : Left[o] = o.remaining /\ Left[o] \in Nat \ {0}
<1>1. \A o \in RestingOrder : Left[o] = o.remaining /\ Left[o] \in Nat \ {0}
  BY DEF Left, RestingOrder
<1> DEFINE Unfolded(f) == [s \in SUBSET S |-> IF s = {} THEN 0
                             ELSE Pick(s).remaining + f[s \ {Pick(s)}]]
<1>2. Remaining(S) = (CHOOSE f : f = Unfolded(f))[S]
  BY DEF Remaining, MapThenSumSet, MapThenFoldSet, Pick
<1>3. \A f : Unfolded(f) = SummedUp(SUBSET S, Left, f)
  <2> SUFFICES ASSUME NEW f PROVE Unfolded(f) = SummedUp(SUBSET S, Left, f)
    OBVIOUS
  <2>1. \A s \in SUBSET S : s # {} => Left[Pick(s)] = Pick(s).remaining
    BY <1>1 DEF Pick
  <2> QED
    BY <2>1 DEF SummedUp
<1> HIDE DEF Unfolded
<1>4. PICK f : f = CHOOSE h : h = Unfolded(h)
  OBVIOUS
<1>5. f = SummedUp(SUBSET S, Left, f)
  <2>1. \E g : g = SummedUp(SUBSET S, Left, g)
    BY SumsExist
  <2>2. \E g : g = Unfolded(g)
    BY <1>3, <2>1
  <2> QED
    BY <1>3, <1>4, <2>2
<1>6. PICK g : g = CHOOSE h : h = SummedUp(SUBSET S, Left, h)
  OBVIOUS
<1>7. g = SummedUp(SUBSET S, Left, g)
  BY <1>6, SumsExist
<1>8. f[S] = g[S]
  BY <1>5, <1>7, SumsAgree
<1>9. Total(Left, S) \in Nat
  BY <1>1, TotalType
<1> QED
  BY <1>1, <1>2, <1>4, <1>6, <1>8, <1>9 DEF Total

-----------------------------------------------------------------------------
(* Orders and levels *)

LEMMA LevelsBounded == Levels \subseteq 0..MaxPrice /\ IsFiniteSet(Levels)
<1>1. Levels \in SUBSET (0..MaxPrice)
  BY OrdersAssumption DEF Levels
<1>2. \A n \in Int : IsFiniteSet(0..n)
  BY FS_Interval
<1>3. MaxPrice \in Int
  BY OrdersAssumption
<1>4. IsFiniteSet(0..MaxPrice)
  BY <1>2, <1>3, Zenon
<1> QED
  BY <1>1, <1>4, FS_Subset

LEMMA OrderFields ==
    ASSUME NEW o \in Orders
    PROVE  /\ o.user \in Users /\ o.side \in Sides /\ o.outcome \in Outcomes
           /\ o.price \in Levels /\ o.price \in 0..MaxPrice /\ o.quantity \in Nat \ {0}
           /\ o.type \in {"LIMIT", "MARKET"}
  BY OrdersAssumption DEF Levels

RestIn(b, s) == UNION {ToSet(b[s][l]) : l \in Levels}

LEMMA RestInFinite ==
    ASSUME NEW s \in Sides, NEW b \in [Sides -> [Levels -> Seq(RestingOrder)]]
    PROVE  /\ IsFiniteSet(RestIn(b, s)) /\ RestIn(b, s) \subseteq RestingOrder
           /\ \A o : o \in RestIn(b, s) <=>
                \E l \in Levels : \E i \in 1..Len(b[s][l]) : o = b[s][l][i]
<1>1. \A l \in Levels : b[s][l] \in Seq(RestingOrder) /\ DOMAIN b[s][l] = 1..Len(b[s][l])
                        /\ Len(b[s][l]) \in Nat
  OBVIOUS
<1>2. \A l \in Levels : ToSet(b[s][l]) = {b[s][l][i] : i \in 1..Len(b[s][l])}
  BY <1>1 DEF ToSet
<1>3. \A l \in Levels : IsFiniteSet(ToSet(b[s][l]))
  <2> SUFFICES ASSUME NEW l \in Levels PROVE IsFiniteSet(ToSet(b[s][l]))
    OBVIOUS
  <2>1. IsFiniteSet(1..Len(b[s][l]))
    BY <1>1, FS_Interval
  <2>2. PICK f : f = [i \in 1..Len(b[s][l]) |-> b[s][l][i]]
    OBVIOUS
  <2>3. PICK q, T : q = b[s][l] /\ T = ToSet(b[s][l])
    OBVIOUS
  <2>4. T = {q[i] : i \in 1..Len(q)} /\ f = [i \in 1..Len(q) |-> q[i]]
    BY <1>2, <2>2, <2>3
  <2>5. f \in Surjection(1..Len(q), T)
    BY <2>4 DEF Surjection
  <2> QED
    BY <2>1, <2>3, <2>5, FS_Surjection
<1>4. PICK Q : Q = {ToSet(b[s][l]) : l \in Levels}
  OBVIOUS
<1>5. IsFiniteSet(Q)
  <2>1. PICK f : f = [l \in Levels |-> ToSet(b[s][l])]
    OBVIOUS
  <2>2. f \in Surjection(Levels, Q)
    BY <1>4, <2>1 DEF Surjection
  <2> QED
    BY <2>2, LevelsBounded, FS_Surjection
<1>6. IsFiniteSet(UNION Q)
  BY <1>3, <1>4, <1>5, FS_UNION
<1>7. \A o : o \in RestIn(b, s) <=>
        \E l \in Levels : \E i \in 1..Len(b[s][l]) : o = b[s][l][i]
  BY <1>2 DEF RestIn
<1>8. RestIn(b, s) \subseteq RestingOrder
  BY <1>1, <1>7
<1> QED
  BY <1>4, <1>6, <1>7, <1>8 DEF RestIn

LEMMA RestingFinite ==
    ASSUME NEW s \in Sides, book \in [Sides -> [Levels -> Seq(RestingOrder)]]
    PROVE  /\ IsFiniteSet(Resting(s)) /\ Resting(s) \subseteq RestingOrder
           /\ \A o : o \in Resting(s) <=>
                \E l \in Levels : \E i \in 1..Len(book[s][l]) : o = book[s][l][i]
<1>1. Resting(s) = RestIn(book, s)
  BY DEF Resting, RestIn
<1> QED
  BY <1>1, RestInFinite

\* What a user has resting, and any part of it, sums to a number.
LEMMA RemainingOfUser ==
    ASSUME book \in [Sides -> [Levels -> Seq(RestingOrder)]],
           NEW u, NEW S \in SUBSET RestingOf(u)
    PROVE  Remaining(S) \in Nat
<1>1. "YES" \in Sides /\ "NO" \in Sides
  BY DEF Sides
<1>2. IsFiniteSet(Resting("YES") \cup Resting("NO"))
  BY <1>1, RestingFinite, FS_Union
<1>3. S \subseteq Resting("YES") \cup Resting("NO")
  BY DEF RestingOf
<1>4. IsFiniteSet(S)
  BY <1>2, <1>3, FS_Subset
<1>5. S \subseteq RestingOrder
  BY <1>1, <1>3, RestingFinite
<1> QED
  BY <1>4, <1>5, RemainingTotal

\* Where a side is open its best price is one of its levels, and no open level
\* is better.
LEMMA BestOpen ==
    ASSUME NEW s \in Sides, Open(s) # {}
    PROVE  /\ Best(s) \in Open(s) /\ Best(s) \in Levels /\ Best(s) \in 0..MaxPrice
           /\ \A l \in Open(s) : l <= Best(s)
<1>1. Open(s) \in SUBSET (0..MaxPrice) /\ Open(s) \subseteq Levels
  BY LevelsBounded DEF Open
<1>2. Max(Open(s)) \in Open(s) /\ \A l \in Open(s) : l <= Max(Open(s))
  BY <1>1, GreatestPrice
<1> QED
  BY <1>1, <1>2 DEF Best

-----------------------------------------------------------------------------
(* The invariant *)

\* A level's orders have its price, and rest in the order of their numbers.
BookOK ==
    \A s \in Sides, l \in Levels :
        /\ Ascending(book[s][l])
        /\ \A i \in 1..Len(book[s][l]) : book[s][l][i].price = l /\ book[s][l][i].seq <= seq

\* While it is worked on, an order has its fields, and the AMM could sell it.
CurOK ==
    /\ phase \in {"matching", "fallback"} =>
         /\ \E o \in Orders, n \in 1..seq : cur = Numbered(o, n)
         /\ shares[cur.outcome] + cur.quantity <= MaxShares
    /\ phase = "fallback" => filled < cur.quantity

\* No CLOB trade has the number the next one will take.
Numbers ==
    \A i \in DOMAIN trades : trades[i].type = "clob" => trades[i].seq < seq

Inv == TypeOK /\ BookOK /\ CurOK /\ Numbers /\ ClobTradesOrdered /\ Uncrossed

LEMMA CurFields ==
    ASSUME CurOK, seq \in Nat, phase \in {"matching", "fallback"}
    PROVE  /\ cur.user \in Users /\ cur.side \in Sides /\ cur.outcome \in Outcomes
           /\ cur.price \in Levels /\ cur.price \in 0..MaxPrice /\ cur.quantity \in Nat \ {0}
           /\ cur.seq \in 1..seq /\ shares[cur.outcome] + cur.quantity <= MaxShares
<1>1. PICK o \in Orders, n \in 1..seq : cur = Numbered(o, n)
  BY DEF CurOK
<1>2. /\ cur.user = o.user /\ cur.side = o.side /\ cur.outcome = o.outcome
      /\ cur.price = o.price /\ cur.quantity = o.quantity /\ cur.seq = n
  BY <1>1 DEF Numbered
<1> QED
  BY <1>2, OrderFields DEF CurOK

-----------------------------------------------------------------------------
(* A match *)

FrontOf(s) == Head(book[s][Best(s)])
Quantity == Min({FrontOf("YES").remaining, FrontOf("NO").remaining})

\* The orders a match takes from, and what it takes.
LEMMA FrontsMeet ==
    ASSUME TypeOK, BookOK, Crosses, NEW s \in Sides
    PROVE  /\ Best(s) \in Levels /\ Best(s) \in 0..MaxPrice
           /\ book[s][Best(s)] \in Seq(RestingOrder) /\ book[s][Best(s)] # <<>>
           /\ FrontOf(s) = book[s][Best(s)][1] /\ FrontOf(s) \in RestingOrder
           /\ FrontOf(s).price = Best(s) /\ FrontOf(s).seq <= seq
           /\ Quantity \in Nat \ {0} /\ Quantity <= FrontOf(s).remaining
<1>1. \A t \in Sides : Open(t) # {}
  BY DEF Crosses, BothSides, Sides
<1>2. \A t \in Sides : Best(t) \in Levels /\ Best(t) \in 0..MaxPrice /\ book[t][Best(t)] # <<>>
  BY <1>1, BestOpen DEF Open
<1>3. \A t \in Sides : book[t][Best(t)] \in Seq(RestingOrder)
  BY <1>2 DEF TypeOK
<1>4. \A t \in Sides : /\ FrontOf(t) = book[t][Best(t)][1] /\ FrontOf(t) \in RestingOrder
                       /\ 1 \in 1..Len(book[t][Best(t)])
  <2> SUFFICES ASSUME NEW t \in Sides, NEW q, q = book[t][Best(t)]
               PROVE  Head(q) = q[1] /\ q[1] \in RestingOrder /\ 1 \in 1..Len(q)
    BY DEF FrontOf
  <2>1. q \in Seq(RestingOrder) /\ q # <<>>
    BY <1>2, <1>3
  <2> QED
    BY <2>1
<1>5. FrontOf(s).price = Best(s) /\ FrontOf(s).seq <= seq
  BY <1>2, <1>4 DEF BookOK
<1>6. /\ FrontOf("YES").remaining \in Nat \ {0} /\ FrontOf("NO").remaining \in Nat \ {0}
  BY <1>4 DEF RestingOrder, Sides
<1>7. /\ Quantity \in {FrontOf("YES").remaining, FrontOf("NO").remaining}
      /\ Quantity <= FrontOf("YES").remaining /\ Quantity <= FrontOf("NO").remaining
  <2> SUFFICES ASSUME NEW a \in Nat, NEW b \in Nat
               PROVE  Min({a, b}) \in {a, b} /\ Min({a, b}) <= a /\ Min({a, b}) <= b
    BY <1>6 DEF Quantity
  <2>1. \E x \in {a, b} : \A y \in {a, b} : x <= y
    OBVIOUS
  <2>2. Min({a, b}) \in {a, b} /\ \A y \in {a, b} : Min({a, b}) <= y
    BY <2>1 DEF Min
  <2> QED
    BY <2>2
<1>8. Quantity \in Nat \ {0} /\ Quantity <= FrontOf(s).remaining
  BY <1>6, <1>7 DEF Sides
<1> QED
  BY <1>2, <1>3, <1>4, <1>5, <1>8

\* What FillFront leaves of a queue.
FilledBy(queue, n, q) ==
    /\ q \in Seq(RestingOrder)
    /\ Head(queue).remaining = n =>
         Len(q) = Len(queue) - 1 /\ \A i \in 1..Len(q) : q[i] = queue[i + 1]
    /\ Head(queue).remaining # n =>
         /\ Len(q) = Len(queue) /\ \A i \in 2..Len(q) : q[i] = queue[i]
         /\ q[1] = [Head(queue) EXCEPT !.remaining = @ - n]

LEMMA FilledFront ==
    ASSUME NEW queue \in Seq(RestingOrder), queue # <<>>,
           NEW n \in Nat \ {0}, n <= Head(queue).remaining,
           NEW q, q = FillFront(queue, n)
    PROVE  FilledBy(queue, n, q)
<1>1. PICK h : h = queue[1]
  OBVIOUS
<1>2. /\ Head(queue) = h /\ h \in RestingOrder /\ Len(queue) \in Nat \ {0}
      /\ DOMAIN queue = 1..Len(queue)
  BY <1>1
<1>3. CASE h.remaining = n
  <2>1. q = Tail(queue)
    BY <1>2, <1>3 DEF FillFront
  <2>2. q \in Seq(RestingOrder) /\ Len(q) = Len(queue) - 1
    BY <2>1
  <2>3. \A i \in 1..Len(q) : q[i] = queue[i + 1]
    BY <2>1, <2>2
  <2> QED
    BY <1>2, <1>3, <2>2, <2>3 DEF FilledBy
<1>4. CASE h.remaining # n
  <2>1. PICK o : o = [h EXCEPT !.remaining = @ - n]
    OBVIOUS
  <2>2. q = [queue EXCEPT ![1] = o]
    BY <1>1, <1>2, <1>4, <2>1 DEF FillFront
  <2>3. o \in RestingOrder
    <3>1. h.remaining \in Nat /\ n <= h.remaining
      BY <1>2 DEF RestingOrder
    <3>2. h.remaining - n \in Nat \ {0}
      BY <1>4, <3>1
    <3> QED
      BY <1>2, <2>1, <3>2 DEF RestingOrder
  <2>4. q \in Seq(RestingOrder) /\ Len(q) = Len(queue)
    BY <1>2, <2>2, <2>3
  <2>5. q[1] = o /\ \A i \in 2..Len(q) : q[i] = queue[i]
    BY <1>2, <2>2, <2>4
  <2> QED
    BY <1>2, <1>4, <2>1, <2>4, <2>5 DEF FilledBy
<1> QED
  BY <1>3, <1>4

\* What one match does: the fronts of the best levels are filled by the same
\* quantity, all other levels stay, and the trade takes the number.
LEMMA Matched ==
    ASSUME TypeOK, BookOK, ExecuteMatch
    PROVE  /\ Crosses
           /\ book' \in [Sides -> [Levels -> Seq(RestingOrder)]]
           /\ \A s \in Sides, l \in Levels :
                book'[s][l] = IF l = Best(s) THEN FillFront(book[s][l], Quantity)
                              ELSE book[s][l]
           /\ filled' = filled + Quantity
           /\ \E t \in Trade :
                /\ trades' = Append(trades, t) /\ t.seq = seq /\ t.quantity = Quantity
                /\ t.buyer = FrontOf("YES").user /\ t.seller = FrontOf("NO").user
<1>1. Crosses
  BY DEF ExecuteMatch
<1>2. PICK bid, ask, q : bid = FrontOf("YES") /\ ask = FrontOf("NO") /\ q = Quantity
  OBVIOUS
<1>3. "YES" \in Sides /\ "NO" \in Sides
  BY DEF Sides
<1>4. /\ bid \in RestingOrder /\ ask \in RestingOrder /\ q \in Nat \ {0}
      /\ bid.price = Best("YES") /\ ask.price = Best("NO")
      /\ Best("YES") \in Levels /\ Best("NO") \in Levels /\ Best("YES") \in 0..MaxPrice
  BY <1>1, <1>2, <1>3, FrontsMeet
<1>5. /\ book' = [book EXCEPT !["YES"][bid.price] = FillFront(@, q),
                              !["NO"][ask.price] = FillFront(@, q)]
      /\ filled' = filled + q
      /\ trades' = Append(trades,
                [type |-> "clob", buyer |-> bid.user, seller |-> ask.user,
                 price |-> bid.price, quantity |-> q,
                 outcome |-> bid.outcome, seq |-> seq])
  BY <1>2 DEF ExecuteMatch, FrontOf, Quantity
<1>6. book \in [Sides -> [Levels -> Seq(RestingOrder)]] /\ seq \in Nat
  BY DEF TypeOK
<1>7. \A s \in Sides, l \in Levels :
        book'[s][l] = IF l = Best(s) THEN FillFront(book[s][l], q) ELSE book[s][l]
  BY <1>3, <1>4, <1>5, <1>6 DEF Sides
<1>8. book' \in [Sides -> [Levels -> Seq(RestingOrder)]]
  <2>1. \A s \in Sides : FillFront(book[s][Best(s)], q) \in Seq(RestingOrder)
    BY <1>1, <1>2, FrontsMeet, FilledFront DEF FrontOf, FilledBy
  <2>2. \A s \in Sides, l \in Levels : book'[s][l] \in Seq(RestingOrder)
    BY <1>6, <1>7, <2>1
  <2>3. DOMAIN book' = Sides /\ \A s \in Sides : book'[s] = [l \in Levels |-> book'[s][l]]
    BY <1>3, <1>4, <1>5, <1>6 DEF Sides
  <2>4. book' = [s \in Sides |-> book'[s]]
    BY <1>5, <1>6
  <2> QED
    BY <2>2, <2>3, <2>4
<1>9. PICK t : t = [type |-> "clob", buyer |-> bid.user, seller |-> ask.user,
                 price |-> bid.price, quantity |-> q, outcome |-> bid.outcome, seq |-> seq]
  OBVIOUS
<1>10. /\ t \in Trade /\ t.seq = seq /\ t.quantity = Quantity
       /\ t.buyer = FrontOf("YES").user /\ t.seller = FrontOf("NO").user
  <2>1. /\ bid.user \in Users /\ ask.user \in Users /\ bid.outcome \in Outcomes
        /\ bid.price \in Nat
    BY <1>4 DEF RestingOrder
  <2> QED
    BY <1>2, <1>4, <1>6, <1>9, <2>1 DEF Trade
<1>11. trades' = Append(trades, t)
  BY <1>5, <1>9
<1>12. \E z \in Trade :
         /\ trades' = Append(trades, z) /\ z.seq = seq /\ z.quantity = Quantity
         /\ z.buyer = FrontOf("YES").user /\ z.seller = FrontOf("NO").user
  BY <1>10, <1>11
<1>13. filled' = filled + Quantity
  BY <1>2, <1>5
<1> QED
  BY <1>1, <1>2, <1>7, <1>8, <1>12, <1>13

\* The orders a match leaves in a queue are the ones it had, but for the front,
\* which leaves it or keeps its place with less.
LEMMA MatchedQueue ==
    ASSUME TypeOK, BookOK, ExecuteMatch, NEW s \in Sides, NEW l \in Levels
    PROVE  /\ Ascending(book'[s][l])
           /\ \A i \in 1..Len(book'[s][l]) : \E j \in 1..Len(book[s][l]) :
                /\ book'[s][l][i].seq = book[s][l][j].seq
                /\ book'[s][l][i].price = book[s][l][j].price
           /\ book[s][l] = <<>> => book'[s][l] = <<>>
<1>1. PICK q, r : q = book[s][l] /\ r = book'[s][l]
  OBVIOUS
<1>2. q \in Seq(RestingOrder) /\ Ascending(q) /\ DOMAIN q = 1..Len(q) /\ Len(q) \in Nat
  BY <1>1 DEF TypeOK, BookOK
<1>3. CASE l # Best(s)
  BY <1>1, <1>2, <1>3, Matched
<1>4. CASE l = Best(s)
  <2>1. /\ r = FillFront(q, Quantity) /\ q # <<>> /\ Quantity \in Nat \ {0}
        /\ Quantity <= Head(q).remaining
    BY <1>1, <1>4, Matched, FrontsMeet DEF FrontOf
  <2>0. /\ r \in Seq(RestingOrder)
        /\ Head(q).remaining = Quantity =>
             Len(r) = Len(q) - 1 /\ \A i \in 1..Len(r) : r[i] = q[i + 1]
        /\ Head(q).remaining # Quantity =>
             /\ Len(r) = Len(q) /\ \A i \in 2..Len(r) : r[i] = q[i]
             /\ r[1] = [Head(q) EXCEPT !.remaining = @ - Quantity]
    <3>1. FilledBy(q, Quantity, r)
      BY <1>2, <2>1, FilledFront
    <3> QED
      BY <3>1 DEF FilledBy
  <2>2. r \in Seq(RestingOrder) /\ DOMAIN r = 1..Len(r) /\ Len(r) \in Nat
    BY <2>0
  <2>3. Head(q) = q[1] /\ q[1] \in RestingOrder
    BY <1>2, <2>1
  <2>4. CASE Head(q).remaining = Quantity
    <3>1. Len(r) = Len(q) - 1 /\ \A i \in 1..Len(r) : r[i] = q[i + 1]
      BY <2>0, <2>4
    <3>2. \A i \in 1..Len(r) : i + 1 \in 1..Len(q)
      BY <1>2, <3>1
    <3>3. Ascending(r)
      <4> SUFFICES ASSUME NEW i \in 1..Len(r), NEW j \in 1..Len(r), i < j
                   PROVE  r[i].seq < r[j].seq
        BY <2>2 DEF Ascending
      <4>1. i + 1 \in DOMAIN q /\ j + 1 \in DOMAIN q /\ i + 1 < j + 1
        BY <1>2, <2>2, <3>2
      <4>2. q[i + 1].seq < q[j + 1].seq
        BY <1>2, <4>1 DEF Ascending
      <4> QED
        BY <3>1, <4>2
    <3> QED
      BY <1>1, <2>1, <3>1, <3>2, <3>3
  <2>5. CASE Head(q).remaining # Quantity
    <3>1. PICK o : o = [q[1] EXCEPT !.remaining = @ - Quantity]
      OBVIOUS
    <3>2. o.seq = q[1].seq /\ o.price = q[1].price
      BY <2>3, <3>1 DEF RestingOrder
    <3>3. /\ Len(r) = Len(q) /\ \A i \in 2..Len(r) : r[i] = q[i]
          /\ r[1] = o
      BY <2>0, <2>3, <2>5, <3>1
    <3>4. \A i \in 1..Len(r) : r[i].seq = q[i].seq /\ r[i].price = q[i].price
      <4>1. \A i \in 1..Len(r) : i = 1 \/ i \in 2..Len(r)
        OBVIOUS
      <4> QED
        BY <3>2, <3>3, <4>1
    <3>5. Ascending(r)
      BY <1>2, <2>2, <3>3, <3>4 DEF Ascending
    <3> QED
      BY <1>1, <2>1, <3>3, <3>4, <3>5
  <2> QED
    BY <2>4, <2>5
<1> QED
  BY <1>3, <1>4

-----------------------------------------------------------------------------
(* The other steps on the book *)

Entry(order) == [user |-> order.user, outcome |-> order.outcome, price |-> order.price,
                 remaining |-> order.quantity, seq |-> seq + 1]

\* A new order joins the end of one queue.
LEMMA Added ==
    ASSUME TypeOK, NEW o \in Orders, AddOrder(o)
    PROVE  /\ Entry(o) \in RestingOrder
           /\ book' \in [Sides -> [Levels -> Seq(RestingOrder)]]
           /\ \A s \in Sides, l \in Levels :
                book'[s][l] = IF s = o.side /\ l = o.price
                              THEN Append(book[s][l], Entry(o)) ELSE book[s][l]
<1>1. PICK e : e = Entry(o)
  OBVIOUS
<1>2. o.side \in Sides /\ o.price \in Levels
  BY OrderFields
<1>3. e \in RestingOrder
  <2>1. seq + 1 \in Nat
    BY DEF TypeOK
  <2> QED
    BY <1>1, <2>1, OrderFields DEF Entry, RestingOrder
<1>4. book' = [book EXCEPT ![o.side][o.price] = Append(@, e)]
  BY <1>1 DEF AddOrder, Entry, Enter
<1>5. book \in [Sides -> [Levels -> Seq(RestingOrder)]]
  BY DEF TypeOK
<1>6. \A s \in Sides, l \in Levels :
        book'[s][l] = IF s = o.side /\ l = o.price THEN Append(book[s][l], e) ELSE book[s][l]
  BY <1>2, <1>4, <1>5
<1>7. book' \in [Sides -> [Levels -> Seq(RestingOrder)]]
  <2>1. Append(book[o.side][o.price], e) \in Seq(RestingOrder)
    BY <1>2, <1>3, <1>5
  <2> QED
    BY <1>2, <1>4, <1>5, <2>1
<1> QED
  BY <1>1, <1>3, <1>6, <1>7

\* What the AMM's fill leaves of each queue.
LEMMA Withdrew ==
    ASSUME TypeOK, FillFromAmm
    PROVE  /\ book' \in [Sides -> [Levels -> Seq(RestingOrder)]]
           /\ \A s \in Sides, l \in Levels :
                KeptOf(book[s][l], Withdrawn, Len(book[s][l]), book'[s][l])
<1>1. book' = [s \in Sides |-> [l \in Levels |-> Retain(book[s][l], Withdrawn)]]
  BY DEF FillFromAmm
<1>2. book \in [Sides -> [Levels -> Seq(RestingOrder)]]
  BY DEF TypeOK
<1>3. \A s \in Sides, l \in Levels :
        KeptOf(book[s][l], Withdrawn, Len(book[s][l]), Retain(book[s][l], Withdrawn))
  BY <1>2, RetainKeeps
<1>4. \A s \in Sides, l \in Levels : Retain(book[s][l], Withdrawn) \in Seq(RestingOrder)
  BY <1>3 DEF KeptOf
<1> QED
  BY <1>1, <1>3, <1>4

-----------------------------------------------------------------------------
(* Types *)

LEMMA InitTypes == Init => TypeOK
<1> SUFFICES ASSUME Init PROVE TypeOK
  OBVIOUS
<1>1. 0 \in 0..MaxShares
  BY BoundAssumption
<1>2. shares \in SharesSold
  BY <1>1 DEF Init, SharesSold
<1>3. book \in [Sides -> [Levels -> Seq(RestingOrder)]]
  BY DEF Init
<1>4. trades \in Seq(Trade)
  BY DEF Init
<1> QED
  BY <1>2, <1>3, <1>4 DEF Init, TypeOK

LEMMA TypeStep ==
    ASSUME TypeOK, BookOK, CurOK, [Next]_vars
    PROVE  TypeOK'
<1>1. ASSUME NEW o \in Orders, AddOrder(o) PROVE TypeOK'
  <2>1. book' \in [Sides -> [Levels -> Seq(RestingOrder)]]
    BY <1>1, Added
  <2>2. seq' = seq + 1 /\ seq' \in Nat /\ submitted' \in Nat
    BY <1>1 DEF AddOrder, TypeOK
  <2>3. cur' = Numbered(o, seq') /\ seq' \in 1..seq'
    BY <1>1, <2>2 DEF AddOrder, TypeOK
  <2>4. placed' \in [Users -> Nat]
    BY <1>1, OrderFields DEF AddOrder, TypeOK
  <2> QED
    BY <1>1, <2>1, <2>2, <2>3, <2>4 DEF AddOrder, TypeOK
<1>2. CASE ExecuteMatch
  <2>1. "YES" \in Sides /\ Quantity \in Nat
    BY <1>2, Matched, FrontsMeet DEF Sides
  <2>2. book' \in [Sides -> [Levels -> Seq(RestingOrder)]] /\ filled' \in Nat
    BY <1>2, <2>1, Matched DEF TypeOK
  <2>3. trades' \in Seq(Trade)
    <3>1. PICK t \in Trade : trades' = Append(trades, t)
      BY <1>2, Matched
    <3>2. trades \in Seq(Trade)
      BY DEF TypeOK
    <3> QED
      BY <3>1, <3>2
  <2>4. seq' = seq + 1 /\ cur' = cur /\ seq \in Nat
    BY <1>2 DEF ExecuteMatch, TypeOK
  <2>5. cur' = NoOrder \/ \E o \in Orders, n \in 1..seq' : cur' = Numbered(o, n)
    <3>1. \A n \in 1..seq : n \in 1..seq'
      BY <2>4
    <3> QED
      BY <2>4, <3>1 DEF TypeOK
  <2>6. /\ UNCHANGED <<shares, phase, placed, dropped, submitted>>
        /\ shares \in SharesSold /\ phase \in {"idle", "matching", "fallback", "exited"}
        /\ placed \in [Users -> Nat] /\ dropped \in [Users -> Nat] /\ submitted \in Nat
    BY <1>2 DEF ExecuteMatch, TypeOK, ledger
  <2> QED
    BY <2>2, <2>3, <2>4, <2>5, <2>6 DEF TypeOK
<1>3. CASE StopMatching
  BY <1>3 DEF StopMatching, Return, TypeOK, ledger
<1>4. CASE FillFromAmm
  <2>1. /\ phase = "fallback" /\ filled < cur.quantity /\ filled \in Nat /\ seq \in Nat
        /\ shares \in SharesSold /\ MaxShares \in Nat
    BY <1>4, BoundAssumption DEF FillFromAmm, CurOK, TypeOK
  <2>2. /\ cur.user \in Users /\ cur.outcome \in Outcomes /\ cur.quantity \in Nat
        /\ shares[cur.outcome] + cur.quantity <= MaxShares
    BY <2>1, CurFields
  <2>3. shares[cur.outcome] \in Nat
    BY <2>1, <2>2 DEF SharesSold
  <2>4. AmmQuantity \in 1..MaxShares
    BY <2>1, <2>2, <2>3 DEF AmmQuantity
  <2>5. shares' \in SharesSold
    <3>1. shares[cur.outcome] + AmmQuantity \in 0..MaxShares
      BY <2>1, <2>2, <2>3 DEF AmmQuantity
    <3>2. shares' = [shares EXCEPT ![cur.outcome] = @ + AmmQuantity]
      BY <1>4 DEF FillFromAmm
    <3> QED
      BY <2>1, <3>1, <3>2 DEF SharesSold
  <2>6. Average[shares][cur.outcome][AmmQuantity] \in Nat
    <3>1. Average[shares] \in [Outcomes -> [1..MaxShares -> Minor]]
      BY <2>1, AmmAssumption
    <3>2. Average[shares][cur.outcome][AmmQuantity] \in Minor
      BY <2>2, <2>4, <3>1
    <3> QED
      BY <3>2 DEF Minor
  <2>7. trades' \in Seq(Trade)
    <3>1. PICK t : t = [type |-> "amm", buyer |-> cur.user, seller |-> "none",
                        price |-> Average[shares][cur.outcome][AmmQuantity],
                        quantity |-> AmmQuantity, outcome |-> cur.outcome, seq |-> seq + 1]
      OBVIOUS
    <3>2. t \in Trade
      BY <2>1, <2>2, <2>4, <2>6, <3>1 DEF Trade
    <3> QED
      BY <1>4, <3>1, <3>2 DEF FillFromAmm, TypeOK
  <2>8. dropped' \in [Users -> Nat]
    <3>1. Remaining({o \in Withdrawn : o.seq # cur.seq}) \in Nat
      BY RemainingOfUser DEF Withdrawn, TypeOK
    <3>2. dropped' = [dropped EXCEPT ![cur.user] =
                        @ + Remaining({o \in Withdrawn : o.seq # cur.seq})]
      BY <1>4 DEF FillFromAmm
    <3> QED
      BY <2>2, <3>1, <3>2 DEF TypeOK
  <2>9. book' \in [Sides -> [Levels -> Seq(RestingOrder)]]
    BY <1>4, Withdrew
  <2> QED
    BY <1>4, <2>5, <2>7, <2>8, <2>9 DEF FillFromAmm, Return, TypeOK
<1>5. CASE RestRemainder
  BY <1>5 DEF RestRemainder, Return, TypeOK, ledger
<1>6. CASE VoidMarket
  <2>1. book' \in [Sides -> [Levels -> Seq(RestingOrder)]]
    BY <1>6 DEF VoidMarket
  <2>2. dropped' \in [Users -> Nat]
    <3>1. \A u \in Users : Remaining(RestingOf(u)) \in Nat
      BY RemainingOfUser DEF TypeOK
    <3>2. dropped' = [u \in Users |-> dropped[u] + Remaining(RestingOf(u))]
      BY <1>6 DEF VoidMarket
    <3> QED
      BY <3>1, <3>2 DEF TypeOK
  <2> QED
    BY <1>6, <2>1, <2>2 DEF VoidMarket, TypeOK
<1>7. CASE UNCHANGED vars
  BY <1>7 DEF vars, ledger, TypeOK
<1> QED
  BY <1>1, <1>2, <1>3, <1>4, <1>5, <1>6, <1>7 DEF Next

-----------------------------------------------------------------------------
(* The book stays ordered and uncrossed *)

LEMMA BookStep ==
    ASSUME TypeOK, BookOK, [Next]_vars
    PROVE  BookOK'
<1> SUFFICES ASSUME NEW s \in Sides, NEW l \in Levels
             PROVE  /\ Ascending(book'[s][l])
                    /\ \A i \in 1..Len(book'[s][l]) :
                         book'[s][l][i].price = l /\ book'[s][l][i].seq <= seq'
  BY DEF BookOK
<1>1. PICK q, r : q = book[s][l] /\ r = book'[s][l]
  OBVIOUS
<1>2. /\ q \in Seq(RestingOrder) /\ DOMAIN q = 1..Len(q) /\ Len(q) \in Nat /\ seq \in Nat
      /\ Ascending(q) /\ \A i \in 1..Len(q) : q[i].price = l /\ q[i].seq <= seq
  BY <1>1 DEF TypeOK, BookOK
<1>3. \A i \in 1..Len(q) : q[i].seq \in Nat
  <2>1. \A i \in 1..Len(q) : q[i] \in RestingOrder
    BY <1>2
  <2> QED
    BY <2>1 DEF RestingOrder
<1> SUFFICES Ascending(r) /\ \A i \in 1..Len(r) : r[i].price = l /\ r[i].seq <= seq'
  BY <1>1
<1>4. CASE r = q /\ seq' = seq
  BY <1>2, <1>4
<1>5. ASSUME NEW o \in Orders, AddOrder(o)
      PROVE Ascending(r) /\ \A i \in 1..Len(r) : r[i].price = l /\ r[i].seq <= seq'
  <2>1. seq' = seq + 1
    BY <1>5 DEF AddOrder
  <2>2. CASE r = q
    <3>1. \A i \in 1..Len(q) : q[i].seq <= seq'
      BY <1>2, <1>3, <2>1
    <3> QED
      BY <1>2, <2>2, <3>1
  <2>3. CASE l = o.price /\ r = Append(q, Entry(o))
    <3>1. PICK e : e = Entry(o)
      OBVIOUS
    <3>2. e \in RestingOrder /\ e.price = l /\ e.seq = seq + 1
      BY <1>5, <2>3, <3>1, Added DEF Entry
    <3>3. /\ r \in Seq(RestingOrder) /\ Len(r) = Len(q) + 1 /\ DOMAIN r = 1..Len(r)
          /\ r[Len(q) + 1] = e /\ \A i \in 1..Len(q) : r[i] = q[i]
      BY <1>2, <2>3, <3>1, <3>2
    <3>4. \A i \in 1..Len(r) : i \in 1..Len(q) \/ i = Len(q) + 1
      BY <1>2, <3>3
    <3>5. \A i \in 1..Len(r) : r[i].price = l /\ r[i].seq <= seq'
      BY <1>2, <1>3, <2>1, <3>2, <3>3, <3>4
    <3>6. Ascending(r)
      <4> SUFFICES ASSUME NEW i \in 1..Len(r), NEW j \in 1..Len(r), i < j
                   PROVE  r[i].seq < r[j].seq
        BY <3>3 DEF Ascending
      <4>1. i \in 1..Len(q)
        BY <1>2, <3>3, <3>4
      <4>2. CASE j \in 1..Len(q)
        BY <1>2, <3>3, <4>1, <4>2 DEF Ascending
      <4>3. CASE j = Len(q) + 1
        BY <1>2, <1>3, <3>2, <3>3, <4>1, <4>3
      <4> QED
        BY <3>4, <4>2, <4>3
    <3> QED
      BY <3>5, <3>6
  <2> QED
    BY <1>1, <1>5, <2>2, <2>3, Added
<1>6. CASE ExecuteMatch
  <2>1. /\ Ascending(r)
        /\ \A i \in 1..Len(r) : \E j \in 1..Len(q) :
             r[i].seq = q[j].seq /\ r[i].price = q[j].price
    BY <1>1, <1>6, MatchedQueue
  <2>2. seq' = seq + 1
    BY <1>6 DEF ExecuteMatch
  <2> QED
    BY <1>2, <1>3, <2>1, <2>2
<1>7. CASE FillFromAmm
  <2>1. KeptOf(q, Withdrawn, Len(q), r) /\ seq' = seq
    BY <1>1, <1>7, Withdrew DEF FillFromAmm
  <2>2. /\ \A i \in 1..Len(r) : \E j \in 1..Len(q) : r[i] = q[j]
        /\ Ascending(r)
    BY <1>2, <2>1 DEF KeptOf
  <2> QED
    BY <1>2, <2>1, <2>2
<1>8. CASE VoidMarket
  <2>1. r = <<>>
    BY <1>1, <1>8 DEF VoidMarket
  <2> QED
    BY <2>1 DEF Ascending
<1>9. StopMatching \/ RestRemainder \/ UNCHANGED vars => r = q /\ seq' = seq
  BY <1>1 DEF StopMatching, RestRemainder, vars
<1> QED
  BY <1>4, <1>5, <1>6, <1>7, <1>8, <1>9 DEF Next

LEMMA CurStep ==
    ASSUME TypeOK, CurOK, [Next]_vars
    PROVE  CurOK'
<1>1. seq \in Nat /\ filled \in Nat
  BY DEF TypeOK
<1>2. ASSUME NEW o \in Orders, AddOrder(o) PROVE CurOK'
  <2>1. /\ cur' = Numbered(o, seq') /\ seq' \in 1..seq' /\ phase' = "matching"
        /\ shares[o.outcome] + o.quantity <= MaxShares /\ shares' = shares
    BY <1>1, <1>2 DEF AddOrder
  <2>2. cur'.outcome = o.outcome /\ cur'.quantity = o.quantity
    BY <2>1 DEF Numbered
  <2> QED
    BY <2>1, <2>2 DEF CurOK
<1>3. CASE ExecuteMatch
  <2>1. cur' = cur /\ phase' = phase /\ phase = "matching" /\ shares' = shares /\ seq' = seq + 1
    BY <1>3 DEF ExecuteMatch
  <2>2. PICK o \in Orders, n \in 1..seq : cur = Numbered(o, n)
    BY <2>1 DEF CurOK
  <2>3. n \in 1..seq'
    BY <1>1, <2>1
  <2> QED
    BY <2>1, <2>2, <2>3 DEF CurOK
<1>4. CASE StopMatching
  <2>1. /\ phase = "matching" /\ shares' = shares /\ seq' = seq
        /\ \/ phase' = "idle"
           \/ phase' = "fallback" /\ cur' = cur /\ filled' = filled /\ cur.quantity > filled
    BY <1>4 DEF StopMatching, Return
  <2>2. filled < cur.quantity <=> cur.quantity > filled
    OBVIOUS
  <2> QED
    BY <2>1, <2>2 DEF CurOK
<1>5. CASE FillFromAmm \/ RestRemainder \/ VoidMarket
  <2>1. phase' = "idle" \/ phase' = "exited"
    BY <1>5 DEF FillFromAmm, RestRemainder, VoidMarket, Return
  <2> QED
    BY <2>1 DEF CurOK
<1>6. CASE UNCHANGED vars
  BY <1>6 DEF vars, CurOK
<1> QED
  BY <1>2, <1>3, <1>4, <1>5, <1>6 DEF Next

\* The book stays uncrossed where no side opens a level.
LEMMA NoNewCross ==
    ASSUME book \in [Sides -> [Levels -> Seq(RestingOrder)]], ~Crosses,
           \A s \in Sides, l \in Levels : book[s][l] = <<>> => book'[s][l] = <<>>
    PROVE  ~Crosses'
<1> SUFFICES ASSUME Crosses' PROVE FALSE
  OBVIOUS
<1>1. \A s \in Sides : Open(s)' \subseteq Open(s) /\ Open(s)' # {}
  BY DEF Open, Crosses, BothSides, Sides
<1>2. \A s \in Sides : Best(s) \in 0..MaxPrice /\ \A l \in Open(s) : l <= Best(s)
  BY <1>1, BestOpen
<1>3. \A s \in Sides : Open(s)' # {} => Best(s)' \in Open(s)' /\ Best(s)' \in 0..MaxPrice
  <2>1. \A s \in Sides : Open(s)' \in SUBSET (0..MaxPrice)
    BY LevelsBounded DEF Open
  <2> QED
    BY <2>1, GreatestPrice DEF Best
<1>4. \A s \in Sides : Best(s)' <= Best(s) /\ Best(s) \in 0..MaxPrice /\ Best(s)' \in 0..MaxPrice
  BY <1>1, <1>2, <1>3
<1>5. "YES" \in Sides /\ "NO" \in Sides
  BY DEF Sides
<1>6. BothSides
  BY <1>1, <1>5 DEF BothSides
<1>7. Best("YES")' + Best("NO")' >= 100
  BY DEF Crosses
<1>8. Best("YES") + Best("NO") >= 100
  <2>1. PICK a, b, c, d : a = Best("YES") /\ b = Best("NO")
                            /\ c = Best("YES")' /\ d = Best("NO")'
    OBVIOUS
  <2>2. /\ a \in 0..MaxPrice /\ b \in 0..MaxPrice /\ c \in 0..MaxPrice /\ d \in 0..MaxPrice
        /\ c <= a /\ d <= b /\ c + d >= 100
    BY <1>4, <1>5, <1>7, <2>1
  <2>3. a + b >= 100
    BY <2>2
  <2> QED
    BY <2>1, <2>3
<1> QED
  BY <1>6, <1>8 DEF Crosses

LEMMA UncrossedStep ==
    ASSUME TypeOK, Uncrossed, [Next]_vars
    PROVE  Uncrossed'
<1>1. book \in [Sides -> [Levels -> Seq(RestingOrder)]]
  BY DEF TypeOK
<1>2. CASE book' = book /\ (phase' # "matching" => ~Crosses)
  BY <1>2 DEF Uncrossed, Crosses, BothSides, Best, Open
<1>3. \A o \in Orders : AddOrder(o) => phase' = "matching"
  BY DEF AddOrder
<1>4. ExecuteMatch => phase' = "matching"
  BY DEF ExecuteMatch
<1>5. StopMatching => book' = book /\ ~Crosses
  BY DEF StopMatching
<1>6. RestRemainder => book' = book /\ ~Crosses
  BY DEF RestRemainder, Uncrossed
<1>7. UNCHANGED vars => book' = book /\ (phase' # "matching" => ~Crosses)
  BY DEF vars, Uncrossed
<1>8. CASE FillFromAmm
  <2>1. ~Crosses
    BY <1>8 DEF FillFromAmm, Uncrossed
  <2>2. \A s \in Sides, l \in Levels : book[s][l] = <<>> => book'[s][l] = <<>>
    <3> SUFFICES ASSUME NEW s \in Sides, NEW l \in Levels, book[s][l] = <<>>
                 PROVE  book'[s][l] = <<>>
      OBVIOUS
    <3>1. PICK r : r = book'[s][l]
      OBVIOUS
    <3>2. KeptOf(<<>>, Withdrawn, 0, r)
      BY <1>8, <3>1, Withdrew
    <3>3. r \in Seq(RestingOrder) /\ \A i \in 1..Len(r) : \E j \in 1..0 : TRUE
      BY <3>2 DEF KeptOf
    <3> QED
      BY <3>1, <3>3
  <2> QED
    BY <1>1, <2>1, <2>2, NoNewCross DEF Uncrossed
<1>9. CASE VoidMarket
  <2>1. ~Crosses'
    BY <1>9 DEF VoidMarket, Crosses, BothSides, Open, Sides
  <2> QED
    BY <2>1 DEF Uncrossed
<1> QED
  BY <1>2, <1>3, <1>4, <1>5, <1>6, <1>7, <1>8, <1>9 DEF Next, Uncrossed

\* A trade under a number no CLOB trade has reached keeps the log ordered.
LEMMA TradesStep ==
    ASSUME TypeOK, TypeOK', BookOK, Numbers, ClobTradesOrdered, [Next]_vars
    PROVE  Numbers' /\ ClobTradesOrdered'
<1>1. /\ trades \in Seq(Trade) /\ DOMAIN trades = 1..Len(trades) /\ Len(trades) \in Nat
      /\ seq \in Nat
  BY DEF TypeOK
<1>2. \A i \in 1..Len(trades) : trades[i].seq \in Nat
  <2>1. \A i \in 1..Len(trades) : trades[i] \in Trade
    BY <1>1
  <2> QED
    BY <2>1 DEF Trade
<1>3. CASE trades' = trades /\ seq' >= seq /\ seq' \in Nat
  <2>1. Numbers'
    BY <1>1, <1>2, <1>3 DEF Numbers
  <2> QED
    BY <1>3, <2>1 DEF ClobTradesOrdered
<1>4. ASSUME NEW t \in Trade, trades' = Append(trades, t),
             t.type = "clob" => t.seq = seq /\ seq' = seq + 1,
             seq' = seq \/ seq' = seq + 1
      PROVE  Numbers' /\ ClobTradesOrdered'
  <2>1. PICK x, n : x = trades /\ n = Len(trades)
    OBVIOUS
  <2>2. PICK y : y = Append(x, t)
    OBVIOUS
  <2>3. /\ x \in Seq(Trade) /\ n = Len(x) /\ n \in Nat
        /\ \A i \in 1..n : x[i].seq \in Nat
        /\ \A i \in 1..n : x[i].type = "clob" => x[i].seq < seq
        /\ \A i, j \in 1..n : i < j /\ x[i].type = "clob" /\ x[j].type = "clob" =>
             x[i].seq < x[j].seq
    BY <1>1, <1>2, <2>1 DEF Numbers, ClobTradesOrdered
  <2>4. /\ DOMAIN y = 1..(n + 1) /\ y[n + 1] = t /\ \A i \in 1..n : y[i] = x[i]
    BY <2>2, <2>3
  <2>5. \A i \in 1..(n + 1) : i \in 1..n \/ i = n + 1
    BY <2>3
  <2>6. \A i \in 1..(n + 1) : y[i].type = "clob" => y[i].seq < seq'
    BY <1>1, <1>4, <2>3, <2>4, <2>5
  <2>7. \A i, j \in 1..(n + 1) : i < j /\ y[i].type = "clob" /\ y[j].type = "clob" =>
          y[i].seq < y[j].seq
    <3> SUFFICES ASSUME NEW i \in 1..(n + 1), NEW j \in 1..(n + 1), i < j,
                        y[i].type = "clob", y[j].type = "clob"
                 PROVE  y[i].seq < y[j].seq
      OBVIOUS
    <3>1. i \in 1..n
      BY <2>3, <2>5
    <3>2. CASE j \in 1..n
      BY <2>3, <2>4, <3>1, <3>2
    <3>3. CASE j = n + 1
      BY <1>4, <2>3, <2>4, <3>1, <3>3
    <3> QED
      BY <2>5, <3>2, <3>3
  <2>8. trades' = y
    BY <1>4, <2>1, <2>2
  <2> QED
    BY <2>4, <2>6, <2>7, <2>8 DEF Numbers, ClobTradesOrdered
<1>5. \A o \in Orders : AddOrder(o) => trades' = trades /\ seq' = seq + 1
  BY DEF AddOrder
<1>6. StopMatching \/ RestRemainder \/ VoidMarket \/ UNCHANGED vars =>
        trades' = trades /\ seq' = seq
  BY DEF StopMatching, RestRemainder, VoidMarket, vars
<1>7. CASE ExecuteMatch
  <2>1. seq' = seq + 1
    BY <1>7 DEF ExecuteMatch
  <2> QED
    BY <1>4, <1>7, <2>1, Matched
<1>8. CASE FillFromAmm
  <2>1. PICK t : t = [type |-> "amm", buyer |-> cur.user, seller |-> "none",
                      price |-> Average[shares][cur.outcome][AmmQuantity],
                      quantity |-> AmmQuantity, outcome |-> cur.outcome, seq |-> seq + 1]
    OBVIOUS
  <2>2. trades' = Append(trades, t) /\ seq' = seq /\ t.type = "amm"
    BY <1>8, <2>1 DEF FillFromAmm
  <2>3. t \in Trade
    <3>1. trades' \in Seq(Trade) /\ Len(trades) + 1 \in 1..Len(trades')
      BY <1>1, <1>8, <2>2 DEF TypeOK
    <3>2. trades'[Len(trades) + 1] = t
      BY <1>1, <2>2
    <3> QED
      BY <3>1, <3>2
  <2> QED
    BY <1>4, <2>2, <2>3
<1> QED
  BY <1>1, <1>3, <1>5, <1>6, <1>7, <1>8 DEF Next

-----------------------------------------------------------------------------
(* The order that is worked on *)

Other(s) == IF s = "YES" THEN "NO" ELSE "YES"

\* What is left of the order rests at its price, behind the older ones, until
\* it is filled; no other order of its side could trade.
RestsOK ==
    /\ phase \in {"matching", "fallback"} =>
         LET q == book[cur.side][cur.price] IN
         /\ filled <= cur.quantity
         /\ filled < cur.quantity =>
              /\ q # <<>> /\ q[Len(q)].seq = cur.seq
              /\ q[Len(q)].remaining = cur.quantity - filled
              /\ q[Len(q)].user = cur.user /\ q[Len(q)].outcome = cur.outcome
         /\ \A l \in Levels : \A i \in 1..Len(book[cur.side][l]) :
              book[cur.side][l][i].seq = cur.seq =>
                l = cur.price /\ i = Len(q) /\ filled < cur.quantity
         /\ \A l \in Open(cur.side), m \in Open(Other(cur.side)) :
              l + m >= 100 => l = cur.price /\ Len(q) = 1 /\ filled < cur.quantity
    /\ phase \in {"idle", "exited"} => filled = 0

LEMMA InitInv == Init => Inv /\ RestsOK
<1> SUFFICES ASSUME Init PROVE Inv /\ RestsOK
  OBVIOUS
<1>1. TypeOK
  BY InitTypes
<1>2. \A s \in Sides, l \in Levels : book[s][l] = <<>>
  BY DEF Init
<1>3. BookOK
  BY <1>2 DEF BookOK, Ascending
<1>4. trades = <<>> /\ phase = "idle"
  BY DEF Init
<1>5. CurOK /\ RestsOK
  BY <1>4 DEF CurOK, RestsOK, Init
<1>6. Numbers /\ ClobTradesOrdered
  BY <1>4 DEF Numbers, ClobTradesOrdered
<1>7. Uncrossed
  BY <1>2 DEF Uncrossed, Crosses, BothSides, Open, Sides
<1> QED
  BY <1>1, <1>3, <1>5, <1>6, <1>7 DEF Inv

LEMMA InvStep == Inv /\ [Next]_vars => Inv'
<1> SUFFICES ASSUME Inv, [Next]_vars PROVE Inv'
  OBVIOUS
<1>1. TypeOK /\ BookOK /\ CurOK /\ Numbers /\ ClobTradesOrdered /\ Uncrossed
  BY DEF Inv
<1>2. TypeOK'
  BY <1>1, TypeStep
<1>3. BookOK' /\ CurOK' /\ Uncrossed'
  BY <1>1, BookStep, CurStep, UncrossedStep
<1>4. Numbers' /\ ClobTradesOrdered'
  BY <1>1, <1>2, TradesStep
<1> QED
  BY <1>2, <1>3, <1>4 DEF Inv

\* An order that leaves the book in a match is the front of its side's best
\* level, or what a partial fill leaves of it takes its place there.
LEMMA PriorityStep ==
    ASSUME TypeOK, BookOK, [Next]_vars, phase = "matching",
           NEW s \in Sides, NEW o \in Resting(s) \ Resting(s)', NEW p \in Resting(s)
    PROVE  Ahead(o, p)
<1>0. /\ book \in [Sides -> [Levels -> Seq(RestingOrder)]]
      /\ o \in Resting(s) /\ o \notin Resting(s)'
  BY DEF TypeOK
<1>1. PICK l \in Levels : \E i \in 1..Len(book[s][l]) : o = book[s][l][i]
  BY <1>0, RestingFinite
<1>2. PICK i \in 1..Len(book[s][l]) : o = book[s][l][i]
  BY <1>1
<1>3. PICK m \in Levels : \E j \in 1..Len(book[s][m]) : p = book[s][m][j]
  BY <1>0, RestingFinite
<1>4. PICK j \in 1..Len(book[s][m]) : p = book[s][m][j]
  BY <1>3
<1>5. CASE ExecuteMatch
  <2>1. /\ o.price = l /\ p.price = m /\ Ascending(book[s][l]) /\ o.seq \in Nat
        /\ book[s][l] \in Seq(RestingOrder) /\ book[s][m] \in Seq(RestingOrder)
    <3>1. o \in RestingOrder
      BY <1>0, RestingFinite
    <3>2. o.seq \in Nat
      BY <3>1 DEF RestingOrder
    <3>3. book[s][l] \in Seq(RestingOrder) /\ book[s][m] \in Seq(RestingOrder)
      BY <1>0
    <3> QED
      BY <1>2, <1>4, <3>2, <3>3 DEF BookOK
  <2>2. m \in Open(s) /\ m \in 0..MaxPrice /\ l \in 0..MaxPrice
    BY <1>4, <2>1, LevelsBounded DEF Open
  <2>3. m <= Best(s)
    BY <2>2, BestOpen
  <2>4. book'[s][l] \in Seq(RestingOrder)
    BY <1>5, Matched
  <2>5. \A k \in 1..Len(book'[s][l]) : o # book'[s][l][k]
    <3>1. \A k \in 1..Len(book'[s][l]) : book'[s][l][k] \in Resting(s)'
      <4>1. PICK r : r = book'[s][l]
        OBVIOUS
      <4>2. DOMAIN r = 1..Len(r)
        BY <2>4, <4>1
      <4>3. \A k \in 1..Len(r) : r[k] \in ToSet(r)
        BY <4>2 DEF ToSet
      <4> QED
        BY <4>1, <4>3 DEF Resting
    <3> QED
      BY <3>1
  <2>6. l = Best(s)
    BY <1>2, <1>5, <2>5, Matched
  <2>7. i = 1
    <3>1. PICK q, r : q = book[s][l] /\ r = book'[s][l]
      OBVIOUS
    <3>2. /\ r = FillFront(q, Quantity) /\ q # <<>> /\ Quantity \in Nat \ {0}
          /\ Quantity <= Head(q).remaining /\ q \in Seq(RestingOrder)
      BY <1>5, <2>1, <2>6, <3>1, Matched, FrontsMeet DEF FrontOf
    <3>3. FilledBy(q, Quantity, r)
      BY <3>2, FilledFront
    <3>4. Len(q) \in Nat /\ i \in 1..Len(q) /\ o = q[i]
      BY <1>2, <3>1, <3>2
    <3>5. \A k \in 1..Len(r) : o # r[k]
      BY <2>5, <3>1
    <3> SUFFICES ASSUME i # 1 PROVE FALSE
      OBVIOUS
    <3>6. CASE Head(q).remaining = Quantity
      <4>1. Len(r) = Len(q) - 1 /\ \A k \in 1..Len(r) : r[k] = q[k + 1]
        BY <3>3, <3>6 DEF FilledBy
      <4>2. PICK k \in 1..Len(r) : k + 1 = i
        BY <3>4, <3>6, <4>1
      <4>3. r[k] = q[i]
        BY <4>1, <4>2
      <4> QED
        BY <3>4, <3>5, <4>2, <4>3
    <3>7. CASE Head(q).remaining # Quantity
      <4>1. Len(r) = Len(q) /\ \A k \in 2..Len(r) : r[k] = q[k]
        BY <3>3, <3>7 DEF FilledBy
      <4>2. i \in 2..Len(r) /\ i \in 1..Len(r)
        BY <3>4, <3>7, <4>1
      <4> QED
        BY <3>4, <3>5, <4>1, <4>2
    <3> QED
      BY <3>6, <3>7
  <2>8. CASE m # l
    <3>1. l > m
      BY <2>2, <2>3, <2>6, <2>8
    <3> QED
      BY <2>1, <3>1 DEF Ahead
  <2>9. CASE m = l
    <3>1. i < j => o.seq < p.seq
      BY <1>2, <1>4, <2>1, <2>9 DEF Ascending
    <3>2. i <= j /\ (i = j => o = p)
      BY <1>2, <1>4, <2>7, <2>9
    <3>3. p.seq \in Nat
      <4>1. p \in RestingOrder
        BY <1>4, <2>1
      <4> QED
        BY <4>1 DEF RestingOrder
    <3>4. o.seq <= p.seq
      BY <2>1, <2>7, <3>1, <3>2, <3>3
    <3> QED
      BY <2>1, <2>9, <3>4 DEF Ahead
  <2> QED
    BY <2>8, <2>9
<1>6. ASSUME book' = book PROVE FALSE
  BY <1>6 DEF Resting
<1>7. ~ \E x \in Orders : AddOrder(x)
  BY DEF AddOrder
<1>8. ~FillFromAmm /\ ~RestRemainder /\ ~VoidMarket
  BY DEF FillFromAmm, RestRemainder, VoidMarket
<1>9. StopMatching \/ UNCHANGED vars => book' = book
  BY DEF StopMatching, vars
<1> QED
  BY <1>5, <1>6, <1>7, <1>8, <1>9 DEF Next

\* A book that does not cross has no two levels that do.
LEMMA NoPairCrosses ==
    ASSUME ~Crosses, NEW s \in Sides, NEW l \in Open(s), NEW m \in Open(Other(s))
    PROVE  l + m < 100
<1>1. \A a \in Open("YES"), b \in Open("NO") : a + b < 100
  <2> SUFFICES ASSUME NEW a \in Open("YES"), NEW b \in Open("NO") PROVE a + b < 100
    OBVIOUS
  <2>1. /\ a <= Best("YES") /\ Best("YES") \in 0..MaxPrice
        /\ b <= Best("NO") /\ Best("NO") \in 0..MaxPrice
    BY BestOpen DEF Sides
  <2>2. ~(Best("YES") + Best("NO") >= 100)
    BY DEF Crosses, BothSides
  <2>3. a \in 0..MaxPrice /\ b \in 0..MaxPrice
    BY LevelsBounded DEF Open
  <2> QED
    BY <2>1, <2>2, <2>3
<1>2. l \in 0..MaxPrice /\ m \in 0..MaxPrice
  BY LevelsBounded DEF Open
<1>3. CASE s = "YES"
  BY <1>1, <1>3 DEF Other
<1>4. CASE s = "NO"
  <2>1. m + l < 100
    BY <1>1, <1>4 DEF Other
  <2> QED
    BY <1>2, <2>1
<1> QED
  BY <1>3, <1>4 DEF Sides

LEMMA RestsAdded ==
    ASSUME TypeOK, BookOK, Uncrossed, RestsOK, NEW o \in Orders, AddOrder(o)
    PROVE  RestsOK'
<1>1. /\ phase = "idle" /\ phase' = "matching" /\ filled = 0 /\ filled' = 0 /\ ~Crosses
      /\ cur' = Numbered(o, seq + 1) /\ seq \in Nat
  BY DEF AddOrder, RestsOK, Uncrossed, TypeOK
<1>2. /\ cur'.side = o.side /\ cur'.price = o.price /\ cur'.quantity = o.quantity
      /\ cur'.seq = seq + 1 /\ cur'.user = o.user /\ cur'.outcome = o.outcome
  BY <1>1 DEF Numbered
<1>3. o.side \in Sides /\ o.price \in Levels /\ o.quantity \in Nat \ {0}
  BY OrderFields
<1>4. PICK s, p, e : s = o.side /\ p = o.price /\ e = Entry(o)
  OBVIOUS
<1>5. PICK q, r : q = book[s][p] /\ r = book'[s][p]
  OBVIOUS
<1>6. /\ q \in Seq(RestingOrder) /\ Len(q) \in Nat
      /\ \A l \in Levels : book[s][l] \in Seq(RestingOrder)
  BY <1>3, <1>4, <1>5 DEF TypeOK
<1>7. /\ r = Append(q, e) /\ e.seq = seq + 1 /\ e.remaining = o.quantity
      /\ e.user = o.user /\ e.outcome = o.outcome
  BY <1>3, <1>4, <1>5, Added DEF Entry
<1>8. /\ r # <<>> /\ Len(r) = Len(q) + 1 /\ r[Len(r)] = e
      /\ \A i \in 1..Len(q) : r[i] = q[i]
  BY <1>6, <1>7
<1>9. \A l \in Levels : \A i \in 1..Len(book[s][l]) : book[s][l][i].seq # seq + 1
  <2> SUFFICES ASSUME NEW l \in Levels, NEW i \in 1..Len(book[s][l])
               PROVE  book[s][l][i].seq # seq + 1
    OBVIOUS
  <2>1. book[s][l][i] \in RestingOrder /\ book[s][l][i].seq <= seq
    BY <1>3, <1>4, <1>6 DEF BookOK
  <2>2. book[s][l][i].seq \in Nat
    BY <2>1 DEF RestingOrder
  <2> QED
    BY <1>1, <2>1, <2>2
<1>10. ASSUME NEW l \in Levels, NEW i \in 1..Len(book'[s][l]), book'[s][l][i].seq = seq + 1
       PROVE  l = p /\ i = Len(r)
  <2>1. CASE l # p
    <3>1. book'[s][l] = book[s][l]
      BY <1>3, <1>4, <2>1, Added
    <3> QED
      BY <1>9, <1>10, <3>1
  <2>2. CASE l = p
    <3>1. i \in 1..Len(r) /\ r[i].seq = seq + 1
      BY <1>5, <1>10, <2>2
    <3>2. i \notin 1..Len(q)
      <4>1. \A k \in 1..Len(q) : q[k].seq # seq + 1
        BY <1>3, <1>4, <1>5, <1>9
      <4>2. \A k \in 1..Len(q) : r[k].seq # seq + 1
        BY <1>8, <4>1
      <4> QED
        BY <3>1, <4>2
    <3> QED
      BY <1>6, <1>8, <2>2, <3>1, <3>2
  <2> QED
    BY <2>1, <2>2
<1>11. ASSUME NEW l \in Open(s)', NEW m \in Open(Other(s))', l + m >= 100
       PROVE  l = p /\ Len(r) = 1
  <2>1. Other(s) \in Sides /\ Other(s) # s
    BY <1>3, <1>4 DEF Other, Sides
  <2>2. m \in Open(Other(s)) /\ l \in Levels /\ m \in 0..MaxPrice /\ l \in 0..MaxPrice
    BY <1>4, <2>1, Added, LevelsBounded DEF Open
  <2>3. l \notin Open(s)
    <3>1. l \in Open(s) => l + m < 100
      BY <1>1, <1>3, <1>4, <2>2, NoPairCrosses
    <3> QED
      BY <1>11, <2>2, <3>1
  <2>4. l = p
    <3>1. CASE l # p
      <4>1. book'[s][l] = book[s][l]
        BY <1>3, <1>4, <2>2, <3>1, Added
      <4> QED
        BY <2>2, <2>3, <4>1 DEF Open
    <3> QED
      BY <3>1
  <2>5. q = <<>>
    BY <1>5, <2>2, <2>3, <2>4 DEF Open
  <2> QED
    BY <1>8, <2>4, <2>5
<1>12. filled' <= o.quantity /\ o.quantity - filled' = o.quantity /\ filled' < o.quantity
  BY <1>1, <1>3
<1> QED
  <2>1. cur'.side = s /\ cur'.price = p /\ (book[cur.side][cur.price])' = r
    BY <1>2, <1>4, <1>5
  <2>2. Open(cur.side)' = Open(s)' /\ Open(Other(cur.side))' = Open(Other(s))'
    BY <2>1 DEF Open, Other
  <2>3. filled' < cur'.quantity =>
          /\ r # <<>> /\ r[Len(r)].seq = cur'.seq
          /\ r[Len(r)].remaining = cur'.quantity - filled'
          /\ r[Len(r)].user = cur'.user /\ r[Len(r)].outcome = cur'.outcome
    BY <1>2, <1>7, <1>8, <1>12
  <2>4. \A l \in Levels : \A i \in 1..Len(book'[s][l]) :
          book'[s][l][i].seq = cur'.seq => l = p /\ i = Len(r) /\ filled' < cur'.quantity
    BY <1>2, <1>10, <1>12
  <2>5. \A l \in Open(s)', m \in Open(Other(s))' :
          l + m >= 100 => l = p /\ Len(r) = 1 /\ filled' < cur'.quantity
    BY <1>2, <1>11, <1>12
  <2>6. filled' <= cur'.quantity /\ phase' \notin {"idle", "exited"}
    BY <1>1, <1>2, <1>12
  <2> QED
    BY <2>1, <2>2, <2>3, <2>4, <2>5, <2>6 DEF RestsOK

LEMMA RestsMatched ==
    ASSUME TypeOK, BookOK, CurOK, RestsOK, ExecuteMatch
    PROVE  RestsOK'
<1>1. /\ phase = "matching" /\ phase' = "matching" /\ cur' = cur /\ Crosses
      /\ filled' = filled + Quantity /\ filled \in Nat
  BY Matched DEF ExecuteMatch, TypeOK
<1>2. PICK s, p, t : s = cur.side /\ p = cur.price /\ t = Other(cur.side)
  OBVIOUS
<1>3. /\ s \in Sides /\ p \in Levels /\ cur.quantity \in Nat \ {0} /\ t \in Sides /\ t # s
      /\ \/ s = "YES" /\ t = "NO"
         \/ s = "NO" /\ t = "YES"
  <2>1. seq \in Nat
    BY DEF TypeOK
  <2>2. s \in Sides /\ p \in Levels /\ cur.quantity \in Nat \ {0}
    BY <1>1, <1>2, <2>1, CurFields
  <2> QED
    BY <1>2, <2>2 DEF Other, Sides
<1>4. PICK q, r : q = book[s][p] /\ r = book'[s][p]
  OBVIOUS
<1>5. /\ filled < cur.quantity =>
           q # <<>> /\ q[Len(q)].seq = cur.seq /\ q[Len(q)].remaining = cur.quantity - filled
           /\ q[Len(q)].user = cur.user /\ q[Len(q)].outcome = cur.outcome
      /\ \A l \in Levels : \A i \in 1..Len(book[s][l]) :
           book[s][l][i].seq = cur.seq => l = p /\ i = Len(q) /\ filled < cur.quantity
      /\ \A l \in Open(s), m \in Open(t) :
           l + m >= 100 => l = p /\ Len(q) = 1 /\ filled < cur.quantity
  BY <1>1, <1>2, <1>4 DEF RestsOK
<1>6. Best(s) = p /\ Len(q) = 1 /\ filled < cur.quantity
  <2>1. \A x \in Sides : Best(x) \in Open(x) /\ Best(x) \in 0..MaxPrice
    BY <1>1, BestOpen DEF Crosses, BothSides, Sides
  <2>2. Best("YES") + Best("NO") >= 100
    BY <1>1 DEF Crosses
  <2>3. Best(s) + Best(t) >= 100
    BY <1>3, <2>1, <2>2
  <2> QED
    BY <1>3, <1>5, <2>1, <2>3
<1>7. /\ q \in Seq(RestingOrder) /\ Head(q) = q[1] /\ q[1] \in RestingOrder
      /\ q[1].seq = cur.seq /\ q[1].remaining = cur.quantity - filled
      /\ q[1].user = cur.user /\ q[1].outcome = cur.outcome
  <2>1. q \in Seq(RestingOrder)
    BY <1>3, <1>4 DEF TypeOK
  <2> QED
    BY <1>5, <1>6, <2>1
<1>8. /\ r = FillFront(q, Quantity) /\ Quantity \in Nat \ {0} /\ q # <<>>
      /\ Quantity <= Head(q).remaining
  BY <1>1, <1>3, <1>4, <1>6, Matched, FrontsMeet DEF FrontOf
<1>9. FilledBy(q, Quantity, r)
  BY <1>7, <1>8, FilledFront
<1>10. \A l \in Levels : l # p => book'[s][l] = book[s][l]
  BY <1>3, <1>6, Matched
<1>11. Open(s)' \subseteq Open(s) /\ Open(t)' \subseteq Open(t)
  BY <1>3, MatchedQueue DEF Open
<1>12. CASE Head(q).remaining = Quantity
  <2>1. Len(r) = 0 /\ r \in Seq(RestingOrder)
    BY <1>6, <1>9, <1>12 DEF FilledBy
  <2>2. filled' = cur.quantity
    BY <1>1, <1>3, <1>7, <1>8, <1>12
  <2>3. \A l \in Levels : \A i \in 1..Len(book'[s][l]) : book'[s][l][i].seq # cur.seq
    BY <1>3, <1>4, <1>5, <1>10, <2>1
  <2>4. p \notin Open(s)'
    BY <1>4, <2>1 DEF Open
  <2>5. \A l \in Open(s)', m \in Open(t)' : ~(l + m >= 100)
    BY <1>5, <1>11, <2>4
  <2>6. Open(cur.side)' = Open(s)' /\ Open(Other(cur.side))' = Open(t)'
    BY <1>1, <1>2 DEF Open, Other
  <2>7. filled' <= cur.quantity /\ ~(filled' < cur.quantity)
    BY <1>3, <2>2
  <2>8. phase' \notin {"idle", "exited"}
    BY <1>1
  <2> QED
    BY <1>1, <1>2, <2>3, <2>5, <2>6, <2>7, <2>8 DEF RestsOK
<1>13. CASE Head(q).remaining # Quantity
  <2>1. Len(r) = 1 /\ r \in Seq(RestingOrder) /\ r[1] = [q[1] EXCEPT !.remaining = @ - Quantity]
    BY <1>6, <1>7, <1>9, <1>13 DEF FilledBy
  <2>2. /\ r[1].seq = cur.seq /\ r[1].remaining = q[1].remaining - Quantity
        /\ r[1].user = cur.user /\ r[1].outcome = cur.outcome
    BY <1>7, <2>1 DEF RestingOrder
  <2>3. /\ filled' < cur.quantity /\ filled' <= cur.quantity
        /\ r[1].remaining = cur.quantity - filled'
    BY <1>1, <1>3, <1>7, <1>8, <1>13, <2>2
  <2>4. \A l \in Levels : \A i \in 1..Len(book'[s][l]) :
          book'[s][l][i].seq = cur.seq => l = p /\ i = 1
    <3> SUFFICES ASSUME NEW l \in Levels, NEW i \in 1..Len(book'[s][l]),
                        book'[s][l][i].seq = cur.seq
                 PROVE  l = p /\ i = 1
      OBVIOUS
    <3>1. l = p
      BY <1>5, <1>10
    <3>2. i = 1
      BY <1>4, <2>1, <3>1
    <3> QED
      BY <3>1, <3>2
  <2>5. \A l \in Open(s)', m \in Open(t)' : l + m >= 100 => l = p
    BY <1>5, <1>11
  <2>6. Open(cur.side)' = Open(s)' /\ Open(Other(cur.side))' = Open(t)'
    BY <1>1, <1>2 DEF Open, Other
  <2>7. r # <<>> /\ (book[cur.side][cur.price])' = r
    BY <1>1, <1>2, <1>4, <2>1
  <2> QED
    BY <1>1, <1>2, <2>1, <2>2, <2>3, <2>4, <2>5, <2>6, <2>7 DEF RestsOK
<1> QED
  BY <1>12, <1>13

LEMMA RestsStep == Inv /\ RestsOK /\ [Next]_vars => RestsOK'
<1> SUFFICES ASSUME Inv, RestsOK, [Next]_vars PROVE RestsOK'
  OBVIOUS
<1>1. TypeOK /\ BookOK /\ CurOK /\ Uncrossed
  BY DEF Inv
<1>2. \A o \in Orders : AddOrder(o) => RestsOK'
  BY <1>1, RestsAdded
<1>3. ExecuteMatch => RestsOK'
  BY <1>1, RestsMatched
<1>4. ASSUME book' = book, cur' = cur, filled' = filled,
             phase' = phase \/ (phase = "matching" /\ phase' = "fallback")
      PROVE  RestsOK'
  BY <1>4 DEF RestsOK, Open
<1>5. ASSUME phase' \in {"idle", "exited"}, filled' = 0 PROVE RestsOK'
  BY <1>5 DEF RestsOK
<1>6. CASE StopMatching
  <2>1. \/ phase' = "idle" /\ filled' = 0
        \/ /\ phase = "matching" /\ phase' = "fallback"
           /\ book' = book /\ cur' = cur /\ filled' = filled
    BY <1>6 DEF StopMatching, Return
  <2> QED
    BY <1>4, <1>5, <2>1
<1>7. FillFromAmm \/ RestRemainder => phase' = "idle" /\ filled' = 0
  BY DEF FillFromAmm, RestRemainder, Return
<1>8. VoidMarket => phase' = "exited" /\ filled' = 0
  BY DEF VoidMarket, RestsOK
<1>9. UNCHANGED vars => RestsOK'
  <2>1. UNCHANGED vars => book' = book /\ cur' = cur /\ filled' = filled /\ phase' = phase
    BY DEF vars
  <2> QED
    BY <1>4, <2>1
<1>10. FillFromAmm \/ RestRemainder \/ VoidMarket => RestsOK'
  BY <1>5, <1>7, <1>8
<1> QED
  BY <1>2, <1>3, <1>6, <1>9, <1>10 DEF Next

LEMMA RestsCounted == Inv /\ RestsOK => RemainderRests
<1> SUFFICES ASSUME Inv, RestsOK, phase \in {"matching", "fallback"}
             PROVE  cur.quantity - filled =
                      Remaining({o \in Resting(cur.side) : o.seq = cur.seq})
  BY DEF RemainderRests
<1>1. /\ book \in [Sides -> [Levels -> Seq(RestingOrder)]] /\ filled \in Nat
      /\ seq \in Nat /\ CurOK
  BY DEF Inv, TypeOK
<1>2. PICK s, p : s = cur.side /\ p = cur.price
  OBVIOUS
<1>3. s \in Sides /\ p \in Levels /\ cur.quantity \in Nat
  BY <1>1, <1>2, CurFields
<1>4. PICK q, n : q = book[s][p] /\ n = Len(q)
  OBVIOUS
<1>5. PICK S : S = {o \in Resting(cur.side) : o.seq = cur.seq}
  OBVIOUS
<1>6. \A o : o \in Resting(s) <=> \E l \in Levels : \E i \in 1..Len(book[s][l]) : o = book[s][l][i]
  BY <1>1, <1>3, RestingFinite
<1>7. /\ filled <= cur.quantity
      /\ filled < cur.quantity =>
           q # <<>> /\ q[n].seq = cur.seq /\ q[n].remaining = cur.quantity - filled
      /\ \A l \in Levels : \A i \in 1..Len(book[s][l]) :
           book[s][l][i].seq = cur.seq => l = p /\ i = n /\ filled < cur.quantity
  BY <1>2, <1>4 DEF RestsOK
<1>8. \A o \in S : o = q[n] /\ filled < cur.quantity
  BY <1>2, <1>4, <1>5, <1>6, <1>7
<1>9. CASE filled < cur.quantity
  <2>1. q \in Seq(RestingOrder) /\ n \in 1..Len(q) /\ q[n] \in RestingOrder
    BY <1>1, <1>3, <1>4, <1>7, <1>9
  <2>2. PICK x : x = q[n]
    OBVIOUS
  <2>3. x \in S
    BY <1>2, <1>3, <1>4, <1>5, <1>6, <1>7, <1>9, <2>1, <2>2
  <2>4. S = {x}
    BY <1>8, <2>2, <2>3
  <2>5. IsFiniteSet(S) /\ S # {} /\ Pick(S) = x /\ S \ {x} = {}
    BY <2>4, FS_Singleton DEF Pick
  <2>6. x.remaining = cur.quantity - filled /\ x.remaining \in Nat
    BY <1>1, <1>3, <1>7, <1>9, <2>2
  <2>7. Remaining(S) = Total(Left, S) /\ Left[x] = x.remaining
    BY <2>1, <2>2, <2>4, <2>5, RemainingTotal
  <2>8. Total(Left, S) = Left[x] + Total(Left, S \ {x})
    BY <2>5, TotalPick
  <2>9. Total(Left, S \ {x}) = 0
    BY <2>5, FS_EmptySet, TotalPick
  <2> QED
    BY <1>5, <2>6, <2>7, <2>8, <2>9
<1>10. CASE ~(filled < cur.quantity)
  <2>1. cur.quantity - filled = 0
    BY <1>1, <1>3, <1>7, <1>10
  <2>2. S = {}
    BY <1>8, <1>10
  <2>3. IsFiniteSet(S)
    BY <2>2, FS_EmptySet
  <2>4. Remaining(S) = Total(Left, S) /\ Total(Left, S) = 0
    BY <2>2, <2>3, RemainingTotal, TotalPick
  <2> QED
    BY <1>5, <2>1, <2>4
<1> QED
  BY <1>9, <1>10

-----------------------------------------------------------------------------
(* The shares of a user *)

HeldBy(b, u, s) == {o \in RestIn(b, s) : o.user = u}
Holding(b, u, s) == Total(Left, HeldBy(b, u, s))

LEMMA HeldFinite ==
    ASSUME NEW s \in Sides, NEW b \in [Sides -> [Levels -> Seq(RestingOrder)]], NEW u
    PROVE  /\ IsFiniteSet(HeldBy(b, u, s)) /\ HeldBy(b, u, s) \subseteq RestingOrder
           /\ Holding(b, u, s) \in Nat
<1>1. IsFiniteSet(RestIn(b, s)) /\ RestIn(b, s) \subseteq RestingOrder
  BY RestInFinite
<1>2. HeldBy(b, u, s) \subseteq RestIn(b, s)
  BY DEF HeldBy
<1>3. IsFiniteSet(HeldBy(b, u, s)) /\ HeldBy(b, u, s) \subseteq RestingOrder
  BY <1>1, <1>2, FS_Subset
<1> QED
  BY <1>3, RemainingTotal DEF Holding

\* No order of one side has the number of an order of the other.
Apart(b) == \A x \in RestIn(b, "YES"), y \in RestIn(b, "NO") : x.seq # y.seq

\* What a user has resting is what rests of his on each side.
LEMMA HoldingSplit ==
    ASSUME NEW b \in [Sides -> [Levels -> Seq(RestingOrder)]], Apart(b), NEW u
    PROVE  Remaining({o \in RestIn(b, "YES") \cup RestIn(b, "NO") : o.user = u}) =
             Holding(b, u, "YES") + Holding(b, u, "NO")
<1>1. "YES" \in Sides /\ "NO" \in Sides
  BY DEF Sides
<1>2. PICK Y, N : Y = HeldBy(b, u, "YES") /\ N = HeldBy(b, u, "NO")
  OBVIOUS
<1>3. /\ IsFiniteSet(Y) /\ IsFiniteSet(N) /\ Y \subseteq RestingOrder /\ N \subseteq RestingOrder
  BY <1>1, <1>2, HeldFinite
<1>4. IsFiniteSet(Y \cup N)
  BY <1>3, FS_Union
<1>5. Y \cap N = {}
  BY <1>2 DEF Apart, HeldBy
<1>6. {o \in RestIn(b, "YES") \cup RestIn(b, "NO") : o.user = u} = Y \cup N
  BY <1>2 DEF HeldBy
<1>7. /\ Remaining(Y \cup N) = Total(Left, Y \cup N)
      /\ \A o \in Y \cup N : Left[o] \in Nat
  BY <1>3, <1>4, RemainingTotal
<1>8. Total(Left, Y \cup N) = Total(Left, Y) + Total(Left, N)
  BY <1>4, <1>5, <1>7, TotalUnion
<1> QED
  BY <1>2, <1>6, <1>7, <1>8 DEF Holding

\* What an added order adds to what its user has resting.
LEMMA HoldingAdds ==
    ASSUME TypeOK, BookOK, NEW o \in Orders, AddOrder(o), NEW s \in Sides, NEW u
    PROVE  Holding(book', u, s) = Holding(book, u, s)
             + (IF s = o.side /\ u = o.user THEN o.quantity ELSE 0)
<1>1. PICK e : e = Entry(o)
  OBVIOUS
<1>2. /\ book \in [Sides -> [Levels -> Seq(RestingOrder)]] /\ seq \in Nat
      /\ book' \in [Sides -> [Levels -> Seq(RestingOrder)]]
      /\ e \in RestingOrder /\ o.side \in Sides /\ o.price \in Levels
      /\ e.remaining = o.quantity /\ e.user = o.user /\ e.seq = seq + 1
  BY <1>1, Added, OrderFields DEF TypeOK, Entry
<1>3. PICK H, R : H = HeldBy(book, u, s) /\ R = HeldBy(book', u, s)
  OBVIOUS
<1>4. /\ \A x : x \in RestIn(book, s) <=>
           \E l \in Levels : \E i \in 1..Len(book[s][l]) : x = book[s][l][i]
      /\ \A x : x \in RestIn(book', s) <=>
           \E l \in Levels : \E i \in 1..Len(book'[s][l]) : x = book'[s][l][i]
  BY <1>2, RestInFinite
<1>5. e \notin RestIn(book, s)
  <2> SUFFICES ASSUME NEW l \in Levels, NEW i \in 1..Len(book[s][l]), e = book[s][l][i]
               PROVE  FALSE
    BY <1>4
  <2>1. e.seq <= seq
    BY DEF BookOK
  <2> QED
    BY <1>2, <2>1
<1>6. CASE s # o.side
  <2>1. \A l \in Levels : book'[s][l] = book[s][l]
    BY <1>6, Added
  <2>2. RestIn(book', s) = RestIn(book, s)
    BY <2>1 DEF RestIn
  <2>3. Holding(book', u, s) = Holding(book, u, s)
    BY <2>2 DEF Holding, HeldBy
  <2> QED
    BY <1>2, <1>6, <2>3, HeldFinite
<1>7. CASE s = o.side
  <2>1. PICK q, r : q = book[s][o.price] /\ r = book'[s][o.price]
    OBVIOUS
  <2>2. /\ r = Append(q, e) /\ q \in Seq(RestingOrder)
        /\ \A l \in Levels : l # o.price => book'[s][l] = book[s][l]
    BY <1>1, <1>2, <1>7, <2>1, Added
  <2>3. /\ Len(q) \in Nat /\ Len(r) = Len(q) + 1 /\ r[Len(q) + 1] = e
        /\ \A i \in 1..Len(q) : r[i] = q[i] /\ i \in 1..Len(r)
        /\ \A i \in 1..Len(r) : i \in 1..Len(q) \/ i = Len(q) + 1
        /\ Len(q) + 1 \in 1..Len(r)
    BY <1>2, <2>2
  <2>4. \A x : x \in RestIn(book', s) <=> x \in RestIn(book, s) \/ x = e
    <3> SUFFICES ASSUME NEW x
                 PROVE  x \in RestIn(book', s) <=> x \in RestIn(book, s) \/ x = e
      OBVIOUS
    <3>1. ASSUME x \in RestIn(book', s) PROVE x \in RestIn(book, s) \/ x = e
      <4>1. PICK l \in Levels : \E i \in 1..Len(book'[s][l]) : x = book'[s][l][i]
        BY <1>4, <3>1
      <4>2. CASE l # o.price
        BY <1>4, <2>2, <4>1, <4>2
      <4>3. CASE l = o.price
        BY <1>4, <2>1, <2>3, <4>1, <4>3
      <4> QED
        BY <4>2, <4>3
    <3>2. ASSUME x \in RestIn(book, s) PROVE x \in RestIn(book', s)
      <4>1. PICK l \in Levels : \E i \in 1..Len(book[s][l]) : x = book[s][l][i]
        BY <1>4, <3>2
      <4>2. CASE l # o.price
        BY <1>4, <2>2, <4>1, <4>2
      <4>3. CASE l = o.price
        <5>1. \E i \in 1..Len(r) : x = r[i]
          BY <2>1, <2>3, <4>1, <4>3
        <5> QED
          BY <1>2, <1>4, <2>1, <5>1
      <4> QED
        BY <4>2, <4>3
    <3>3. e \in RestIn(book', s)
      BY <1>2, <1>4, <2>1, <2>3
    <3> QED
      BY <3>1, <3>2, <3>3
  <2>5. CASE u # o.user
    <3>1. R = H
      BY <1>2, <1>3, <2>4, <2>5 DEF HeldBy
    <3>2. Holding(book', u, s) = Holding(book, u, s)
      BY <1>3, <3>1 DEF Holding
    <3>3. Holding(book, u, s) \in Nat
      BY <1>2, HeldFinite
    <3> QED
      BY <2>5, <3>2, <3>3
  <2>6. CASE u = o.user
    <3>1. R = H \cup {e} /\ e \notin H
      BY <1>2, <1>3, <1>5, <2>4, <2>6 DEF HeldBy
    <3>2. IsFiniteSet(R) /\ R \subseteq RestingOrder
      BY <1>2, <1>3, HeldFinite
    <3>3. \A x \in R : Left[x] = x.remaining /\ Left[x] \in Nat
      BY <3>2, RemainingTotal
    <3>4. Total(Left, R) = Total(Left, H) + Left[e]
      <4>1. H \in SUBSET R /\ e \in R \ H
        BY <3>1
      <4> QED
        BY <3>1, <3>2, <3>3, <4>1, TotalAdd
    <3>5. Left[e] = o.quantity
      BY <1>2, <3>1, <3>3
    <3> QED
      BY <1>3, <1>7, <2>6, <3>4, <3>5 DEF Holding
  <2> QED
    BY <2>5, <2>6
<1> QED
  BY <1>6, <1>7

\* What a match leaves resting on a side: all but the front of its best level,
\* and what that order keeps.
LEMMA MatchedSide ==
    ASSUME TypeOK, BookOK, ExecuteMatch, NEW s \in Sides,
           NEW f, f = FrontOf(s), NEW y, y = [f EXCEPT !.remaining = @ - Quantity]
    PROVE  /\ f \in RestIn(book, s) /\ y \notin RestIn(book, s) \ {f}
           /\ f.remaining = Quantity => RestIn(book', s) = RestIn(book, s) \ {f}
           /\ f.remaining # Quantity => RestIn(book', s) = (RestIn(book, s) \ {f}) \cup {y}
<1>1. /\ book \in [Sides -> [Levels -> Seq(RestingOrder)]]
      /\ book' \in [Sides -> [Levels -> Seq(RestingOrder)]]
      /\ Crosses /\ \A l \in Levels : l # Best(s) => book'[s][l] = book[s][l]
  BY Matched DEF TypeOK
<1>2. PICK B, q, r : B = Best(s) /\ q = book[s][B] /\ r = book'[s][B]
  OBVIOUS
<1>3. /\ B \in Levels /\ q \in Seq(RestingOrder) /\ q # <<>> /\ Len(q) \in Nat
      /\ f = q[1] /\ f = Head(q) /\ f \in RestingOrder /\ f.price = B
      /\ Quantity \in Nat \ {0} /\ Quantity <= Head(q).remaining
  BY <1>1, <1>2, FrontsMeet DEF FrontOf
<1>4. FilledBy(q, Quantity, r)
  <2>1. r = FillFront(q, Quantity)
    BY <1>2, <1>3, Matched
  <2> QED
    BY <1>3, <2>1, FilledFront
<1>5. /\ \A x : x \in RestIn(book, s) <=>
           \E l \in Levels : \E i \in 1..Len(book[s][l]) : x = book[s][l][i]
      /\ \A x : x \in RestIn(book', s) <=>
           \E l \in Levels : \E i \in 1..Len(book'[s][l]) : x = book'[s][l][i]
  BY <1>1, RestInFinite
<1>6. 1 \in 1..Len(q) /\ f \in RestIn(book, s)
  <2>1. 1 \in 1..Len(q)
    BY <1>3
  <2> QED
    BY <1>2, <1>3, <1>5, <2>1
<1>7. \A x : x \in RestIn(book, s) \ {f} <=>
        \/ \E l \in Levels \ {B} : \E i \in 1..Len(book[s][l]) : x = book[s][l][i]
        \/ \E i \in 2..Len(q) : x = q[i]
  <2>1. \A l \in Levels \ {B} : \A i \in 1..Len(book[s][l]) : book[s][l][i] # f
    BY <1>3 DEF BookOK
  <2>2. \A i \in 2..Len(q) : q[i] # f
    <3> SUFFICES ASSUME NEW i \in 2..Len(q), q[i] = f PROVE FALSE
      OBVIOUS
    <3>0. Ascending(q) /\ f.seq \in Nat
      BY <1>2, <1>3 DEF BookOK, RestingOrder
    <3>1. Ascending(q) /\ 1 \in DOMAIN q /\ i \in DOMAIN q /\ 1 < i /\ f.seq \in Nat
      BY <1>3, <3>0
    <3>2. q[1].seq < q[i].seq
      BY <3>1 DEF Ascending
    <3> QED
      BY <1>3, <3>1, <3>2
  <2>3. \A i \in 1..Len(q) : i = 1 \/ i \in 2..Len(q)
    OBVIOUS
  <2>4. \A i \in 2..Len(q) : i \in 1..Len(q)
    OBVIOUS
  <2> SUFFICES ASSUME NEW x
               PROVE  x \in RestIn(book, s) \ {f} <=>
                        \/ \E l \in Levels \ {B} : \E i \in 1..Len(book[s][l]) : x = book[s][l][i]
                        \/ \E i \in 2..Len(q) : x = q[i]
    OBVIOUS
  <2>5. ASSUME x \in RestIn(book, s), x # f
        PROVE  \/ \E l \in Levels \ {B} : \E i \in 1..Len(book[s][l]) : x = book[s][l][i]
               \/ \E i \in 2..Len(q) : x = q[i]
    <3>1. PICK l \in Levels : \E i \in 1..Len(book[s][l]) : x = book[s][l][i]
      BY <1>5, <2>5
    <3>2. CASE l = B
      BY <1>2, <1>3, <2>3, <2>5, <3>1, <3>2
    <3> QED
      BY <3>1, <3>2
  <2>6. ASSUME NEW l \in Levels \ {B}, NEW i \in 1..Len(book[s][l]), x = book[s][l][i]
        PROVE  x \in RestIn(book, s) /\ x # f
    BY <1>5, <2>1, <2>6
  <2>7. ASSUME NEW i \in 2..Len(q), x = q[i]
        PROVE  x \in RestIn(book, s) /\ x # f
    BY <1>2, <1>3, <1>5, <2>2, <2>4, <2>7
  <2> QED
    BY <2>5, <2>6, <2>7
<1>8. \A x : x \in RestIn(book', s) <=>
        \/ \E l \in Levels \ {B} : \E i \in 1..Len(book[s][l]) : x = book[s][l][i]
        \/ \E i \in 1..Len(r) : x = r[i]
  <2>1. \A l \in Levels : l = B \/ l \in Levels \ {B}
    OBVIOUS
  <2>2. \A l \in Levels \ {B} : book'[s][l] = book[s][l]
    BY <1>1, <1>2
  <2> QED
    BY <1>2, <1>3, <1>5, <2>1, <2>2
<1>9. y \notin RestIn(book, s) \ {f}
  <2>1. y.price = B /\ y.seq = f.seq /\ f.seq \in Nat
    BY <1>3 DEF RestingOrder
  <2>2. \A l \in Levels \ {B} : \A i \in 1..Len(book[s][l]) : book[s][l][i] # y
    <3>1. \A l \in Levels \ {B} : \A i \in 1..Len(book[s][l]) : book[s][l][i].price # B
      BY DEF BookOK
    <3> QED
      BY <2>1, <3>1
  <2>3. \A i \in 2..Len(q) : q[i] # y
    <3> SUFFICES ASSUME NEW i \in 2..Len(q), q[i] = y PROVE FALSE
      OBVIOUS
    <3>0. Ascending(q)
      BY <1>2, <1>3 DEF BookOK
    <3>1. Ascending(q) /\ 1 \in DOMAIN q /\ i \in DOMAIN q /\ 1 < i
      BY <1>3, <3>0
    <3>2. q[1].seq < q[i].seq
      BY <3>1 DEF Ascending
    <3> QED
      BY <1>3, <2>1, <3>2
  <2> QED
    BY <1>7, <2>2, <2>3
<1>10. ASSUME f.remaining = Quantity PROVE RestIn(book', s) = RestIn(book, s) \ {f}
  <2>1. Len(r) = Len(q) - 1 /\ \A i \in 1..Len(r) : r[i] = q[i + 1]
    BY <1>3, <1>4, <1>10 DEF FilledBy
  <2>2. \A x : (\E i \in 1..Len(r) : x = r[i]) <=> (\E i \in 2..Len(q) : x = q[i])
    <3> SUFFICES ASSUME NEW x
                 PROVE  (\E i \in 1..Len(r) : x = r[i]) <=> (\E i \in 2..Len(q) : x = q[i])
      OBVIOUS
    <3>1. ASSUME NEW i \in 1..Len(r), x = r[i] PROVE \E k \in 2..Len(q) : x = q[k]
      <4>1. i + 1 \in 2..Len(q) /\ x = q[i + 1]
        BY <1>3, <2>1, <3>1
      <4> QED
        BY <4>1
    <3>2. ASSUME NEW k \in 2..Len(q), x = q[k] PROVE \E i \in 1..Len(r) : x = r[i]
      <4>1. PICK i \in 1..Len(r) : i + 1 = k
        <5>1. k - 1 \in 1..Len(r) /\ (k - 1) + 1 = k
          BY <1>3, <2>1
        <5> QED
          BY <5>1
      <4> QED
        BY <2>1, <3>2, <4>1
    <3> QED
      BY <3>1, <3>2
  <2> QED
    BY <1>7, <1>8, <2>2
<1>11. ASSUME f.remaining # Quantity
       PROVE  RestIn(book', s) = (RestIn(book, s) \ {f}) \cup {y}
  <2>1. Len(r) = Len(q) /\ r[1] = y /\ \A i \in 2..Len(r) : r[i] = q[i]
    BY <1>3, <1>4, <1>11 DEF FilledBy
  <2>2. \A i \in 1..Len(r) : i = 1 \/ i \in 2..Len(r)
    OBVIOUS
  <2>3. 1 \in 1..Len(r) /\ \A i \in 2..Len(r) : i \in 1..Len(r)
    BY <1>6, <2>1
  <2>4. \A x : (\E i \in 1..Len(r) : x = r[i]) <=> x = y \/ (\E i \in 2..Len(q) : x = q[i])
    BY <2>1, <2>2, <2>3
  <2>5. \A x : x \in RestIn(book', s) <=> x \in RestIn(book, s) \ {f} \/ x = y
    BY <1>7, <1>8, <2>4
  <2> QED
    BY <2>5
<1> QED
  BY <1>6, <1>9, <1>10, <1>11

\* A match takes what it trades from its user's resting orders, on each side.
LEMMA HoldingMatched ==
    ASSUME TypeOK, BookOK, ExecuteMatch, NEW s \in Sides, NEW u
    PROVE  Holding(book', u, s) + (IF FrontOf(s).user = u THEN Quantity ELSE 0)
             = Holding(book, u, s)
<1>1. PICK f : f = FrontOf(s)
  OBVIOUS
<1>2. PICK y : y = [f EXCEPT !.remaining = @ - Quantity]
  OBVIOUS
<1>3. PICK H, R, K : H = HeldBy(book, u, s) /\ R = HeldBy(book', u, s) /\ K = H \ {f}
  OBVIOUS
<1>4. /\ book \in [Sides -> [Levels -> Seq(RestingOrder)]]
      /\ book' \in [Sides -> [Levels -> Seq(RestingOrder)]]
      /\ f \in RestingOrder /\ Quantity \in Nat \ {0} /\ Quantity <= f.remaining
  BY <1>1, Matched, FrontsMeet DEF TypeOK
<1>5. /\ f \in RestIn(book, s) /\ y \notin RestIn(book, s) \ {f}
      /\ f.remaining = Quantity => RestIn(book', s) = RestIn(book, s) \ {f}
      /\ f.remaining # Quantity => RestIn(book', s) = (RestIn(book, s) \ {f}) \cup {y}
  BY <1>1, <1>2, MatchedSide
<1>6. y.user = f.user /\ y.remaining = f.remaining - Quantity /\ f.remaining \in Nat
  BY <1>2, <1>4 DEF RestingOrder
<1>7. /\ IsFiniteSet(H) /\ IsFiniteSet(R) /\ H \subseteq RestingOrder /\ R \subseteq RestingOrder
      /\ Holding(book, u, s) = Total(Left, H) /\ Holding(book', u, s) = Total(Left, R)
      /\ Total(Left, H) \in Nat
  BY <1>3, <1>4, HeldFinite DEF Holding
<1>8. CASE f.user # u
  <2>1. R = H
    BY <1>3, <1>5, <1>6, <1>8 DEF HeldBy
  <2> QED
    BY <1>1, <1>7, <1>8, <2>1
<1>9. CASE f.user = u
  <2>1. f \in H /\ K \in SUBSET H /\ f \in H \ K /\ K \cup {f} = H
    BY <1>3, <1>5, <1>9 DEF HeldBy
  <2>2. \A x \in H : Left[x] = x.remaining /\ Left[x] \in Nat
    BY <1>7, RemainingTotal
  <2>3. Total(Left, H) = Total(Left, K) + f.remaining
    BY <1>7, <2>1, <2>2, TotalAdd
  <2>4. Total(Left, K) \in Nat
    <3>1. IsFiniteSet(K)
      BY <1>7, <2>1, FS_Subset
    <3> QED
      BY <2>1, <2>2, <3>1, TotalType
  <2>5. CASE f.remaining = Quantity
    <3>1. R = K
      BY <1>3, <1>5, <2>5 DEF HeldBy
    <3> QED
      BY <1>1, <1>7, <1>9, <2>3, <2>5, <3>1
  <2>6. CASE f.remaining # Quantity
    <3>1. R = K \cup {y} /\ y \notin K
      BY <1>3, <1>5, <1>6, <1>9, <2>6 DEF HeldBy
    <3>2. K \in SUBSET R /\ y \in R \ K
      BY <3>1
    <3>3. \A x \in R : Left[x] = x.remaining /\ Left[x] \in Nat
      BY <1>7, RemainingTotal
    <3>4. Total(Left, R) = Total(Left, K) + y.remaining
      BY <1>7, <3>1, <3>2, <3>3, TotalAdd
    <3> QED
      BY <1>1, <1>4, <1>6, <1>7, <1>9, <2>3, <2>4, <3>4
  <2> QED
    BY <2>5, <2>6
<1> QED
  BY <1>8, <1>9

LEMMA WithdrawnSide ==
    ASSUME TypeOK, FillFromAmm, NEW s \in Sides
    PROVE  RestIn(book', s) = RestIn(book, s) \ Withdrawn
<1>1. /\ book \in [Sides -> [Levels -> Seq(RestingOrder)]]
      /\ book' \in [Sides -> [Levels -> Seq(RestingOrder)]]
  BY Withdrew DEF TypeOK
<1>2. /\ \A x : x \in RestIn(book, s) <=>
           \E l \in Levels : \E i \in 1..Len(book[s][l]) : x = book[s][l][i]
      /\ \A x : x \in RestIn(book', s) <=>
           \E l \in Levels : \E i \in 1..Len(book'[s][l]) : x = book'[s][l][i]
  BY <1>1, RestInFinite
<1>3. \A l \in Levels :
        /\ \A i \in 1..Len(book'[s][l]) : \E j \in 1..Len(book[s][l]) :
             book'[s][l][i] = book[s][l][j] /\ book[s][l][j] \notin Withdrawn
        /\ \A j \in 1..Len(book[s][l]) : book[s][l][j] \notin Withdrawn =>
             \E i \in 1..Len(book'[s][l]) : book'[s][l][i] = book[s][l][j]
  BY Withdrew DEF KeptOf
<1>4. ASSUME NEW x \in RestIn(book', s) PROVE x \in RestIn(book, s) \ Withdrawn
  <2>1. PICK l \in Levels : \E i \in 1..Len(book'[s][l]) : x = book'[s][l][i]
    BY <1>2
  <2>2. PICK i \in 1..Len(book'[s][l]) : x = book'[s][l][i]
    BY <2>1
  <2>3. PICK j \in 1..Len(book[s][l]) : x = book[s][l][j] /\ x \notin Withdrawn
    BY <1>3, <2>2
  <2> QED
    BY <1>2, <2>3
<1>5. ASSUME NEW x \in RestIn(book, s), x \notin Withdrawn PROVE x \in RestIn(book', s)
  <2>1. PICK l \in Levels : \E i \in 1..Len(book[s][l]) : x = book[s][l][i]
    BY <1>2
  <2>2. \E i \in 1..Len(book'[s][l]) : x = book'[s][l][i]
    BY <1>3, <1>5, <2>1
  <2> QED
    BY <1>2, <2>2
<1> QED
  BY <1>4, <1>5

LEMMA ApartStep ==
    ASSUME TypeOK, TypeOK', BookOK, Apart(book), [Next]_vars
    PROVE  Apart(book')
<1>1. /\ book \in [Sides -> [Levels -> Seq(RestingOrder)]] /\ seq \in Nat
      /\ book' \in [Sides -> [Levels -> Seq(RestingOrder)]]
      /\ "YES" \in Sides /\ "NO" \in Sides
  BY DEF TypeOK, Sides
<1>2. /\ \A s \in Sides : \A x : x \in RestIn(book, s) <=>
           \E l \in Levels : \E i \in 1..Len(book[s][l]) : x = book[s][l][i]
      /\ \A s \in Sides : \A x : x \in RestIn(book', s) <=>
           \E l \in Levels : \E i \in 1..Len(book'[s][l]) : x = book'[s][l][i]
  BY <1>1, RestInFinite
<1>3. ASSUME \A s \in Sides : \A x \in RestIn(book', s) :
               \E y \in RestIn(book, s) : y.seq = x.seq
      PROVE  Apart(book')
  BY <1>1, <1>3 DEF Apart
<1>4. CASE book' = book
  BY <1>4
<1>5. ASSUME NEW o \in Orders, AddOrder(o) PROVE Apart(book')
  <2>1. \A s \in Sides : \A x \in RestIn(book, s) : x.seq <= seq /\ x.seq \in Nat
    <3> SUFFICES ASSUME NEW s \in Sides, NEW x \in RestIn(book, s)
                 PROVE  x.seq <= seq /\ x.seq \in Nat
      OBVIOUS
    <3>1. PICK l \in Levels : \E i \in 1..Len(book[s][l]) : x = book[s][l][i]
      BY <1>2
    <3>2. x.seq <= seq
      BY <3>1 DEF BookOK
    <3>3. x \in RestingOrder
      BY <1>1, RestInFinite
    <3> QED
      BY <3>2, <3>3 DEF RestingOrder
  <2>2. PICK e : e = Entry(o)
    OBVIOUS
  <2>3. e.seq = seq + 1
    BY <2>2 DEF Entry
  <2>4. \A s \in Sides : \A x \in RestIn(book', s) :
          x \in RestIn(book, s) \/ (s = o.side /\ x = e)
    <3> SUFFICES ASSUME NEW s \in Sides, NEW x \in RestIn(book', s)
                 PROVE  x \in RestIn(book, s) \/ (s = o.side /\ x = e)
      OBVIOUS
    <3>1. PICK l \in Levels : \E i \in 1..Len(book'[s][l]) : x = book'[s][l][i]
      BY <1>2
    <3>2. CASE book'[s][l] = book[s][l]
      BY <1>2, <3>1, <3>2
    <3>3. CASE s = o.side /\ book'[s][l] = Append(book[s][l], e)
      <4>1. PICK q, r : q = book[s][l] /\ r = book'[s][l]
        OBVIOUS
      <4>2. q \in Seq(RestingOrder) /\ r = Append(q, e) /\ e \in RestingOrder
        BY <1>1, <1>5, <2>2, <3>3, <4>1, Added
      <4>3. \A i \in 1..Len(r) : r[i] = e \/ \E j \in 1..Len(q) : r[i] = q[j]
        BY <4>2
      <4> QED
        BY <1>2, <3>1, <3>3, <4>1, <4>3
    <3> QED
      BY <1>5, <2>2, <3>2, <3>3, Added
  <2>5. o.side \in Sides
    BY OrderFields
  <2> SUFFICES ASSUME NEW x \in RestIn(book', "YES"), NEW y \in RestIn(book', "NO"),
                      x.seq = y.seq
               PROVE  FALSE
    BY DEF Apart
  <2>6. /\ x \in RestIn(book, "YES") \/ (o.side = "YES" /\ x = e)
        /\ y \in RestIn(book, "NO") \/ (o.side = "NO" /\ y = e)
    BY <1>1, <2>4
  <2>7. ~(x \in RestIn(book, "YES") /\ y \in RestIn(book, "NO"))
    BY DEF Apart
  <2>8. CASE x \in RestIn(book, "YES") /\ y = e
    BY <1>1, <2>1, <2>3, <2>8
  <2>9. CASE x = e /\ y \in RestIn(book, "NO")
    BY <1>1, <2>1, <2>3, <2>9
  <2> QED
    BY <2>6, <2>7, <2>8, <2>9
<1>6. CASE ExecuteMatch
  <2> SUFFICES ASSUME NEW s \in Sides, NEW x \in RestIn(book', s)
               PROVE  \E y \in RestIn(book, s) : y.seq = x.seq
    BY <1>3
  <2>1. PICK l \in Levels : \E i \in 1..Len(book'[s][l]) : x = book'[s][l][i]
    BY <1>2
  <2>2. PICK i \in 1..Len(book'[s][l]) : x = book'[s][l][i]
    BY <2>1
  <2>3. \E j \in 1..Len(book[s][l]) : book'[s][l][i].seq = book[s][l][j].seq
    BY <1>6, MatchedQueue
  <2>4. PICK j \in 1..Len(book[s][l]) : x.seq = book[s][l][j].seq
    BY <2>2, <2>3
  <2> QED
    BY <1>2, <2>4
<1>7. CASE FillFromAmm
  BY <1>3, <1>7, WithdrawnSide
<1>8. CASE VoidMarket
  <2>1. \A s \in Sides, l \in Levels : book'[s][l] = <<>>
    BY <1>8 DEF VoidMarket
  <2>2. \A s \in Sides : \A x : x \notin RestIn(book', s)
    BY <1>2, <2>1
  <2> QED
    BY <1>1, <2>2 DEF Apart
<1>9. StopMatching \/ RestRemainder \/ UNCHANGED vars => book' = book
  BY DEF StopMatching, RestRemainder, vars
<1> QED
  BY <1>4, <1>5, <1>6, <1>7, <1>8, <1>9 DEF Next

-----------------------------------------------------------------------------
(* The shares traded *)

Parts(x, u) == [i \in DOMAIN x |-> Part(x[i], u)]

LEMMA PartType ==
    ASSUME NEW t \in Trade, NEW u
    PROVE  Part(t, u) \in Nat
<1>1. t.quantity \in Nat
  BY DEF Trade
<1> QED
  BY <1>1 DEF Part

\* What a user traded, as a sum of weights.
LEMMA TradedTotal ==
    ASSUME NEW x \in Seq(Trade), NEW u
    PROVE  /\ (CHOOSE f : f = [s \in SUBSET DOMAIN x |-> IF s = {} THEN 0
                 ELSE Part(x[Pick(s)], u) + f[s \ {Pick(s)}]])[DOMAIN x]
                = Total(Parts(x, u), DOMAIN x)
           /\ IsFiniteSet(DOMAIN x) /\ Total(Parts(x, u), DOMAIN x) \in Nat
<1>1. PICK D, w : D = DOMAIN x /\ w = Parts(x, u)
  OBVIOUS
<1>2. IsFiniteSet(D)
  <2>1. D = 1..Len(x) /\ Len(x) \in Nat
    BY <1>1
  <2> QED
    BY <2>1, FS_Interval
<1> DEFINE Unfolded(f) == [s \in SUBSET D |-> IF s = {} THEN 0
                             ELSE Part(x[Pick(s)], u) + f[s \ {Pick(s)}]]
<1>3. \A f : Unfolded(f) = SummedUp(SUBSET D, w, f)
  <2> SUFFICES ASSUME NEW f PROVE Unfolded(f) = SummedUp(SUBSET D, w, f)
    OBVIOUS
  <2>1. \A s \in SUBSET D : s # {} => Pick(s) \in D
    BY DEF Pick
  <2>2. \A s \in SUBSET D : s # {} => w[Pick(s)] = Part(x[Pick(s)], u)
    BY <1>1, <2>1 DEF Parts
  <2> QED
    BY <2>2 DEF SummedUp
<1>4. PICK f : f = CHOOSE h : h = Unfolded(h)
  OBVIOUS
<1>5. (CHOOSE h : h = [s \in SUBSET DOMAIN x |-> IF s = {} THEN 0
         ELSE Part(x[Pick(s)], u) + h[s \ {Pick(s)}]])[DOMAIN x] = f[D]
  BY <1>1, <1>4
<1> HIDE DEF Unfolded
<1>6. PICK g : g = CHOOSE h : h = SummedUp(SUBSET D, w, h)
  OBVIOUS
<1>7. g = SummedUp(SUBSET D, w, g)
  BY <1>2, <1>6, SumsExist
<1>8. f = SummedUp(SUBSET D, w, f)
  <2>1. \E h : h = Unfolded(h)
    BY <1>3, <1>7
  <2> QED
    BY <1>3, <1>4, <2>1
<1>9. f[D] = g[D]
  BY <1>2, <1>7, <1>8, SumsAgree
<1>10. Total(w, D) \in Nat
  <2>1. \A i \in D : x[i] \in Trade
    BY <1>1
  <2>2. \A i \in D : w[i] \in Nat
    BY <1>1, <2>1, PartType DEF Parts
  <2> QED
    BY <1>2, <2>2, TotalType
<1>11. Total(w, D) = g[D]
  BY <1>6 DEF Total
<1> QED
  BY <1>1, <1>2, <1>5, <1>9, <1>10, <1>11

LEMMA TradedAppend ==
    ASSUME NEW x \in Seq(Trade), NEW t \in Trade, NEW u
    PROVE  Total(Parts(Append(x, t), u), DOMAIN Append(x, t))
             = Total(Parts(x, u), DOMAIN x) + Part(t, u)
<1>1. PICK y, n : y = Append(x, t) /\ n = Len(x)
  OBVIOUS
<1>2. /\ n \in Nat /\ DOMAIN x = 1..n /\ y \in Seq(Trade) /\ DOMAIN y = 1..(n + 1)
      /\ y[n + 1] = t /\ \A i \in 1..n : y[i] = x[i]
  BY <1>1
<1>3. 1..(n + 1) = (1..n) \cup {n + 1} /\ n + 1 \notin 1..n
  BY <1>2
<1>4. PICK v, w : v = Parts(x, u) /\ w = Parts(y, u)
  OBVIOUS
<1>5. \A i \in 1..n : v[i] = w[i]
  BY <1>2, <1>3, <1>4 DEF Parts
<1>6. \A i \in DOMAIN y : w[i] \in Nat
  <2>1. \A i \in DOMAIN y : y[i] \in Trade
    BY <1>2
  <2> QED
    BY <1>4, <2>1, PartType DEF Parts
<1>7. IsFiniteSet(DOMAIN x) /\ IsFiniteSet(DOMAIN y)
  BY <1>2, TradedTotal
<1>8. Total(w, (1..n) \cup {n + 1}) = Total(w, 1..n) + w[n + 1]
  <2>1. PICK A, D, k : A = 1..n /\ D = DOMAIN y /\ k = n + 1
    OBVIOUS
  <2>2. A \in SUBSET D /\ k \in D \ A
    BY <1>2, <1>3, <2>1
  <2>3. IsFiniteSet(D) /\ \A i \in D : w[i] \in Nat
    BY <1>6, <1>7, <2>1
  <2>4. Total(w, A \cup {k}) = Total(w, A) + w[k]
    BY <2>2, <2>3, TotalAdd
  <2> QED
    BY <2>1, <2>4
<1>9. Total(w, 1..n) = Total(v, 1..n)
  BY <1>2, <1>5, <1>7, TotalSame
<1>10. w[n + 1] = Part(t, u)
  BY <1>2, <1>3, <1>4 DEF Parts
<1> QED
  BY <1>1, <1>2, <1>3, <1>4, <1>8, <1>9, <1>10

\* The fill by the AMM takes the remainder of its order off the book, and with it
\* what dropped counts.
LEMMA OwnRemainder ==
    ASSUME Inv, RestsOK, Apart(book), FillFromAmm,
           NEW O, O = {o \in Withdrawn : o.seq = cur.seq}
    PROVE  Remaining(O) = AmmQuantity
<1>1. /\ phase = "fallback" /\ filled < cur.quantity /\ seq \in Nat /\ CurOK
      /\ book \in [Sides -> [Levels -> Seq(RestingOrder)]]
  BY DEF Inv, TypeOK, CurOK, FillFromAmm
<1>2. PICK s, p, q : s = cur.side /\ p = cur.price /\ q = book[s][p]
  OBVIOUS
<1>3. s \in Sides /\ p \in Levels
  BY <1>1, <1>2, CurFields
<1>4. /\ q # <<>> /\ q[Len(q)].seq = cur.seq
      /\ q[Len(q)].user = cur.user /\ q[Len(q)].outcome = cur.outcome
      /\ \A l \in Levels : \A i \in 1..Len(book[s][l]) :
           book[s][l][i].seq = cur.seq => l = p /\ i = Len(q)
  BY <1>1, <1>2 DEF RestsOK
<1>5. Len(q) \in 1..Len(q)
  <2>1. q \in Seq(RestingOrder)
    BY <1>1, <1>2, <1>3
  <2> QED
    BY <1>4, <2>1
<1>6. PICK x : x = q[Len(q)]
  OBVIOUS
<1>7. \A o : o \in Resting(s) <=>
        \E l \in Levels : \E i \in 1..Len(book[s][l]) : o = book[s][l][i]
  BY <1>1, <1>3, RestingFinite
<1>8. x \in Resting(s) /\ \A o \in Resting(s) : o.seq = cur.seq => o = x
  BY <1>2, <1>3, <1>4, <1>5, <1>6, <1>7
<1>9. x.seq = cur.seq /\ x.user = cur.user /\ x.outcome = cur.outcome
  BY <1>4, <1>6
<1>10. \A o \in Resting("YES") \cup Resting("NO") : o.seq = cur.seq => o \in Resting(s)
  <2>1. \A y \in Resting("YES"), z \in Resting("NO") : y.seq # z.seq
    BY DEF Apart, Resting, RestIn
  <2> QED
    BY <1>3, <1>8, <1>9, <2>1 DEF Sides
<1>11. O = {o \in Resting(cur.side) : o.seq = cur.seq}
  <2>1. \A o \in O : o \in Resting(s) /\ o.seq = cur.seq
    BY <1>10 DEF Withdrawn, RestingOf
  <2>2. x \in O
    BY <1>3, <1>8, <1>9 DEF Withdrawn, RestingOf, Sides
  <2> QED
    BY <1>2, <1>8, <2>1, <2>2
<1>12. RemainderRests
  BY RestsCounted
<1> QED
  BY <1>1, <1>11, <1>12 DEF RemainderRests, AmmQuantity

LEMMA AccountStep ==
    ASSUME Inv, RestsOK, Apart(book), TypeOK', Apart(book'), SharesAccounted, [Next]_vars
    PROVE  SharesAccounted'
<1> SUFFICES ASSUME NEW u \in Users
             PROVE  placed'[u] = Traded(u)' + Remaining(RestingOf(u))' + dropped'[u]
  BY DEF SharesAccounted
<1>1. /\ TypeOK /\ BookOK /\ CurOK
      /\ book \in [Sides -> [Levels -> Seq(RestingOrder)]]
      /\ book' \in [Sides -> [Levels -> Seq(RestingOrder)]]
      /\ trades \in Seq(Trade) /\ trades' \in Seq(Trade)
      /\ placed \in [Users -> Nat] /\ dropped \in [Users -> Nat]
      /\ seq \in Nat /\ "YES" \in Sides /\ "NO" \in Sides
  BY DEF Inv, TypeOK, Sides
<1>2. PICK R, S : R = {o \in RestIn(book, "YES") \cup RestIn(book, "NO") : o.user = u}
                  /\ S = {o \in RestIn(book', "YES") \cup RestIn(book', "NO") : o.user = u}
  OBVIOUS
<1>3. R = RestingOf(u) /\ S = RestingOf(u)'
  BY <1>2 DEF RestingOf, Resting, RestIn
<1>4. PICK r, y, n : r = Remaining(R) /\ y = Holding(book, u, "YES") /\ n = Holding(book, u, "NO")
  OBVIOUS
<1>5. PICK rr, yy, nn : rr = Remaining(S) /\ yy = Holding(book', u, "YES")
                          /\ nn = Holding(book', u, "NO")
  OBVIOUS
<1>6. /\ r = y + n /\ rr = yy + nn
      /\ y \in Nat /\ n \in Nat /\ yy \in Nat /\ nn \in Nat
  BY <1>1, <1>2, <1>4, <1>5, HoldingSplit, HeldFinite
<1>7. PICK t, tt : t = Total(Parts(trades, u), DOMAIN trades)
                     /\ tt = Total(Parts(trades', u), DOMAIN trades')
  OBVIOUS
<1>8. Traded(u) = t /\ Traded(u)' = tt /\ t \in Nat /\ tt \in Nat
  <2>1. Traded(u) = t
    BY <1>1, <1>7, TradedTotal DEF Traded, MapThenSumSet, MapThenFoldSet, Pick
  <2>2. Traded(u)' = tt
    BY <1>1, <1>7, TradedTotal DEF Traded, MapThenSumSet, MapThenFoldSet, Pick
  <2> QED
    BY <1>1, <1>7, <2>1, <2>2, TradedTotal
<1>9. placed[u] = t + r + dropped[u] /\ placed[u] \in Nat /\ dropped[u] \in Nat
  BY <1>1, <1>3, <1>4, <1>8 DEF SharesAccounted
<1>10. Remaining(RestingOf(u))' = rr
  BY <1>3, <1>5
<1> SUFFICES placed'[u] = tt + rr + dropped'[u]
  BY <1>8, <1>10
<1>11. CASE placed' = placed /\ dropped' = dropped /\ trades' = trades /\ book' = book
  <2>1. tt = t /\ rr = r
    BY <1>2, <1>4, <1>5, <1>7, <1>11
  <2> QED
    BY <1>9, <1>11, <2>1
<1>12. ASSUME NEW o \in Orders, AddOrder(o) PROVE placed'[u] = tt + rr + dropped'[u]
  <2>1. /\ placed' = [placed EXCEPT ![o.user] = @ + o.quantity]
        /\ trades' = trades /\ dropped' = dropped
    BY <1>12 DEF AddOrder
  <2>2. o.user \in Users /\ o.side \in Sides /\ o.quantity \in Nat
    BY OrderFields
  <2>3. /\ yy = y + (IF "YES" = o.side /\ u = o.user THEN o.quantity ELSE 0)
        /\ nn = n + (IF "NO" = o.side /\ u = o.user THEN o.quantity ELSE 0)
    BY <1>1, <1>4, <1>5, <1>12, HoldingAdds
  <2>4. tt = t /\ dropped'[u] = dropped[u]
    BY <1>7, <2>1
  <2>5. placed'[u] = placed[u] + (IF u = o.user THEN o.quantity ELSE 0)
    BY <1>1, <1>9, <2>1, <2>2
  <2> QED
    BY <1>6, <1>8, <1>9, <2>2, <2>3, <2>4, <2>5 DEF Sides
<1>13. CASE ExecuteMatch
  <2>1. PICK x \in Trade :
          /\ trades' = Append(trades, x) /\ x.quantity = Quantity
          /\ x.buyer = FrontOf("YES").user /\ x.seller = FrontOf("NO").user
    BY <1>1, <1>13, Matched
  <2>2. tt = t + Part(x, u)
    BY <1>1, <1>7, <2>1, TradedAppend
  <2>3. /\ yy + (IF FrontOf("YES").user = u THEN Quantity ELSE 0) = y
        /\ nn + (IF FrontOf("NO").user = u THEN Quantity ELSE 0) = n
    BY <1>1, <1>4, <1>5, <1>13, HoldingMatched
  <2>4. PICK a, b : /\ a = IF FrontOf("YES").user = u THEN Quantity ELSE 0
                    /\ b = IF FrontOf("NO").user = u THEN Quantity ELSE 0
    OBVIOUS
  <2>5. Part(x, u) = a + b /\ a \in Nat /\ b \in Nat
    <3>1. Quantity \in Nat
      BY <2>1 DEF Trade
    <3> QED
      BY <2>1, <2>4, <3>1 DEF Part
  <2>6. placed' = placed /\ dropped' = dropped
    BY <1>13 DEF ExecuteMatch, ledger
  <2> QED
    BY <1>6, <1>8, <1>9, <2>2, <2>3, <2>4, <2>5, <2>6
<1>14. CASE FillFromAmm
  <2>1. PICK x : x = [type |-> "amm", buyer |-> cur.user, seller |-> "none",
                      price |-> Average[shares][cur.outcome][AmmQuantity],
                      quantity |-> AmmQuantity, outcome |-> cur.outcome, seq |-> seq + 1]
    OBVIOUS
  <2>2. trades' = Append(trades, x) /\ placed' = placed
    BY <1>14, <2>1 DEF FillFromAmm
  <2>3. x \in Trade
    <3>1. Len(trades) + 1 \in 1..Len(trades') /\ trades'[Len(trades) + 1] = x
      BY <1>1, <2>2
    <3> QED
      BY <1>1, <3>1
  <2>4. tt = t + Part(x, u)
    BY <1>1, <1>7, <2>2, <2>3, TradedAppend
  <2>5. Part(x, u) = (IF cur.user = u THEN AmmQuantity ELSE 0) /\ AmmQuantity \in Nat
    <3>1. x.buyer = cur.user /\ x.seller = "none" /\ x.quantity = AmmQuantity
      BY <2>1
    <3>2. AmmQuantity \in Nat
      BY <2>3, <3>1 DEF Trade
    <3>3. u # "none"
      BY BoundAssumption
    <3> QED
      BY <3>1, <3>2, <3>3 DEF Part
  <2>6. S = R \ Withdrawn
    BY <1>1, <1>2, <1>14, WithdrawnSide
  <2>7. dropped' = [dropped EXCEPT ![cur.user] =
                      @ + Remaining({o \in Withdrawn : o.seq # cur.seq})]
    BY <1>14 DEF FillFromAmm
  <2>8. CASE u # cur.user
    <3>1. S = R
      BY <1>2, <2>6, <2>8 DEF Withdrawn, RestingOf
    <3>2. dropped'[u] = dropped[u]
      BY <1>1, <2>7, <2>8
    <3>3. tt = t /\ rr = r
      BY <1>4, <1>5, <1>8, <2>4, <2>5, <2>8, <3>1
    <3> QED
      BY <1>9, <2>2, <3>2, <3>3
  <2>9. CASE u = cur.user
    <3>1. PICK W, O, D : /\ W = Withdrawn
                         /\ O = {o \in Withdrawn : o.seq = cur.seq}
                         /\ D = {o \in Withdrawn : o.seq # cur.seq}
      OBVIOUS
    <3>2. W \in SUBSET R
      BY <1>3, <2>9, <3>1 DEF Withdrawn
    <3>3. IsFiniteSet(R) /\ R \subseteq RestingOrder
      <4>1. PICK Y, N : Y = HeldBy(book, u, "YES") /\ N = HeldBy(book, u, "NO")
        OBVIOUS
      <4>2. /\ IsFiniteSet(Y) /\ IsFiniteSet(N)
            /\ Y \subseteq RestingOrder /\ N \subseteq RestingOrder
        BY <1>1, <4>1, HeldFinite
      <4>3. R = Y \cup N
        BY <1>2, <4>1 DEF HeldBy
      <4> QED
        BY <4>2, <4>3, FS_Union
    <3>4. /\ S \in SUBSET R /\ O \in SUBSET R /\ D \in SUBSET R
          /\ S \cup W = R /\ S \cap W = {} /\ D \cup O = W /\ D \cap O = {}
      BY <2>6, <3>1, <3>2
    <3>5. \A x1 \in R : Left[x1] \in Nat
      BY <3>3, RemainingTotal
    <3>6. /\ Total(Left, R) = Total(Left, S) + Total(Left, W)
          /\ Total(Left, W) = Total(Left, D) + Total(Left, O)
      <4>1. Total(Left, S \cup W) = Total(Left, S) + Total(Left, W)
        BY <3>2, <3>3, <3>4, <3>5, TotalUnion
      <4>2. Total(Left, D \cup O) = Total(Left, D) + Total(Left, O)
        BY <3>3, <3>4, <3>5, TotalUnion
      <4> QED
        BY <3>4, <4>1, <4>2
    <3>7. \A V \in SUBSET R : Remaining(V) = Total(Left, V) /\ Remaining(V) \in Nat
      <4>1. \A V \in SUBSET R : IsFiniteSet(V) /\ V \subseteq RestingOrder
        BY <3>3, FS_Subset
      <4> QED
        BY <4>1, RemainingTotal
    <3>8. Remaining(O) = AmmQuantity
      BY <1>14, <3>1, OwnRemainder
    <3>9. dropped'[u] = dropped[u] + Remaining(D)
      BY <1>1, <2>7, <2>9, <3>1
    <3>10. PICK d : d = Remaining(D)
      OBVIOUS
    <3>11. r = rr + d + AmmQuantity /\ d \in Nat /\ rr \in Nat
      BY <1>4, <1>5, <2>5, <3>4, <3>6, <3>7, <3>8, <3>10
    <3>12. tt = t + AmmQuantity
      BY <2>4, <2>5, <2>9
    <3>13. placed'[u] = placed[u] /\ dropped'[u] = dropped[u] + d
      BY <2>2, <3>9, <3>10
    <3>14. PICK a, b, c : a = AmmQuantity /\ b = dropped[u] /\ c = placed[u]
      OBVIOUS
    <3>15. /\ a \in Nat /\ b \in Nat /\ t \in Nat /\ c = t + r + b
           /\ r = rr + d + a /\ tt = t + a /\ d \in Nat /\ rr \in Nat
      BY <1>8, <1>9, <2>5, <3>11, <3>12, <3>14
    <3>16. c = tt + rr + (b + d)
      BY <3>15
    <3> QED
      BY <3>13, <3>14, <3>16
  <2> QED
    BY <2>8, <2>9
<1>15. CASE VoidMarket
  <2>1. /\ trades' = trades /\ placed' = placed
        /\ dropped'[u] = dropped[u] + Remaining(RestingOf(u))
    BY <1>15 DEF VoidMarket
  <2>2. S = {}
    <3>1. \A s \in Sides, l \in Levels : book'[s][l] = <<>>
      BY <1>15 DEF VoidMarket
    <3>2. \A s \in Sides : \A x : x \in RestIn(book', s) <=>
            \E l \in Levels : \E i \in 1..Len(book'[s][l]) : x = book'[s][l][i]
      BY <1>1, RestInFinite
    <3>3. \A s \in Sides : \A x : x \notin RestIn(book', s)
      BY <3>1, <3>2
    <3> QED
      BY <1>1, <1>2, <3>3
  <2>3. rr = 0
    <3>1. IsFiniteSet(S) /\ S \subseteq RestingOrder
      BY <2>2, FS_EmptySet
    <3> QED
      BY <1>5, <2>2, <3>1, RemainingTotal, TotalPick
  <2>4. tt = t /\ placed'[u] = placed[u] /\ dropped'[u] = dropped[u] + r
    BY <1>3, <1>4, <1>7, <2>1
  <2>5. r \in Nat
    BY <1>6
  <2> QED
    BY <1>8, <1>9, <2>3, <2>4, <2>5
<1>16. StopMatching \/ RestRemainder \/ UNCHANGED vars =>
         placed' = placed /\ dropped' = dropped /\ trades' = trades /\ book' = book
  BY DEF StopMatching, RestRemainder, vars, ledger
<1> QED
  BY <1>11, <1>12, <1>13, <1>14, <1>15, <1>16 DEF Next

LEMMA InitAccounted == Init => Apart(book) /\ SharesAccounted
<1> SUFFICES ASSUME Init PROVE Apart(book) /\ SharesAccounted
  OBVIOUS
<1>1. /\ book \in [Sides -> [Levels -> Seq(RestingOrder)]]
      /\ \A s \in Sides, l \in Levels : book[s][l] = <<>>
      /\ "YES" \in Sides /\ "NO" \in Sides /\ trades = <<>>
  BY DEF Init, Sides
<1>2. \A s \in Sides : \A x : x \notin RestIn(book, s)
  <2>1. \A s \in Sides : \A x : x \in RestIn(book, s) <=>
          \E l \in Levels : \E i \in 1..Len(book[s][l]) : x = book[s][l][i]
    BY <1>1, RestInFinite
  <2> QED
    BY <1>1, <2>1
<1>3. Apart(book)
  BY <1>1, <1>2 DEF Apart
<1>4. ASSUME NEW u \in Users
      PROVE  placed[u] = Traded(u) + Remaining(RestingOf(u)) + dropped[u]
  <2>1. RestingOf(u) = {}
    BY <1>1, <1>2 DEF RestingOf, Resting, RestIn
  <2>2. PICK S : S = RestingOf(u)
    OBVIOUS
  <2>3. Remaining(S) = 0
    <3>1. S = {} /\ IsFiniteSet(S) /\ S \subseteq RestingOrder
      BY <2>1, <2>2, FS_EmptySet
    <3> QED
      BY <3>1, RemainingTotal, TotalPick
  <2>4. PICK x : x = trades
    OBVIOUS
  <2>5. x \in Seq(Trade) /\ DOMAIN x = {}
    BY <1>1, <2>4
  <2>6. Traded(u) = Total(Parts(x, u), DOMAIN x)
    BY <2>4, <2>5, TradedTotal DEF Traded, MapThenSumSet, MapThenFoldSet, Pick
  <2>7. Total(Parts(x, u), DOMAIN x) = 0
    BY <2>5, TradedTotal, TotalPick
  <2>8. placed[u] = 0 /\ dropped[u] = 0
    BY DEF Init
  <2> QED
    BY <2>2, <2>3, <2>6, <2>7, <2>8
<1> QED
  BY <1>3, <1>4 DEF SharesAccounted

-----------------------------------------------------------------------------
LEMMA InvHolds == Spec => []Inv
<1>1. Init => Inv
  BY InitInv
<1> QED
  BY <1>1, InvStep, PTL DEF Spec

LEMMA RestsHolds == Spec => []RestsOK
<1>1. Init => RestsOK
  BY InitInv
<1> QED
  BY <1>1, RestsStep, InvHolds, PTL DEF Spec

LEMMA AccountHolds == Spec => [](Apart(book) /\ SharesAccounted)
<1>1. /\ Inv /\ Inv' /\ RestsOK /\ Apart(book) /\ SharesAccounted /\ [Next]_vars =>
           Apart(book)' /\ SharesAccounted'
  <2> SUFFICES ASSUME Inv, Inv', RestsOK, Apart(book), SharesAccounted, [Next]_vars
               PROVE  Apart(book') /\ SharesAccounted'
    OBVIOUS
  <2>1. TypeOK /\ TypeOK' /\ BookOK
    BY DEF Inv
  <2>2. Apart(book')
    BY <2>1, ApartStep
  <2> QED
    BY <2>1, <2>2, AccountStep
<1> QED
  BY <1>1, InitAccounted, InvHolds, RestsHolds, PTL DEF Spec

\* The variables keep their types: an order that rests has something left, and
\* every price and quantity of a trade is a number the log's record takes
\* (process_order, fill_amm).
THEOREM TypeCorrect == Spec => []TypeOK
<1>1. Inv => TypeOK
  BY DEF Inv
<1> QED
  BY <1>1, InvHolds, PTL

\* When the task is between orders nothing on the book can match any more
\* (match_orders loops while has_crossable_spread).
THEOREM LeftUncrossed == Spec => []Uncrossed
<1>1. Inv => Uncrossed
  BY DEF Inv
<1> QED
  BY <1>1, InvHolds, PTL

\* The CLOB's trades are logged under increasing sequence numbers
\* (execute_match advances seq after each trade).
THEOREM LoggedInOrder == Spec => []ClobTradesOrdered
<1>1. Inv => ClobTradesOrdered
  BY DEF Inv
<1> QED
  BY <1>1, InvHolds, PTL

\* No order is matched past a better priced or an older one of its side
\* (the BTreeMap's last key, the front of the VecDeque).
THEOREM BestPriceFirst == Spec => PriceTimePriority
<1>1. Inv /\ [Next]_vars =>
        [phase = "matching" =>
           \A s \in Sides : \A o \in Resting(s) \ Resting(s)' :
             \A p \in Resting(s) : Ahead(o, p)]_vars
  BY PriorityStep DEF Inv
<1> QED
  BY <1>1, InvHolds, PTL DEF Spec, PriceTimePriority

\* What the loop has not filled of an order is what the book still holds of it,
\* so that the AMM is asked for exactly that (clob_filled in process_order).
THEOREM RemainderIsOnBook == Spec => []RemainderRests
<1> QED
  BY RestsCounted, InvHolds, RestsHolds, PTL

\* Of the shares a user submitted, every one was traded by the book or the AMM,
\* rests, or was taken off by the AMM's clean-up or a void (process_order).
THEOREM NoShareLost == Spec => []SharesAccounted
<1> QED
  BY AccountHolds, PTL

=============================================================================
