----------------------------- MODULE FiniteSums -----------------------------
(***************************************************************************)
(* Facts about SumFunctionOnSet, the sum of a function's values over a     *)
(* finite set, that account for money: a sum is a natural number, an       *)
(* element can be taken out of it, and values outside the set don't matter.*)
(***************************************************************************)
EXTENDS Integers, FiniteSets, Functions, FiniteSetTheorems, TLAPS

First(T) == CHOOSE x \in T : TRUE

\* The recursion of the fold: the empty sum is 0, another one starts with First.
Follows(g, w, T) == g[T] = IF T = {} THEN 0 ELSE w[First(T)] + g[T \ {First(T)}]

\* g is the table of partial sums that SumFunctionOnSet(w, S) reads.
Solves(g, w, S) ==
  g = [T \in SUBSET S |-> IF T = {} THEN 0 ELSE w[First(T)] + g[T \ {First(T)}]]

\* First picks an element.
LEMMA FirstIn == ASSUME NEW T, T # {} PROVE First(T) \in T
  BY DEF First

\* A nonempty set of natural numbers has a least element.
LEMMA LeastNatural ==
  ASSUME NEW N \in SUBSET Nat, N # {}
  PROVE  \E m \in N : \A n \in N : m <= n
<1>1. PICK m \in N : \A n \in N : ~(<<n, m>> \in OpToRel(<, Nat))
  BY NatLessThanWellFounded, WFMin, Zenon
<1>2. \A n \in N : n < m => <<n, m>> \in OpToRel(<, Nat)
  BY <1>1 DEF OpToRel
<1>3. \A n \in N : ~(n < m)
  BY <1>1, <1>2, Zenon
<1>4. \A n \in N : m <= n
  BY <1>3
<1> QED BY <1>4

\* A nonempty family of subsets of a finite set has a minimal member.
LEMMA MinimalSubset ==
  ASSUME NEW D, IsFiniteSet(D), NEW Bad \in SUBSET (SUBSET D), Bad # {}
  PROVE  \E T \in Bad : \A U \in Bad : U \subseteq T => U = T
<1>1. Bad \subseteq FiniteSubsetsOf(D)
  BY FS_FiniteSubsetsOfFinite
<1>2. PICK T \in Bad : \A U \in Bad : ~(<<U, T>> \in StrictSubsetOrdering(D))
  BY <1>1, FS_StrictSubsetOrderingWellFounded, WFMin, Zenon
<1>3. \A U \in Bad : U \subseteq T /\ U # T => <<U, T>> \in StrictSubsetOrdering(D)
  BY DEF StrictSubsetOrdering
<1>4. \A U \in Bad : U \subseteq T => U = T
  BY <1>2, <1>3
<1> QED BY <1>4

\* The table of partial sums exists.
LEMMA SumTable ==
  ASSUME NEW D, IsFiniteSet(D), NEW w, \A x \in D : w[x] \in Nat
  PROVE  \E g \in [SUBSET D -> Nat] : Solves(g, w, D)
<1> DEFINE Small(n)   == {T \in SUBSET D : Cardinality(T) <= n}
           Partial(n) == \E g \in [Small(n) -> Nat] : \A T \in Small(n) : Follows(g, w, T)
           Bad        == {n \in Nat : ~Partial(n)}
<1>0. ASSUME NEW T \in SUBSET D
      PROVE  /\ Cardinality(T) \in Nat /\ Cardinality(T) <= Cardinality(D)
             /\ Cardinality(T) = 0 => T = {}
  BY FS_Subset, FS_CardinalityType, FS_EmptySet
<1>9. {} \in SUBSET D /\ Cardinality({}) = 0 /\ D \in SUBSET D
  BY FS_EmptySet
<1>1. Partial(0)
  <2> DEFINE g == [T \in Small(0) |-> 0]
  <2>1. ASSUME NEW T \in Small(0) PROVE T = {}
    <3>1. Cardinality(T) \in Nat /\ Cardinality(T) <= 0
      BY <1>0
    <3>2. Cardinality(T) = 0
      BY <3>1
    <3> QED BY <1>0, <3>2
  <2>2. \A T \in Small(0) : Follows(g, w, T)
    BY <2>1 DEF Follows
  <2> QED BY <2>2
<1>2. ASSUME NEW n \in Nat, Partial(n) PROVE Partial(n + 1)
  <2>1. PICK g \in [Small(n) -> Nat] : \A T \in Small(n) : Follows(g, w, T)
    BY <1>2
  <2> DEFINE h == [T \in Small(n + 1) |->
                     IF T \in Small(n) THEN g[T] ELSE w[First(T)] + g[T \ {First(T)}]]
  <2>2. ASSUME NEW T \in Small(n + 1), T # {}
        PROVE  /\ First(T) \in D /\ T \ {First(T)} \in Small(n)
    <3>1. First(T) \in T /\ T \in SUBSET D
      BY <2>2, FirstIn
    <3>2. Cardinality(T \ {First(T)}) = Cardinality(T) - 1
      BY <3>1, FS_RemoveElement, FS_Subset
    <3>3. Cardinality(T) \in Nat /\ Cardinality(T) <= n + 1
      BY <1>0, <3>1
    <3>4. Cardinality(T \ {First(T)}) <= n
      BY <3>2, <3>3
    <3> QED BY <3>1, <3>4
  <2>3. {} \in Small(n) /\ Small(n) \subseteq Small(n + 1)
    <3>1. {} \in Small(n)
      BY <1>9
    <3>2. ASSUME NEW T \in Small(n) PROVE T \in Small(n + 1)
      <4>1. Cardinality(T) \in Nat /\ Cardinality(T) <= n
        BY <1>0
      <4>2. Cardinality(T) <= n + 1
        BY <4>1
      <4> QED BY <4>2
    <3> QED BY <3>1, <3>2
  <2>4. h \in [Small(n + 1) -> Nat]
    <3> SUFFICES ASSUME NEW T \in Small(n + 1), T \notin Small(n)
                 PROVE  w[First(T)] + g[T \ {First(T)}] \in Nat
      BY <2>1
    <3>1. w[First(T)] \in Nat /\ g[T \ {First(T)}] \in Nat
      BY <2>1, <2>2, <2>3
    <3> QED BY <3>1
  <2>5. \A T \in Small(n) : h[T] = g[T]
    BY <2>3
  <2>6. ASSUME NEW T \in Small(n + 1) PROVE Follows(h, w, T)
    <3> DEFINE U == T \ {First(T)}
    <3>1. CASE T = {}
      BY <2>1, <2>3, <2>5, <3>1 DEF Follows
    <3>2. CASE T # {} /\ T \in Small(n)
      <4>1. U \in Small(n)
        BY <2>2, <3>2
      <4>2. h[T] = g[T] /\ h[U] = g[U] /\ g[T] = w[First(T)] + g[U]
        BY <2>1, <2>5, <3>2, <4>1 DEF Follows
      <4> QED BY <3>2, <4>2 DEF Follows
    <3>3. CASE T # {} /\ T \notin Small(n)
      <4>1. U \in Small(n)
        BY <2>2, <3>3
      <4>2. h[U] = g[U] /\ h[T] = w[First(T)] + g[U]
        BY <2>5, <3>3, <4>1
      <4> QED BY <3>3, <4>2 DEF Follows
    <3> QED BY <3>1, <3>2, <3>3
  <2> QED BY <2>4, <2>6
<1>3. Bad = {}
  <2> SUFFICES ASSUME Bad # {} PROVE FALSE
    OBVIOUS
  <2> HIDE DEF Partial
  <2>1. PICK m \in Bad : \A n \in Bad : m <= n
    BY LeastNatural
  <2>2. m # 0 /\ m \in Nat
    BY <1>1, <2>1
  <2>3. m - 1 \in Nat /\ ~(m <= m - 1) /\ (m - 1) + 1 = m
    BY <2>2
  <2>4. Partial(m - 1)
    BY <2>1, <2>3
  <2>5. Partial(m)
    BY <1>2, <2>3, <2>4
  <2> QED BY <2>1, <2>5
<1>4. Cardinality(D) \in Nat
  BY <1>0, <1>9
<1>5. Partial(Cardinality(D))
  BY <1>3, <1>4
<1>6. Small(Cardinality(D)) = SUBSET D
  BY <1>0
<1>7. PICK g \in [SUBSET D -> Nat] : \A T \in SUBSET D : Follows(g, w, T)
  BY <1>5, <1>6
<1>8. Solves(g, w, D)
  BY <1>7 DEF Solves, Follows
<1> QED BY <1>8

\* Tables of functions that agree agree, whatever sets they are for.
LEMMA SumTablesAgree ==
  ASSUME NEW S, IsFiniteSet(S), NEW U, NEW g, NEW h, NEW w, NEW v,
         Solves(g, w, S), Solves(h, v, U), NEW R \in SUBSET S, R \subseteq U,
         \A x \in R : w[x] = v[x]
  PROVE  g[R] = h[R]
<1> DEFINE Bad == {T \in SUBSET R : g[T] # h[T]}
<1> SUFFICES ASSUME Bad # {} PROVE FALSE
  OBVIOUS
<1>1. IsFiniteSet(R) /\ Bad \in SUBSET (SUBSET R)
  BY FS_Subset
<1>2. PICK T \in Bad : \A V \in Bad : V \subseteq T => V = T
  <2> HIDE DEF Bad
  <2> QED BY <1>1, MinimalSubset
<1>3. T \in SUBSET S /\ T \in SUBSET U
  BY <1>2
<1>4. Follows(g, w, T) /\ Follows(h, v, T)
  BY <1>3 DEF Solves, Follows
<1>5. T # {}
  BY <1>2, <1>4 DEF Follows
<1>6. First(T) \in T
  BY <1>5, FirstIn
<1>7. g[T \ {First(T)}] = h[T \ {First(T)}]
  BY <1>2, <1>6
<1>8. w[First(T)] = v[First(T)]
  BY <1>2, <1>6
<1>9. g[T] = h[T]
  BY <1>4, <1>5, <1>7, <1>8 DEF Follows
<1> QED BY <1>2, <1>9

\* SumFunctionOnSet reads its table.
LEMMA SumReadsTable ==
  ASSUME NEW w, NEW S, \E g : Solves(g, w, S)
  PROVE  \E g : Solves(g, w, S) /\ SumFunctionOnSet(w, S) = g[S]
<1> DEFINE iter == CHOOSE g : Solves(g, w, S)
<1>1. Solves(iter, w, S)
  OBVIOUS
<1>2. SumFunctionOnSet(w, S) = iter[S]
  BY DEF SumFunctionOnSet, FoldFunctionOnSet, MapThenFoldSet, Solves, First
<1> QED BY <1>1, <1>2

\* Any table will do.
LEMMA SumIsTable ==
  ASSUME NEW S, IsFiniteSet(S), NEW w, NEW h, NEW U, Solves(h, w, U), S \subseteq U,
         \A x \in S : w[x] \in Nat
  PROVE  SumFunctionOnSet(w, S) = h[S]
<1>1. PICK g : Solves(g, w, S) /\ SumFunctionOnSet(w, S) = g[S]
  BY SumTable, SumReadsTable
<1>2. g[S] = h[S]
  BY <1>1, SumTablesAgree
<1> QED BY <1>1, <1>2

\* A sum of natural numbers is one, the empty sum is 0, and a sum is its first value
\* plus the sum of the others.
LEMMA SumFacts ==
  ASSUME NEW S, IsFiniteSet(S), NEW w, \A x \in S : w[x] \in Nat
  PROVE  /\ SumFunctionOnSet(w, S) \in Nat
         /\ S = {} => SumFunctionOnSet(w, S) = 0
         /\ S # {} => SumFunctionOnSet(w, S)
                        = w[First(S)] + SumFunctionOnSet(w, S \ {First(S)})
<1>1. PICK g \in [SUBSET S -> Nat] : Solves(g, w, S)
  BY SumTable
<1>2. SumFunctionOnSet(w, S) = g[S] /\ S \in SUBSET S
  BY <1>1, SumIsTable
<1>3. Follows(g, w, S)
  BY <1>1, <1>2 DEF Solves, Follows
<1>4. S \ {First(S)} \subseteq S /\ IsFiniteSet(S \ {First(S)})
  BY FS_Subset
<1>5. SumFunctionOnSet(w, S \ {First(S)}) = g[S \ {First(S)}]
  BY <1>1, <1>4, SumIsTable
<1> QED BY <1>1, <1>2, <1>3, <1>5 DEF Follows

\* Only the values on the set matter.
LEMMA SumAgrees ==
  ASSUME NEW S, IsFiniteSet(S), NEW w, NEW v,
         \A x \in S : w[x] \in Nat /\ v[x] = w[x]
  PROVE  SumFunctionOnSet(w, S) = SumFunctionOnSet(v, S)
<1>1. PICK g \in [SUBSET S -> Nat] : Solves(g, w, S)
  BY SumTable
<1>2. PICK h \in [SUBSET S -> Nat] : Solves(h, v, S)
  BY SumTable
<1>3. g[S] = h[S]
  BY <1>1, <1>2, SumTablesAgree
<1>4. SumFunctionOnSet(w, S) = g[S] /\ SumFunctionOnSet(v, S) = h[S]
  BY <1>1, <1>2, SumIsTable
<1> QED BY <1>3, <1>4

\* A sum of zeroes is 0.
LEMMA SumOfZeroes ==
  ASSUME NEW S, IsFiniteSet(S), NEW w, \A x \in S : w[x] = 0
  PROVE  SumFunctionOnSet(w, S) = 0
<1> DEFINE Sum(T) == SumFunctionOnSet(w, T)
           Bad    == {T \in SUBSET S : Sum(T) # 0}
<1> SUFFICES ASSUME Bad # {} PROVE FALSE
  OBVIOUS
<1>1. Bad \in SUBSET (SUBSET S)
  OBVIOUS
<1> HIDE DEF Bad
<1>2. PICK T \in Bad : \A U \in Bad : U \subseteq T => U = T
  BY <1>1, MinimalSubset
<1>3. T \in SUBSET S /\ IsFiniteSet(T) /\ Sum(T) # 0
  BY <1>2, FS_Subset DEF Bad
<1>4. T # {}
  BY <1>3, SumFacts
<1> DEFINE x == First(T)
<1>5. x \in T /\ w[x] = 0 /\ T \ {x} \in SUBSET S
  BY <1>3, <1>4, FirstIn
<1>6. Sum(T) = w[x] + Sum(T \ {x})
  <2>1. \A y \in T : w[y] \in Nat
    BY <1>3
  <2> QED BY <1>3, <1>4, <2>1, SumFacts
<1>7. Sum(T \ {x}) = 0
  BY <1>2, <1>5 DEF Bad
<1> HIDE DEF Sum, x
<1> QED BY <1>3, <1>5, <1>6, <1>7

\* Any element, not only the first, can be taken out of a sum.
LEMMA SumWithout ==
  ASSUME NEW S, IsFiniteSet(S), NEW w, \A x \in S : w[x] \in Nat, NEW e \in S
  PROVE  SumFunctionOnSet(w, S) = w[e] + SumFunctionOnSet(w, S \ {e})
<1> DEFINE Sum(T) == SumFunctionOnSet(w, T)
           Bad    == {T \in SUBSET S : \E x \in T : Sum(T) # w[x] + Sum(T \ {x})}
<1> SUFFICES Bad = {}
  OBVIOUS
<1> SUFFICES ASSUME Bad # {} PROVE FALSE
  OBVIOUS
<1>0. ASSUME NEW T \in SUBSET S
      PROVE  /\ Sum(T) \in Nat
             /\ T # {} => Sum(T) = w[First(T)] + Sum(T \ {First(T)})
  BY FS_Subset, SumFacts
<1>1. Bad \in SUBSET (SUBSET S)
  OBVIOUS
<1>2. PICK T \in Bad : \A V \in Bad : V \subseteq T => V = T
  <2> HIDE DEF Bad
  <2> QED BY <1>1, MinimalSubset
<1>3. PICK x \in T : Sum(T) # w[x] + Sum(T \ {x})
  BY <1>2
<1> DEFINE f == First(T)  A == T \ {f}  B == T \ {x}  C == T \ {f, x}
<1>4. f \in T /\ T \in SUBSET S /\ x \in S /\ f \in S
  BY <1>2, <1>3, FirstIn
<1>5. Sum(T) = w[f] + Sum(A)
  BY <1>0, <1>4
<1>6. f # x
  BY <1>3, <1>5
<1>7. A \in SUBSET S /\ B \in SUBSET S /\ C \in SUBSET S /\ A # T /\ B # T
      /\ A \subseteq T /\ B \subseteq T /\ x \in A /\ f \in B
  BY <1>3, <1>4, <1>6
<1>8. A \notin Bad /\ B \notin Bad
  BY <1>2, <1>7
<1>9. Sum(A) = w[x] + Sum(A \ {x}) /\ Sum(B) = w[f] + Sum(B \ {f})
  BY <1>7, <1>8
<1>10. A \ {x} = C /\ B \ {f} = C
  OBVIOUS
<1>11. w[x] \in Nat /\ w[f] \in Nat /\ Sum(C) \in Nat
  BY <1>0, <1>4, <1>7
<1>12. Sum(A) = w[x] + Sum(C) /\ Sum(B) = w[f] + Sum(C)
  BY <1>9, <1>10
<1>13. Sum(T) = w[x] + Sum(B)
  <2> HIDE DEF Sum, A, B, C, f
  <2> QED BY <1>5, <1>11, <1>12
<1> QED BY <1>3, <1>13

\* Two sums that may differ in one element differ by its value only.
LEMMA SumChanges ==
  ASSUME NEW S, IsFiniteSet(S), NEW U, IsFiniteSet(U), NEW e, S \ {e} = U \ {e},
         NEW w, \A x \in S : w[x] \in Nat, NEW v, \A x \in U : v[x] \in Nat,
         \A x \in S \ {e} : v[x] = w[x]
  PROVE  \E rest \in Nat :
           /\ SumFunctionOnSet(w, S) = rest + IF e \in S THEN w[e] ELSE 0
           /\ SumFunctionOnSet(v, U) = rest + IF e \in U THEN v[e] ELSE 0
<1> DEFINE rest == SumFunctionOnSet(w, S \ {e})
<1>1. IsFiniteSet(S \ {e}) /\ \A x \in S \ {e} : w[x] \in Nat
  BY FS_Subset
<1>2. rest \in Nat
  BY <1>1, SumFacts
<1>3. rest = SumFunctionOnSet(v, U \ {e})
  BY <1>1, SumAgrees
<1>4. SumFunctionOnSet(w, S) = rest + IF e \in S THEN w[e] ELSE 0
  <2>1. CASE e \in S
    <3>1. SumFunctionOnSet(w, S) = w[e] + rest
      BY <2>1, SumWithout
    <3> HIDE DEF rest
    <3> QED BY <1>2, <2>1, <3>1
  <2>2. CASE e \notin S
    <3>1. S \ {e} = S
      BY <2>2
    <3>2. SumFunctionOnSet(w, S) = rest
      BY <3>1
    <3> HIDE DEF rest
    <3> QED BY <1>2, <2>2, <3>2
  <2> QED BY <2>1, <2>2
<1>5. SumFunctionOnSet(v, U) = rest + IF e \in U THEN v[e] ELSE 0
  <2>1. CASE e \in U
    <3>1. SumFunctionOnSet(v, U) = v[e] + rest
      BY <1>3, <2>1, SumWithout
    <3> HIDE DEF rest
    <3> QED BY <1>2, <2>1, <3>1
  <2>2. CASE e \notin U
    <3>1. U \ {e} = U
      BY <2>2
    <3>2. SumFunctionOnSet(v, U) = rest
      BY <1>3, <3>1
    <3> HIDE DEF rest
    <3> QED BY <1>2, <2>2, <3>2
  <2> QED BY <2>1, <2>2
<1> QED BY <1>2, <1>4, <1>5

\* The same when both sums are over one set that has the element.
LEMMA SumMoves ==
  ASSUME NEW S, IsFiniteSet(S), NEW e \in S, NEW w, NEW v,
         \A x \in S : w[x] \in Nat, \A x \in S : v[x] \in Nat,
         \A x \in S \ {e} : v[x] = w[x]
  PROVE  \E rest \in Nat : /\ SumFunctionOnSet(w, S) = rest + w[e]
                          /\ SumFunctionOnSet(v, S) = rest + v[e]
<1> PICK rest : rest = SumFunctionOnSet(w, S \ {e})
  OBVIOUS
<1>1. IsFiniteSet(S \ {e}) /\ \A x \in S \ {e} : w[x] \in Nat
  BY FS_Subset
<1>2. rest \in Nat
  BY <1>1, SumFacts
<1>3. rest = SumFunctionOnSet(v, S \ {e})
  BY <1>1, SumAgrees
<1>4. SumFunctionOnSet(w, S) = w[e] + rest
  BY SumWithout
<1>5. SumFunctionOnSet(v, S) = v[e] + rest
  BY <1>3, SumWithout
<1> QED BY <1>2, <1>4, <1>5

=============================================================================
