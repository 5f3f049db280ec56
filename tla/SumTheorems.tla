---------------------------- MODULE SumTheorems ----------------------------
(***************************************************************************)
(* Facts about SumFunctionOnSet, the sum of the values of a function over  *)
(* a finite set, with which LedgerReports adds up the rows of a report and *)
(* InvoiceFigures the lines of an invoice.                                 *)
(*                                                                         *)
(* The principles of induction are stated for the set of the numbers, or   *)
(* of the subsets, that have a property, since the property itself would   *)
(* be an operator that no prover instantiates.                             *)
(***************************************************************************)
EXTENDS Functions, FiniteSetTheorems, TLAPS

\* A set of numbers that has 0 and with each number the next one has them all: its
\* complement has no least element.
LEMMA NatGrows ==
  ASSUME NEW N, 0 \in N, \A n \in Nat : n \in N => n + 1 \in N
  PROVE  Nat \subseteq N
<1> DEFINE Less == {p \in Nat \X Nat : p[1] < p[2]}
<1>1. IsWellFoundedOn(Less, Nat)
  BY NatLessThanWellFounded, Zenon DEF OpToRel
<1>2. \A m, n \in Nat : <<m, n>> \in Less <=> m < n
  OBVIOUS
<1> HIDE DEF Less
<1> SUFFICES ASSUME Nat \ N # {} PROVE FALSE
  OBVIOUS
<1>3. PICK n \in Nat \ N : \A m \in Nat \ N : <<m, n>> \notin Less
  BY <1>1, WFMin, Zenon
<1>4. n # 0 /\ n - 1 \in Nat /\ n - 1 < n
  OBVIOUS
<1>5. n - 1 \in N
  BY <1>2, <1>3, <1>4
<1> QED
  BY <1>4, <1>5

\* A family of subsets of a finite set that has the empty one, and with each subset those
\* of one element more, has them all.
LEMMA SubsetsGrow ==
  ASSUME NEW U, IsFiniteSet(U), NEW F, {} \in F,
         \A S \in SUBSET U, x \in U : S \in F /\ x \notin S => S \cup {x} \in F
  PROVE  SUBSET U \subseteq F
<1> DEFINE N == {n \in Nat : \A S \in SUBSET U : Cardinality(S) = n => S \in F}
<1>1. \A S \in SUBSET U : IsFiniteSet(S) /\ Cardinality(S) \in Nat
  BY FS_Subset, FS_CardinalityType
<1>2. 0 \in N
  BY <1>1, FS_EmptySet
<1>3. ASSUME NEW n \in Nat, n \in N PROVE n + 1 \in N
  <2> SUFFICES ASSUME NEW S \in SUBSET U, Cardinality(S) = n + 1 PROVE S \in F
    OBVIOUS
  <2>1. PICK x \in S : TRUE
    BY <1>1, FS_EmptySet
  <2>2. Cardinality(S \ {x}) = Cardinality(S) - 1
    BY <1>1, <2>1, FS_RemoveElement
  <2>3. S \ {x} \in F
    <3>1. Cardinality(S \ {x}) = n
      BY <2>2
    <3> QED
      BY <1>3, <3>1
  <2>4. (S \ {x}) \cup {x} = S
    BY <2>1
  <2> QED
    BY <2>3, <2>4
<1> HIDE DEF N
<1>4. Nat \subseteq N
  BY <1>2, <1>3, NatGrows
<1> QED
  BY <1>1, <1>4 DEF N

-----------------------------------------------------------------------------
(***************************************************************************)
(* The recursion that defines a sum has a solution.                        *)
(***************************************************************************)
Pick(s) == CHOOSE x \in s : TRUE

\* g sums up the values of f over each of the sets in D.
Sums(f, D, g) ==
  g = [s \in D |-> IF s = {} THEN 0 ELSE f[Pick(s)] + g[s \ {Pick(s)}]]

\* What the definition says.
LEMMA SumIsSolution ==
  ASSUME NEW f, NEW S
  PROVE  SumFunctionOnSet(f, S) = (CHOOSE g : Sums(f, SUBSET S, g))[S]
  BY DEF SumFunctionOnSet, FoldFunctionOnSet, MapThenFoldSet, Sums, Pick

\* The sums over the subsets of a finite set, and what is taken from each.
LEMMA PickFacts ==
  ASSUME NEW S, IsFiniteSet(S), S # {}
  PROVE  /\ Pick(S) \in S
         /\ IsFiniteSet(S \ {Pick(S)})
         /\ Cardinality(S) \in Nat \ {0}
         /\ Cardinality(S \ {Pick(S)}) = Cardinality(S) - 1
<1>1. Pick(S) \in S
  BY DEF Pick
<1> QED
  BY <1>1, FS_RemoveElement, FS_CardinalityType, FS_EmptySet

\* There are sums over the subsets of any size.
LEMMA SolutionExists ==
  ASSUME NEW f, NEW U, IsFiniteSet(U)
  PROVE  \E g : Sums(f, SUBSET U, g)
<1> DEFINE Upto(n) == {s \in SUBSET U : Cardinality(s) <= n}
           N == {n \in Nat : \E g : Sums(f, Upto(n), g)}
<1>1. \A S \in SUBSET U : IsFiniteSet(S) /\ Cardinality(S) \in Nat
                          /\ Cardinality(S) <= Cardinality(U)
  BY FS_Subset, FS_CardinalityType
<1>2. 0 \in N
  <2>1. Upto(0) = {{}}
    BY <1>1, FS_EmptySet
  <2>2. Sums(f, {{}}, [s \in {{}} |-> 0])
    BY DEF Sums
  <2> QED
    BY <2>1, <2>2
<1>3. ASSUME NEW n \in Nat, n \in N PROVE n + 1 \in N
  <2>1. PICK g : Sums(f, Upto(n), g)
    BY <1>3
  <2> DEFINE h == [s \in Upto(n + 1) |->
                     IF s = {} THEN 0 ELSE f[Pick(s)] + g[s \ {Pick(s)}]]
  <2>2. ASSUME NEW s \in Upto(n) PROVE s \in Upto(n + 1) /\ h[s] = g[s]
    <3>1. s \in Upto(n + 1)
      BY <1>1
    <3> QED
      BY <2>1, <3>1 DEF Sums
  <2>3. ASSUME NEW s \in Upto(n + 1), s # {} PROVE s \ {Pick(s)} \in Upto(n)
    BY <1>1, <2>3, PickFacts
  <2>4. ASSUME NEW s \in Upto(n + 1), s # {} PROVE h[s \ {Pick(s)}] = g[s \ {Pick(s)}]
    BY <2>2, <2>3, <2>4
  <2>5. Sums(f, Upto(n + 1), h)
    BY <2>4 DEF Sums
  <2>6. \E k : Sums(f, Upto(n + 1), k)
    BY <2>5, Zenon
  <2> QED
    BY <2>6
<1> HIDE DEF N
<1>4. Cardinality(U) \in N
  BY <1>1, <1>2, <1>3, NatGrows
<1>5. Upto(Cardinality(U)) = SUBSET U
  BY <1>1
<1> QED
  BY <1>4, <1>5 DEF N

\* Two solutions agree where both are defined.
LEMMA SolutionUnique ==
  ASSUME NEW f, NEW U, NEW V, NEW g, NEW h, IsFiniteSet(U), V \subseteq U,
         Sums(f, SUBSET U, g), Sums(f, SUBSET V, h)
  PROVE  g[V] = h[V]
<1> DEFINE N == {n \in Nat : \A S \in SUBSET V : Cardinality(S) = n => g[S] = h[S]}
<1>1. \A S \in SUBSET V : IsFiniteSet(S) /\ Cardinality(S) \in Nat
  BY FS_Subset, FS_CardinalityType
<1>2. 0 \in N
  <2>1. \A S \in SUBSET V : Cardinality(S) = 0 => S = {}
    BY <1>1, FS_EmptySet
  <2>2. g[{}] = 0 /\ h[{}] = 0
    BY DEF Sums
  <2> QED
    BY <2>1, <2>2
<1>3. ASSUME NEW n \in Nat, n \in N PROVE n + 1 \in N
  <2> SUFFICES ASSUME NEW S \in SUBSET V, Cardinality(S) = n + 1 PROVE g[S] = h[S]
    OBVIOUS
  <2>1. S # {} /\ S \in SUBSET U
    BY <1>1, FS_EmptySet
  <2>2. S \ {Pick(S)} \in SUBSET V /\ Cardinality(S \ {Pick(S)}) = n
    BY <1>1, <2>1, PickFacts
  <2>3. g[S \ {Pick(S)}] = h[S \ {Pick(S)}]
    BY <1>3, <2>2
  <2>4. g[S] = f[Pick(S)] + g[S \ {Pick(S)}] /\ h[S] = f[Pick(S)] + h[S \ {Pick(S)}]
    BY <2>1 DEF Sums
  <2> QED
    BY <2>3, <2>4
<1> HIDE DEF N
<1>4. Nat \subseteq N
  BY <1>2, <1>3, NatGrows
<1> QED
  BY <1>1, <1>4 DEF N

\* A sum obeys the recursion that defines it.
LEMMA SumUnfolds ==
  ASSUME NEW f, NEW S, IsFiniteSet(S)
  PROVE  SumFunctionOnSet(f, S) =
           IF S = {} THEN 0 ELSE f[Pick(S)] + SumFunctionOnSet(f, S \ {Pick(S)})
<1>1. ASSUME NEW T, IsFiniteSet(T)
      PROVE  Sums(f, SUBSET T, CHOOSE g : Sums(f, SUBSET T, g))
  BY <1>1, SolutionExists
<1>2. PICK g : g = (CHOOSE k : Sums(f, SUBSET S, k))
  OBVIOUS
<1>3. Sums(f, SUBSET S, g) /\ SumFunctionOnSet(f, S) = g[S]
  BY <1>1, <1>2, SumIsSolution
<1>4. CASE S = {}
  BY <1>3, <1>4 DEF Sums
<1>5. CASE S # {}
  <2>1. PICK T : T = S \ {Pick(S)}
    OBVIOUS
  <2>2. IsFiniteSet(T) /\ T \in SUBSET S
    BY <1>5, <2>1, PickFacts
  <2>3. PICK h : h = (CHOOSE k : Sums(f, SUBSET T, k))
    OBVIOUS
  <2>4. Sums(f, SUBSET T, h) /\ SumFunctionOnSet(f, T) = h[T]
    BY <1>1, <2>2, <2>3, SumIsSolution
  <2>5. g[T] = h[T]
    <3>1. Sums(f, SUBSET S, g) /\ Sums(f, SUBSET T, h) /\ T \subseteq S
      BY <1>3, <2>2, <2>4
    <3> QED
      BY <3>1, SolutionUnique, Zenon
  <2>6. g[S] = f[Pick(S)] + g[S \ {Pick(S)}]
    BY <1>3, <1>5 DEF Sums
  <2> QED
    BY <1>3, <1>5, <2>1, <2>4, <2>5, <2>6
<1> QED
  BY <1>4, <1>5

-----------------------------------------------------------------------------
(***************************************************************************)
(* Sums of integers.                                                       *)
(***************************************************************************)
LEMMA SumEmpty == ASSUME NEW f PROVE SumFunctionOnSet(f, {}) = 0
  BY SumUnfolds, FS_EmptySet

LEMMA SumType ==
  ASSUME NEW f, NEW U, IsFiniteSet(U), \A x \in U : f[x] \in Int
  PROVE  SumFunctionOnSet(f, U) \in Int
<1> DEFINE N == {n \in Nat : \A S \in SUBSET U :
                               Cardinality(S) = n => SumFunctionOnSet(f, S) \in Int}
<1>1. \A S \in SUBSET U : IsFiniteSet(S) /\ Cardinality(S) \in Nat
  BY FS_Subset, FS_CardinalityType
<1>2. 0 \in N
  BY <1>1, FS_EmptySet, SumEmpty
<1>3. ASSUME NEW n \in Nat, n \in N PROVE n + 1 \in N
  <2> SUFFICES ASSUME NEW S \in SUBSET U, Cardinality(S) = n + 1
               PROVE  SumFunctionOnSet(f, S) \in Int
    OBVIOUS
  <2>1. S # {}
    BY FS_EmptySet
  <2>2. /\ Pick(S) \in U /\ S \ {Pick(S)} \in SUBSET U
        /\ Cardinality(S \ {Pick(S)}) = n
    BY <1>1, <2>1, PickFacts
  <2>3. SumFunctionOnSet(f, S \ {Pick(S)}) \in Int
    BY <1>3, <2>2
  <2>4. SumFunctionOnSet(f, S) = f[Pick(S)] + SumFunctionOnSet(f, S \ {Pick(S)})
    BY <1>1, <2>1, SumUnfolds
  <2> QED
    BY <2>2, <2>3, <2>4
<1> HIDE DEF N
<1>4. Cardinality(U) \in N
  BY <1>1, <1>2, <1>3, NatGrows
<1> QED
  BY <1>4 DEF N

\* Whatever element is picked first, the sum is the same.
LEMMA SumRemoves ==
  ASSUME NEW f, NEW U, IsFiniteSet(U), \A x \in U : f[x] \in Int, NEW a \in U
  PROVE  SumFunctionOnSet(f, U) = f[a] + SumFunctionOnSet(f, U \ {a})
<1> DEFINE Good(S) == \A x \in S : SumFunctionOnSet(f, S) = f[x] + SumFunctionOnSet(f, S \ {x})
           N == {n \in Nat : \A S \in SUBSET U : Cardinality(S) = n => Good(S)}
<1>1. \A S \in SUBSET U : IsFiniteSet(S) /\ Cardinality(S) \in Nat
                          /\ SumFunctionOnSet(f, S) \in Int
  <2> SUFFICES ASSUME NEW S \in SUBSET U PROVE IsFiniteSet(S) /\ Cardinality(S) \in Nat
                          /\ SumFunctionOnSet(f, S) \in Int
    OBVIOUS
  <2>1. IsFiniteSet(S)
    BY FS_Subset
  <2>2. \A x \in S : f[x] \in Int
    OBVIOUS
  <2> QED
    BY <2>1, <2>2, FS_CardinalityType, SumType
<1>2. 0 \in N
  <2>1. \A S \in SUBSET U : Cardinality(S) = 0 => S = {}
    BY <1>1, FS_EmptySet
  <2> QED
    BY <2>1
<1>3. ASSUME NEW n \in Nat, n \in N PROVE n + 1 \in N
  <2> SUFFICES ASSUME NEW S \in SUBSET U, Cardinality(S) = n + 1, NEW x \in S
               PROVE  SumFunctionOnSet(f, S) = f[x] + SumFunctionOnSet(f, S \ {x})
    OBVIOUS
  <2>1. PICK y : y = Pick(S)
    OBVIOUS
  <2>2. y \in S /\ SumFunctionOnSet(f, S) = f[y] + SumFunctionOnSet(f, S \ {y})
    BY <1>1, <2>1, PickFacts, SumUnfolds
  <2>3. CASE x = y
    BY <2>2, <2>3
  <2>4. CASE x # y
    <3>1. Cardinality(S \ {x}) = Cardinality(S) - 1 /\ Cardinality(S \ {y}) = Cardinality(S) - 1
      BY <1>1, <2>2, FS_RemoveElement
    <3>2. Cardinality(S \ {x}) = n /\ Cardinality(S \ {y}) = n
      BY <3>1
    <3>3. Good(S \ {x}) /\ Good(S \ {y})
      BY <1>3, <3>2
    <3>4. PICK T : T = (S \ {x}) \ {y} /\ T = (S \ {y}) \ {x}
      OBVIOUS
    <3>5. /\ SumFunctionOnSet(f, S \ {x}) = f[y] + SumFunctionOnSet(f, T)
          /\ SumFunctionOnSet(f, S \ {y}) = f[x] + SumFunctionOnSet(f, T)
      BY <2>2, <2>4, <3>3, <3>4
    <3>6. f[x] \in Int /\ f[y] \in Int /\ SumFunctionOnSet(f, T) \in Int
      BY <1>1, <2>2, <3>4
    <3> QED
      BY <2>2, <3>5, <3>6
  <2> QED
    BY <2>3, <2>4
<1> HIDE DEF N
<1>4. Cardinality(U) \in N
  BY <1>1, <1>2, <1>3, NatGrows
<1> QED
  BY <1>4 DEF N

\* A sum with an element more.
LEMMA SumAdds ==
  ASSUME NEW f, NEW S, IsFiniteSet(S), NEW a, a \notin S,
         \A x \in S \cup {a} : f[x] \in Int
  PROVE  SumFunctionOnSet(f, S \cup {a}) = f[a] + SumFunctionOnSet(f, S)
<1>1. IsFiniteSet(S \cup {a}) /\ (S \cup {a}) \ {a} = S
  BY FS_AddElement
<1> QED
  BY <1>1, SumRemoves

\* Functions with the same values have the same sum.
LEMMA SumSame ==
  ASSUME NEW f, NEW g, NEW U, IsFiniteSet(U), \A x \in U : f[x] \in Int /\ g[x] = f[x]
  PROVE  SumFunctionOnSet(g, U) = SumFunctionOnSet(f, U)
<1> DEFINE F == {S \in SUBSET U : SumFunctionOnSet(g, S) = SumFunctionOnSet(f, S)}
<1>1. {} \in F
  BY SumEmpty
<1>2. ASSUME NEW S \in SUBSET U, NEW x \in U, S \in F, x \notin S PROVE S \cup {x} \in F
  <2>1. IsFiniteSet(S)
    BY FS_Subset
  <2>2. /\ SumFunctionOnSet(f, S \cup {x}) = f[x] + SumFunctionOnSet(f, S)
        /\ SumFunctionOnSet(g, S \cup {x}) = g[x] + SumFunctionOnSet(g, S)
    BY <1>2, <2>1, SumAdds
  <2> QED
    BY <1>2, <2>2
<1> HIDE DEF F
<1>3. U \in F
  BY <1>1, <1>2, SubsetsGrow
<1> QED
  BY <1>3 DEF F

\* The values of two functions can be added before or after summing up.
LEMMA SumOfSums ==
  ASSUME NEW f, NEW g, NEW h, NEW U, IsFiniteSet(U),
         \A x \in U : f[x] \in Int /\ g[x] \in Int /\ h[x] = f[x] + g[x]
  PROVE  SumFunctionOnSet(h, U) = SumFunctionOnSet(f, U) + SumFunctionOnSet(g, U)
<1> DEFINE F == {S \in SUBSET U :
                   SumFunctionOnSet(h, S) = SumFunctionOnSet(f, S) + SumFunctionOnSet(g, S)}
<1>1. {} \in F
  BY SumEmpty
<1>2. ASSUME NEW S \in SUBSET U, NEW x \in U, S \in F, x \notin S PROVE S \cup {x} \in F
  <2>1. IsFiniteSet(S)
    BY FS_Subset
  <2>2. /\ SumFunctionOnSet(f, S \cup {x}) = f[x] + SumFunctionOnSet(f, S)
        /\ SumFunctionOnSet(g, S \cup {x}) = g[x] + SumFunctionOnSet(g, S)
        /\ SumFunctionOnSet(h, S \cup {x}) = h[x] + SumFunctionOnSet(h, S)
    BY <1>2, <2>1, SumAdds
  <2>3. SumFunctionOnSet(f, S) \in Int /\ SumFunctionOnSet(g, S) \in Int
    BY <2>1, SumType
  <2> QED
    BY <1>2, <2>2, <2>3
<1> HIDE DEF F
<1>3. U \in F
  BY <1>1, <1>2, SubsetsGrow
<1> QED
  BY <1>3 DEF F

\* Zeros add up to zero.
LEMMA SumZero ==
  ASSUME NEW f, NEW U, IsFiniteSet(U), \A x \in U : f[x] = 0
  PROVE  SumFunctionOnSet(f, U) = 0
<1>1. SumFunctionOnSet(f, U) \in Int
  BY SumType
<1>2. \A x \in U : f[x] \in Int /\ f[x] = f[x] + f[x]
  OBVIOUS
<1>3. SumFunctionOnSet(f, U) = SumFunctionOnSet(f, U) + SumFunctionOnSet(f, U)
  BY <1>2, SumOfSums
<1> QED
  BY <1>1, <1>3

\* A sum over two sets that share nothing.
LEMMA SumSplits ==
  ASSUME NEW f, NEW U, IsFiniteSet(U), \A x \in U : f[x] \in Int,
         NEW A, NEW B, A \cup B = U, A \cap B = {}
  PROVE  SumFunctionOnSet(f, U) = SumFunctionOnSet(f, A) + SumFunctionOnSet(f, B)
<1> DEFINE F == {S \in SUBSET U :
                   SumFunctionOnSet(f, S) =
                     SumFunctionOnSet(f, S \cap A) + SumFunctionOnSet(f, S \cap B)}
<1>0. \A S \in SUBSET U : IsFiniteSet(S) /\ SumFunctionOnSet(f, S) \in Int
  <2> SUFFICES ASSUME NEW S \in SUBSET U
               PROVE  IsFiniteSet(S) /\ SumFunctionOnSet(f, S) \in Int
    OBVIOUS
  <2>1. IsFiniteSet(S)
    BY FS_Subset
  <2> QED
    BY <2>1, SumType
<1>1. {} \in F
  <2>1. {} \cap A = {} /\ {} \cap B = {}
    OBVIOUS
  <2> QED
    BY <2>1, SumEmpty
<1>2. ASSUME NEW S \in SUBSET U, NEW x \in U, S \in F, x \notin S PROVE S \cup {x} \in F
  <2>1. SumFunctionOnSet(f, S \cup {x}) = f[x] + SumFunctionOnSet(f, S)
    BY <1>0, <1>2, SumAdds
  <2>2. ASSUME NEW X \in SUBSET U
        PROVE  SumFunctionOnSet(f, (S \cup {x}) \cap X) =
                 IF x \in X THEN f[x] + SumFunctionOnSet(f, S \cap X)
                            ELSE SumFunctionOnSet(f, S \cap X)
    <3>1. CASE x \in X
      <4>1. (S \cup {x}) \cap X = (S \cap X) \cup {x} /\ x \notin S \cap X
        BY <1>2, <3>1
      <4>2. IsFiniteSet(S \cap X)
        BY <1>0
      <4> QED
        BY <3>1, <4>1, <4>2, SumAdds
    <3>2. CASE x \notin X
      <4>1. (S \cup {x}) \cap X = S \cap X
        BY <3>2
      <4> QED
        BY <3>2, <4>1
    <3> QED
      BY <3>1, <3>2
  <2>3. /\ SumFunctionOnSet(f, S \cap A) \in Int /\ SumFunctionOnSet(f, S \cap B) \in Int
        /\ A \in SUBSET U /\ B \in SUBSET U /\ (x \in A <=> x \notin B)
    BY <1>0
  <2> QED
    BY <1>2, <2>1, <2>2, <2>3
<1> HIDE DEF F
<1>3. U \in F
  BY <1>1, <1>2, SubsetsGrow
<1>4. U \cap A = A /\ U \cap B = B
  OBVIOUS
<1> QED
  BY <1>3, <1>4 DEF F

\* Summing up by groups and then the groups gives the sum of all: group[x] says where the
\* value of x is counted.
LEMMA SumByGroup ==
  ASSUME NEW f, NEW U, IsFiniteSet(U), NEW G, IsFiniteSet(G), NEW group \in [U -> G],
         \A x \in U : f[x] \in Int
  PROVE  SumFunctionOnSet([g \in G |-> SumFunctionOnSet(f, {x \in U : group[x] = g})], G) =
           SumFunctionOnSet(f, U)
<1> DEFINE Of(S) == {x \in U : group[x] \in S}
           part == [g \in G |-> SumFunctionOnSet(f, {x \in U : group[x] = g})]
           F == {S \in SUBSET G : SumFunctionOnSet(part, S) = SumFunctionOnSet(f, Of(S))}
<1>0. \A S \in SUBSET U : IsFiniteSet(S) /\ SumFunctionOnSet(f, S) \in Int
  <2> SUFFICES ASSUME NEW S \in SUBSET U
               PROVE  IsFiniteSet(S) /\ SumFunctionOnSet(f, S) \in Int
    OBVIOUS
  <2>1. IsFiniteSet(S)
    BY FS_Subset
  <2> QED
    BY <2>1, SumType
<1>1. {} \in F
  <2>1. Of({}) = {}
    OBVIOUS
  <2> QED
    BY <2>1, SumEmpty
<1>2. \A g \in G : part[g] = SumFunctionOnSet(f, {x \in U : group[x] = g}) /\ part[g] \in Int
  BY <1>0
<1> HIDE DEF part
<1>3. ASSUME NEW S \in SUBSET G, NEW g \in G, S \in F, g \notin S PROVE S \cup {g} \in F
  <2> DEFINE A == Of(S)
             B == {x \in U : group[x] = g}
             C == Of(S \cup {g})
  <2>1. A \cup B = C /\ A \cap B = {} /\ C \in SUBSET U /\ A \in SUBSET U /\ B \in SUBSET U
    BY <1>3, Zenon
  <2>2. SumFunctionOnSet(f, C) = SumFunctionOnSet(f, A) + SumFunctionOnSet(f, B)
    <3>1. IsFiniteSet(C) /\ \A x \in C : f[x] \in Int
      BY <1>0, <2>1
    <3> QED
      BY <2>1, <3>1, SumSplits
  <2>3. IsFiniteSet(S) /\ \A h \in S \cup {g} : part[h] \in Int
    BY <1>2, FS_Subset
  <2>4. SumFunctionOnSet(part, S \cup {g}) = part[g] + SumFunctionOnSet(part, S)
    BY <1>3, <2>3, SumAdds
  <2>5. SumFunctionOnSet(f, A) \in Int /\ SumFunctionOnSet(f, B) \in Int
    BY <1>0, <2>1
  <2>6. part[g] = SumFunctionOnSet(f, B) /\ SumFunctionOnSet(part, S) = SumFunctionOnSet(f, A)
    BY <1>2, <1>3
  <2>7. SumFunctionOnSet(part, S \cup {g}) = SumFunctionOnSet(f, C)
    <3> HIDE DEF A, B, C
    <3> QED
      BY <2>2, <2>4, <2>5, <2>6
  <2> QED
    BY <2>7
<1> HIDE DEF F
<1>4. G \in F
  BY <1>1, <1>3, SubsetsGrow
<1>5. Of(G) = U
  OBVIOUS
<1> QED
  BY <1>4, <1>5 DEF F, part
=============================================================================
