------------------------------ MODULE SumTheorems ------------------------------
(***************************************************************************)
(* What a sum over a finite set is, for the properties that compare a total *)
(* kept in a row with the rows it was made of.  SumFunctionOnSet picks the  *)
(* elements in an order of its own and is defined by a recursive function;  *)
(* the laws below hold whatever the order.  They are stated for functions,  *)
(* so that they can be cited without an operator as a parameter.            *)
(***************************************************************************)
EXTENDS Functions, FiniteSetTheorems, TLAPS

\* Induction over the natural numbers, for a set of them.
LEMMA NatSetInduction ==
  ASSUME NEW Good, 0 \in Good, \A n \in Nat : n \in Good => n + 1 \in Good
  PROVE  Nat \subseteq Good
<1>. DEFINE Below == {ss \in Nat \X Nat : ss[1] < ss[2]}
<1>1. IsWellFoundedOn(Below, Nat)
  BY NatLessThanWellFounded DEF OpToRel
<1>2. SUFFICES ASSUME Nat \ Good # {} PROVE FALSE
  OBVIOUS
<1>3. PICK n \in Nat \ Good : \A m \in Nat \ Good : <<m, n>> \notin Below
  <2>. HIDE DEF Below
  <2>. QED
    BY <1>1, <1>2, WFMin
<1>4. n \in Nat /\ n \notin Good /\ n # 0 /\ n - 1 \in Nat
  BY <1>3
<1>5. <<n - 1, n>> \in Below
  BY <1>4
<1>6. n - 1 \in Good
  BY <1>3, <1>4, <1>5
<1>7. (n - 1) + 1 = n
  BY <1>4
<1>. QED
  BY <1>4, <1>6, <1>7

\* Among sets of subsets of a finite set, one has no smaller one beside it.
LEMMA SmallestSubset ==
  ASSUME NEW S, IsFiniteSet(S), NEW Bad, Bad \subseteq SUBSET S, Bad # {}
  PROVE  \E T \in Bad : \A U \in SUBSET T : U # T => U \notin Bad
<1>1. IsWellFoundedOn(StrictSubsetOrdering(S), SUBSET S)
  BY FS_FiniteSubsetsOfFinite, FS_StrictSubsetOrderingWellFounded
<1>2. PICK T \in Bad : \A U \in Bad : <<U, T>> \notin StrictSubsetOrdering(S)
  BY <1>1, WFMin
<1>3. ASSUME NEW U \in SUBSET T, U # T PROVE U \notin Bad
  <2>1. <<U, T>> \in StrictSubsetOrdering(S)
    BY <1>3 DEF StrictSubsetOrdering
  <2>. QED
    BY <1>2, <2>1
<1>. QED
  BY <1>3

PickOne(s) == CHOOSE x \in s : TRUE

\* The recursive equation of a sum, on the sets of D.
Iterates(g, f, D) ==
  g = [s \in D |-> IF s = {} THEN 0 ELSE f[PickOne(s)] + g[s \ {PickOne(s)}]]

LEMMA PickOneIn == \A s : s # {} => PickOne(s) \in s
  BY DEF PickOne

\* The equation has a solution.
LEMMA IterationExists ==
  ASSUME NEW f, NEW S, IsFiniteSet(S)
  PROVE  \E g : Iterates(g, f, SUBSET S)
<1>. DEFINE Level(n) == {s \in SUBSET S : Cardinality(s) <= n}
            Good == {n \in Nat : \E g : Iterates(g, f, Level(n))}
<1>1. \A s \in SUBSET S : IsFiniteSet(s) /\ Cardinality(s) \in Nat
                          /\ Cardinality(s) <= Cardinality(S)
  BY FS_Subset, FS_CardinalityType
<1>2. Cardinality(S) \in Nat
  BY FS_CardinalityType
<1>3. \A s \in SUBSET S : s # {} =>
        Cardinality(s \ {PickOne(s)}) = Cardinality(s) - 1
  BY <1>1, PickOneIn, FS_RemoveElement
<1>4. 0 \in Good
  <2>1. \A s \in Level(0) : s = {}
    BY <1>1, FS_EmptySet
  <2>2. Iterates([s \in Level(0) |-> 0], f, Level(0))
    BY <2>1 DEF Iterates
  <2>. QED
    BY <2>2
<1>5. ASSUME NEW n \in Nat, n \in Good PROVE n + 1 \in Good
  <2>1. PICK g : Iterates(g, f, Level(n))
    BY <1>5
  <2>. DEFINE h == [s \in Level(n + 1) |->
                      IF s = {} THEN 0 ELSE f[PickOne(s)] + g[s \ {PickOne(s)}]]
  <2>2. \A s \in Level(n + 1) : s # {} => s \ {PickOne(s)} \in Level(n)
    BY <1>1, <1>3
  <2>3. Level(n) \subseteq Level(n + 1)
    BY <1>1
  <2>4. \A s \in Level(n) : g[s] = h[s]
    BY <2>1, <2>3 DEF Iterates
  <2>5. Iterates(h, f, Level(n + 1))
    BY <2>2, <2>4 DEF Iterates
  <2>. HIDE DEF h
  <2>. HIDE DEF Level
  <2>. QED
    BY <2>5
<1>6. Cardinality(S) \in Good
  <2>. HIDE DEF Good
  <2>. QED
    BY <1>2, <1>4, <1>5, NatSetInduction
<1>7. Level(Cardinality(S)) = SUBSET S
  BY <1>1
<1>. QED
  BY <1>6, <1>7

\* Any two solutions agree where both are defined, if they add up functions that agree.
LEMMA IterationUnique ==
  ASSUME NEW f, NEW h, NEW S, IsFiniteSet(S), \A x \in S : f[x] = h[x],
         NEW A, SUBSET S \subseteq A, NEW a, Iterates(a, f, A),
         NEW B, SUBSET S \subseteq B, NEW b, Iterates(b, h, B)
  PROVE  \A s \in SUBSET S : a[s] = b[s]
<1>. DEFINE Bad == {s \in SUBSET S : a[s] # b[s]}
<1>1. SUFFICES ASSUME Bad # {} PROVE FALSE
  OBVIOUS
<1>2. PICK T \in Bad : \A U \in SUBSET T : U # T => U \notin Bad
  <2>. HIDE DEF Bad
  <2>1. Bad \subseteq SUBSET S
    BY DEF Bad
  <2>. QED
    BY <1>1, <2>1, SmallestSubset
<1>3. T \in A /\ T \in B /\ T \in SUBSET S /\ a[T] # b[T]
  OBVIOUS
<1>4. T # {}
  BY <1>3 DEF Iterates
<1>5. PickOne(T) \in T
  BY <1>4, PickOneIn
<1>. DEFINE U == T \ {PickOne(T)}
<1>6. a[U] = b[U]
  BY <1>2, <1>3, <1>5
<1>7. a[T] = f[PickOne(T)] + a[U] /\ b[T] = h[PickOne(T)] + b[U]
  BY <1>3, <1>4 DEF Iterates
<1>8. f[PickOne(T)] = h[PickOne(T)]
  BY <1>3, <1>5
<1>. QED
  BY <1>3, <1>6, <1>7, <1>8

\* SumFunctionOnSet is a value of such a solution.
LEMMA SumIterates ==
  ASSUME NEW f, NEW S, IsFiniteSet(S)
  PROVE  \E g : Iterates(g, f, SUBSET S) /\ SumFunctionOnSet(f, S) = g[S]
<1>1. \E g : Iterates(g, f, SUBSET S)
  BY IterationExists
<1>. QED
  BY <1>1 DEF SumFunctionOnSet, FoldFunctionOnSet, MapThenFoldSet, Iterates, PickOne

\* A sum over nothing is 0.
LEMMA SumEmpty ==
  ASSUME NEW f
  PROVE  SumFunctionOnSet(f, {}) = 0
<1>1. IsFiniteSet({})
  BY FS_EmptySet
<1>2. PICK g : Iterates(g, f, SUBSET {}) /\ SumFunctionOnSet(f, {}) = g[{}]
  BY <1>1, SumIterates
<1>. QED
  BY <1>2 DEF Iterates

\* A sum looks at its function on the set alone.
LEMMA SumAgrees ==
  ASSUME NEW S, IsFiniteSet(S), NEW f, NEW h, \A x \in S : f[x] = h[x]
  PROVE  SumFunctionOnSet(f, S) = SumFunctionOnSet(h, S)
<1>1. PICK a : Iterates(a, f, SUBSET S) /\ SumFunctionOnSet(f, S) = a[S]
  BY SumIterates
<1>2. PICK b : Iterates(b, h, SUBSET S) /\ SumFunctionOnSet(h, S) = b[S]
  BY SumIterates
<1>3. SUBSET S \subseteq SUBSET S /\ S \in SUBSET S
  OBVIOUS
<1>4. \A s \in SUBSET S : a[s] = b[s]
  BY <1>1, <1>2, <1>3, IterationUnique
<1>. QED
  BY <1>1, <1>2, <1>3, <1>4

\* A sum takes the element it picks first.
LEMMA SumPicks ==
  ASSUME NEW f, NEW S, IsFiniteSet(S), S # {}
  PROVE  SumFunctionOnSet(f, S) = f[PickOne(S)] + SumFunctionOnSet(f, S \ {PickOne(S)})
<1>. DEFINE T == S \ {PickOne(S)}
<1>1. IsFiniteSet(T)
  BY FS_Subset
<1>2. PICK a : Iterates(a, f, SUBSET S) /\ SumFunctionOnSet(f, S) = a[S]
  BY SumIterates
<1>3. PICK b : Iterates(b, f, SUBSET T) /\ SumFunctionOnSet(f, T) = b[T]
  BY <1>1, SumIterates
<1>4. a[T] = b[T]
  <2>. DEFINE D == SUBSET S
              E == SUBSET T
              h == f
  <2>1. /\ SUBSET T \subseteq D /\ SUBSET T \subseteq E
        /\ Iterates(a, f, D) /\ Iterates(b, h, E) /\ \A x \in T : f[x] = h[x]
    BY <1>2, <1>3
  <2>. HIDE DEF D, E, T, h
  <2>2. \A s \in SUBSET T : a[s] = b[s]
    BY <1>1, <2>1, IterationUnique
  <2>. QED
    BY <2>2
<1>5. a[S] = f[PickOne(S)] + a[T]
  BY <1>2 DEF Iterates
<1>. QED
  BY <1>2, <1>3, <1>4, <1>5

\* A sum of integers is an integer.
LEMMA SumType ==
  ASSUME NEW f, NEW S, IsFiniteSet(S), \A x \in S : f[x] \in Int
  PROVE  SumFunctionOnSet(f, S) \in Int
<1>. DEFINE Bad == {s \in SUBSET S : SumFunctionOnSet(f, s) \notin Int}
<1>1. SUFFICES ASSUME Bad # {} PROVE FALSE
  OBVIOUS
<1>2. PICK T \in Bad : \A U \in SUBSET T : U # T => U \notin Bad
  <2>. HIDE DEF Bad
  <2>1. Bad \subseteq SUBSET S
    BY DEF Bad
  <2>. QED
    BY <1>1, <2>1, SmallestSubset
<1>3. T \in SUBSET S /\ IsFiniteSet(T)
  BY FS_Subset
<1>4. T # {}
  BY SumEmpty
<1>5. PickOne(T) \in T
  BY <1>4, PickOneIn
<1>6. SumFunctionOnSet(f, T \ {PickOne(T)}) \in Int
  BY <1>2, <1>3, <1>5
<1>7. SumFunctionOnSet(f, T) = f[PickOne(T)] + SumFunctionOnSet(f, T \ {PickOne(T)})
  BY <1>3, <1>4, SumPicks
<1>. QED
  BY <1>3, <1>5, <1>6, <1>7

\* Any element of the set may be taken first.
LEMMA SumRemoves ==
  ASSUME NEW f, NEW S, IsFiniteSet(S), \A x \in S : f[x] \in Int, NEW x \in S
  PROVE  SumFunctionOnSet(f, S) = f[x] + SumFunctionOnSet(f, S \ {x})
<1>. DEFINE Right(s) == \A y \in s : SumFunctionOnSet(f, s) = f[y] + SumFunctionOnSet(f, s \ {y})
            Bad == {s \in SUBSET S : ~Right(s)}
<1>1. SUFFICES ASSUME Bad # {} PROVE FALSE
  OBVIOUS
<1>2. PICK T \in Bad : \A U \in SUBSET T : U # T => U \notin Bad
  <2>. HIDE DEF Bad
  <2>1. Bad \subseteq SUBSET S
    BY DEF Bad
  <2>. QED
    BY <1>1, <2>1, SmallestSubset
<1>3. T \in SUBSET S /\ \A U \in SUBSET T : IsFiniteSet(U)
  BY FS_Subset
<1>4. \A U \in SUBSET T : SumFunctionOnSet(f, U) \in Int
  BY <1>3, SumType
<1>5. PICK y \in T : SumFunctionOnSet(f, T) # f[y] + SumFunctionOnSet(f, T \ {y})
  OBVIOUS
<1>6. PICK z \in T : SumFunctionOnSet(f, T) = f[z] + SumFunctionOnSet(f, T \ {z})
  <2>1. PickOne(T) \in T
    BY <1>5, PickOneIn
  <2>. QED
    BY <1>3, <1>5, <2>1, SumPicks
<1>7. y # z
  BY <1>5, <1>6
<1>8. Right(T \ {z}) /\ Right(T \ {y})
  BY <1>2, <1>3
<1>9. SumFunctionOnSet(f, T \ {z}) = f[y] + SumFunctionOnSet(f, (T \ {z}) \ {y})
  BY <1>7, <1>8
<1>10. SumFunctionOnSet(f, T \ {y}) = f[z] + SumFunctionOnSet(f, (T \ {y}) \ {z})
  BY <1>7, <1>8
<1>11. (T \ {z}) \ {y} = (T \ {y}) \ {z}
  OBVIOUS
<1>12. SumFunctionOnSet(f, (T \ {y}) \ {z}) \in Int /\ f[y] \in Int /\ f[z] \in Int
  BY <1>3, <1>4
<1>. HIDE DEF Right, Bad
<1>13. SumFunctionOnSet(f, T \ {z}) = f[y] + SumFunctionOnSet(f, (T \ {y}) \ {z})
  BY <1>9, <1>11
<1>. QED
  BY <1>5, <1>6, <1>10, <1>12, <1>13

LEMMA SumAdds ==
  ASSUME NEW f, NEW S, IsFiniteSet(S), NEW x, x \notin S, \A y \in S \cup {x} : f[y] \in Int
  PROVE  SumFunctionOnSet(f, S \cup {x}) = f[x] + SumFunctionOnSet(f, S)
<1>1. IsFiniteSet(S \cup {x})
  BY FS_AddElement
<1>2. (S \cup {x}) \ {x} = S
  OBVIOUS
<1>. QED
  BY <1>1, <1>2, SumRemoves

\* A sum of weights that are not negative is not negative.
LEMMA SumNat ==
  ASSUME NEW f, NEW S, IsFiniteSet(S), \A x \in S : f[x] \in Nat
  PROVE  SumFunctionOnSet(f, S) \in Nat
<1>. DEFINE Bad == {s \in SUBSET S : SumFunctionOnSet(f, s) \notin Nat}
<1>1. SUFFICES ASSUME Bad # {} PROVE FALSE
  OBVIOUS
<1>2. PICK T \in Bad : \A U \in SUBSET T : U # T => U \notin Bad
  <2>. HIDE DEF Bad
  <2>1. Bad \subseteq SUBSET S
    BY DEF Bad
  <2>. QED
    BY <1>1, <2>1, SmallestSubset
<1>3. T \in SUBSET S /\ IsFiniteSet(T)
  BY FS_Subset
<1>4. T # {}
  BY SumEmpty
<1>5. PickOne(T) \in T
  BY <1>4, PickOneIn
<1>6. SumFunctionOnSet(f, T \ {PickOne(T)}) \in Nat
  BY <1>2, <1>3, <1>5
<1>7. SumFunctionOnSet(f, T) = f[PickOne(T)] + SumFunctionOnSet(f, T \ {PickOne(T)})
  BY <1>3, <1>4, SumPicks
<1>. QED
  BY <1>3, <1>5, <1>6, <1>7

\* A weight that is the sum of two sums up to the sum of their sums.
LEMMA SumSplits ==
  ASSUME NEW f, NEW g, NEW h, NEW S, IsFiniteSet(S),
         \A x \in S : f[x] \in Int /\ g[x] \in Int /\ h[x] = f[x] + g[x]
  PROVE  SumFunctionOnSet(h, S) = SumFunctionOnSet(f, S) + SumFunctionOnSet(g, S)
<1>. DEFINE Splits(s) == SumFunctionOnSet(h, s) = SumFunctionOnSet(f, s) + SumFunctionOnSet(g, s)
            Bad == {s \in SUBSET S : ~Splits(s)}
<1>1. SUFFICES ASSUME Bad # {} PROVE FALSE
  OBVIOUS
<1>2. PICK T \in Bad : \A U \in SUBSET T : U # T => U \notin Bad
  <2>. HIDE DEF Bad
  <2>1. Bad \subseteq SUBSET S
    BY DEF Bad
  <2>. QED
    BY <1>1, <2>1, SmallestSubset
<1>3. T \in SUBSET S /\ IsFiniteSet(T)
  BY FS_Subset
<1>4. T # {}
  <2>. SUFFICES ASSUME T = {} PROVE Splits(T)
    OBVIOUS
  <2>1. SumFunctionOnSet(h, {}) = 0 /\ SumFunctionOnSet(f, {}) = 0 /\ SumFunctionOnSet(g, {}) = 0
    BY SumEmpty
  <2>. QED
    BY <2>1
<1>. DEFINE one == PickOne(T)
            rest == T \ {one}
<1>5. one \in T /\ rest \in SUBSET T /\ rest # T
  BY <1>4, PickOneIn
<1>6. Splits(rest)
  BY <1>2, <1>3, <1>5
<1>7. /\ SumFunctionOnSet(h, T) = h[one] + SumFunctionOnSet(h, rest)
      /\ SumFunctionOnSet(f, T) = f[one] + SumFunctionOnSet(f, rest)
      /\ SumFunctionOnSet(g, T) = g[one] + SumFunctionOnSet(g, rest)
  BY <1>3, <1>4, SumPicks
<1>8. SumFunctionOnSet(f, rest) \in Int /\ SumFunctionOnSet(g, rest) \in Int
  <2>1. IsFiniteSet(rest) /\ \A x \in rest : f[x] \in Int /\ g[x] \in Int
    BY <1>3, <1>5, FS_Subset
  <2>. QED
    BY <2>1, SumType
<1>9. f[one] \in Int /\ g[one] \in Int /\ h[one] = f[one] + g[one]
  BY <1>3, <1>5
<1>. HIDE DEF one, rest
<1>10. Splits(T)
  BY <1>6, <1>7, <1>8, <1>9
<1>. QED
  BY <1>2, <1>10

================================================================================
