---------------------------- MODULE SumTheorems ----------------------------
(***************************************************************************)
(* Facts about SumFunctionOnSet, the sum of f[x] over the x of a finite set. *)
(*                                                                         *)
(* The operator is a recursive function on the subsets of the set, which   *)
(* takes away an element at a time.  Induction is over these subsets, as   *)
(* the well-foundedness of strict inclusion: a set of subsets that is not   *)
(* empty has a minimal one.                                                *)
(***************************************************************************)
EXTENDS Functions, FiniteSetTheorems, TLAPS

\* A set of subsets that has each subset whose proper subsets it has, has all.
LEMMA SubsetInduction ==
  ASSUME NEW S, IsFiniteSet(S), NEW Good,
         ASSUME NEW T \in SUBSET S, \A U \in SUBSET T : U # T => U \in Good
         PROVE  T \in Good
  PROVE  SUBSET S \subseteq Good
<1> DEFINE bad == {T \in SUBSET S : T \notin Good}
<1> SUFFICES ASSUME NEW X \in SUBSET S, X \notin Good PROVE FALSE
  OBVIOUS
<1>1. IsWellFoundedOn(StrictSubsetOrdering(S), SUBSET S)
  <2>1. IsWellFoundedOn(StrictSubsetOrdering(S), FiniteSubsetsOf(S))
    BY FS_StrictSubsetOrderingWellFounded
  <2>2. FiniteSubsetsOf(S) = SUBSET S
    BY FS_FiniteSubsetsOfFinite
  <2> QED BY <2>1, <2>2, Zenon
<1>2. bad \subseteq SUBSET S /\ bad # {}
  OBVIOUS
<1>3. PICK T \in bad : \A U \in bad : ~(<<U, T>> \in StrictSubsetOrdering(S))
  <2> HIDE DEF bad
  <2> QED BY <1>1, <1>2, WFMin
<1>4. \A U \in SUBSET T : U # T => U \in Good
  <2> SUFFICES ASSUME NEW U \in SUBSET T, U # T, U \notin Good PROVE FALSE
    OBVIOUS
  <2>1. U \in bad
    OBVIOUS
  <2>2. <<U, T>> \in StrictSubsetOrdering(S)
    BY DEF StrictSubsetOrdering
  <2> QED BY <1>3, <2>1, <2>2
<1> QED BY <1>4

-----------------------------------------------------------------------------
(* The recursive function is well defined *)

\* The element that the fold takes away next
Pick(S) == CHOOSE x \in S : TRUE

\* It is an element of the set.
LEMMA PickIn == ASSUME NEW S, S # {} PROVE Pick(S) \in S
  BY DEF Pick

\* g is the sum of each subset of S, by its equation.
IsPartial(g, f, S) ==
  g = [T \in SUBSET S |-> IF T = {} THEN 0 ELSE f[Pick(T)] + g[T \ {Pick(T)}]]

\* The function that satisfies the equation, if there is one
Partial(f, S) == CHOOSE g : IsPartial(g, f, S)

\* The sum over a set is what this function says of it.
LEMMA SumIsPartial ==
  ASSUME NEW f, NEW S
  PROVE  SumFunctionOnSet(f, S) = Partial(f, S)[S]
  BY DEF SumFunctionOnSet, FoldFunctionOnSet, MapThenFoldSet, Partial, IsPartial, Pick

\* What the equation says of one subset
LEMMA PartialAt ==
  ASSUME NEW g, NEW f, NEW S, IsPartial(g, f, S), NEW T \in SUBSET S
  PROVE  g[T] = IF T = {} THEN 0 ELSE f[Pick(T)] + g[T \ {Pick(T)}]
<1> DEFINE body(U) == IF U = {} THEN 0 ELSE f[Pick(U)] + g[U \ {Pick(U)}]
<1>1. g = [U \in SUBSET S |-> body(U)]
  BY DEF IsPartial
<1> HIDE DEF body
<1>2. g[T] = body(T)
  BY <1>1
<1> QED BY <1>2 DEF body

\* Two functions that satisfy it agree on the subsets they share.
LEMMA PartialUnique ==
  ASSUME NEW f, NEW R, NEW S \in SUBSET R, IsFiniteSet(S),
         NEW g, IsPartial(g, f, S), NEW h, IsPartial(h, f, R)
  PROVE  g[S] = h[S]
<1> DEFINE good == {T \in SUBSET S : g[T] = h[T]}
<1>1. ASSUME NEW T \in SUBSET S, \A U \in SUBSET T : U # T => U \in good
      PROVE  T \in good
  <2>1. /\ g[T] = IF T = {} THEN 0 ELSE f[Pick(T)] + g[T \ {Pick(T)}]
        /\ h[T] = IF T = {} THEN 0 ELSE f[Pick(T)] + h[T \ {Pick(T)}]
    BY PartialAt
  <2>2. T # {} => T \ {Pick(T)} \in good
    BY <1>1, PickIn
  <2> QED BY <2>1, <2>2
<1> HIDE DEF good
<1>2. SUBSET S \subseteq good
  BY <1>1, SubsetInduction
<1> QED BY <1>2 DEF good

\* There is one for each finite set.
LEMMA PartialExists ==
  ASSUME NEW f, NEW S, IsFiniteSet(S)
  PROVE  IsPartial(Partial(f, S), f, S)
<1> DEFINE good == {T \in SUBSET S : \E g : IsPartial(g, f, T)}
<1>1. ASSUME NEW T \in SUBSET S, \A U \in SUBSET T : U # T => U \in good
      PROVE  T \in good
  <2> DEFINE value(U) == Partial(f, U)[U]
             body(U) == IF U = {} THEN 0 ELSE f[Pick(U)] + value(U \ {Pick(U)})
             g == [U \in SUBSET T |-> body(U)]
  <2>1. ASSUME NEW U \in SUBSET T, U # T
        PROVE  IsPartial(Partial(f, U), f, U)
    BY <1>1, <2>1 DEF Partial
  <2>2. ASSUME NEW W \in SUBSET T, W # T
        PROVE  g[W] = value(W)
    <3>1. value(W) = IF W = {} THEN 0 ELSE f[Pick(W)] + Partial(f, W)[W \ {Pick(W)}]
      BY <2>1, <2>2, PartialAt
    <3>2. ASSUME W # {}
          PROVE  Partial(f, W)[W \ {Pick(W)}] = value(W \ {Pick(W)})
      <4> DEFINE V == W \ {Pick(W)}
      <4>1. V \in SUBSET W /\ V \in SUBSET T /\ V # T
        BY <2>2
      <4>2. IsFiniteSet(V)
        BY <4>1, FS_Subset
      <4>3. IsPartial(Partial(f, V), f, V) /\ IsPartial(Partial(f, W), f, W)
        BY <2>1, <2>2, <4>1
      <4> HIDE DEF V
      <4>4. Partial(f, V)[V] = Partial(f, W)[V]
        BY <4>1, <4>2, <4>3, PartialUnique
      <4> QED BY <4>4 DEF V
    <3>3. g[W] = body(W)
      OBVIOUS
    <3> HIDE DEF value, g
    <3> QED BY <3>1, <3>2, <3>3
  <2>3. ASSUME NEW U \in SUBSET T
        PROVE  body(U) = IF U = {} THEN 0 ELSE f[Pick(U)] + g[U \ {Pick(U)}]
    <3> HIDE DEF value, g
    <3>1. U # {} => U \ {Pick(U)} \in SUBSET T /\ U \ {Pick(U)} # T
      BY PickIn
    <3> QED BY <2>2, <3>1
  <2>4. IsPartial(g, f, T)
    BY <2>3 DEF IsPartial
  <2> HIDE DEF g
  <2> QED BY <2>4
<1> HIDE DEF good
<1>2. SUBSET S \subseteq good
  BY <1>1, SubsetInduction
<1>3. \E g : IsPartial(g, f, S)
  BY <1>2 DEF good
<1> QED BY <1>3 DEF Partial

\* The sum takes away an element of its own choice at a time.
LEMMA SumDef ==
  ASSUME NEW f, NEW S, IsFiniteSet(S)
  PROVE  SumFunctionOnSet(f, S) =
           IF S = {} THEN 0 ELSE f[Pick(S)] + SumFunctionOnSet(f, S \ {Pick(S)})
<1> DEFINE T == S \ {Pick(S)}
<1>1. IsFiniteSet(T)
  BY FS_Subset
<1>2. IsPartial(Partial(f, S), f, S) /\ IsPartial(Partial(f, T), f, T)
  BY <1>1, PartialExists
<1>3. Partial(f, S)[S] = IF S = {} THEN 0 ELSE f[Pick(S)] + Partial(f, S)[T]
  BY <1>2, PartialAt
<1>4. Partial(f, T)[T] = Partial(f, S)[T]
  BY <1>1, <1>2, PartialUnique
<1> QED BY <1>3, <1>4, SumIsPartial

-----------------------------------------------------------------------------
(* Sums of integers *)

\* Nothing adds up to zero.
LEMMA SumEmpty == ASSUME NEW f PROVE SumFunctionOnSet(f, {}) = 0
  BY SumDef, FS_EmptySet

\* Integers add up to an integer.
LEMMA SumInt ==
  ASSUME NEW f, NEW S, IsFiniteSet(S), \A x \in S : f[x] \in Int
  PROVE  SumFunctionOnSet(f, S) \in Int
<1> DEFINE good == {T \in SUBSET S : SumFunctionOnSet(f, T) \in Int}
<1>1. ASSUME NEW T \in SUBSET S, \A U \in SUBSET T : U # T => U \in good
      PROVE  T \in good
  <2>1. IsFiniteSet(T)
    BY FS_Subset
  <2>2. T # {} => Pick(T) \in S /\ T \ {Pick(T)} \in good
    BY <1>1, PickIn
  <2> QED BY <2>1, <2>2, SumDef
<1> HIDE DEF good
<1>2. SUBSET S \subseteq good
  BY <1>1, SubsetInduction
<1> QED BY <1>2 DEF good

\* Whichever element is taken away, the rest of the sum is the same.
LEMMA SumRemove ==
  ASSUME NEW f, NEW S, IsFiniteSet(S), \A x \in S : f[x] \in Int, NEW a \in S
  PROVE  SumFunctionOnSet(f, S) = f[a] + SumFunctionOnSet(f, S \ {a})
<1> DEFINE Sum(T) == SumFunctionOnSet(f, T)
           good == {T \in SUBSET S : \A x \in T : Sum(T) = f[x] + Sum(T \ {x})}
<1> HIDE DEF Sum
<1>1. ASSUME NEW T \in SUBSET S
      PROVE  IsFiniteSet(T) /\ Sum(T) \in Int
  BY FS_Subset, SumInt DEF Sum
<1>2. ASSUME NEW T \in SUBSET S, \A U \in SUBSET T : U # T => U \in good
      PROVE  T \in good
  <2> SUFFICES ASSUME NEW x \in T PROVE Sum(T) = f[x] + Sum(T \ {x})
    OBVIOUS
  <2> DEFINE p == Pick(T)
  <2>1. p \in T /\ Sum(T) = f[p] + Sum(T \ {p})
    BY <1>1, SumDef, PickIn DEF Sum
  <2> HIDE DEF p
  <2>2. CASE x # p
    <3>1. T \ {p} \in good /\ T \ {x} \in good
      BY <1>2, <2>1
    <3>2. Sum(T \ {p}) = f[x] + Sum((T \ {p}) \ {x}) /\ Sum(T \ {x}) = f[p] + Sum((T \ {x}) \ {p})
      BY <2>1, <2>2, <3>1
    <3>3. (T \ {p}) \ {x} = (T \ {x}) \ {p} /\ (T \ {x}) \ {p} \in SUBSET S
      OBVIOUS
    <3>4. Sum((T \ {x}) \ {p}) \in Int /\ f[x] \in Int /\ f[p] \in Int
      BY <1>1, <2>1, <3>3
    <3> DEFINE rest == Sum((T \ {x}) \ {p})
    <3>5. Sum(T \ {p}) = f[x] + rest /\ Sum(T \ {x}) = f[p] + rest /\ rest \in Int
      BY <3>2, <3>3, <3>4
    <3> HIDE DEF rest
    <3> QED BY <2>1, <3>4, <3>5
  <2> QED BY <2>1, <2>2
<1> HIDE DEF good
<1>3. SUBSET S \subseteq good
  BY <1>2, SubsetInduction
<1> QED BY <1>3 DEF good, Sum

\* A new element adds its value.
LEMMA SumAdd ==
  ASSUME NEW f, NEW S, IsFiniteSet(S), NEW a, a \notin S, \A x \in S \cup {a} : f[x] \in Int
  PROVE  SumFunctionOnSet(f, S \cup {a}) = f[a] + SumFunctionOnSet(f, S)
<1>1. IsFiniteSet(S \cup {a}) /\ (S \cup {a}) \ {a} = S
  BY FS_AddElement
<1> QED BY <1>1, SumRemove

\* The sum over one element is its value.
LEMMA SumOne ==
  ASSUME NEW f, NEW a, f[a] \in Int
  PROVE  SumFunctionOnSet(f, {a}) = f[a]
<1>1. {a} = {} \cup {a}
  OBVIOUS
<1> QED BY <1>1, SumAdd, SumEmpty, FS_EmptySet

\* Only the values on the set matter.
LEMMA SumCongruent ==
  ASSUME NEW S, IsFiniteSet(S), NEW f, NEW g, \A x \in S : f[x] = g[x]
  PROVE  SumFunctionOnSet(f, S) = SumFunctionOnSet(g, S)
<1> DEFINE good == {T \in SUBSET S : SumFunctionOnSet(f, T) = SumFunctionOnSet(g, T)}
<1>1. ASSUME NEW T \in SUBSET S, \A U \in SUBSET T : U # T => U \in good
      PROVE  T \in good
  <2>1. IsFiniteSet(T)
    BY FS_Subset
  <2>2. T # {} => Pick(T) \in S /\ T \ {Pick(T)} \in good
    BY <1>1, PickIn
  <2> QED BY <2>1, <2>2, SumDef
<1> HIDE DEF good
<1>2. SUBSET S \subseteq good
  BY <1>1, SubsetInduction
<1> QED BY <1>2 DEF good

\* Greater values have a greater sum.
LEMMA SumMonotonic ==
  ASSUME NEW S, IsFiniteSet(S), NEW f, NEW g,
         \A x \in S : f[x] \in Int /\ g[x] \in Int /\ f[x] <= g[x]
  PROVE  SumFunctionOnSet(f, S) <= SumFunctionOnSet(g, S)
<1> DEFINE good == {T \in SUBSET S : SumFunctionOnSet(f, T) <= SumFunctionOnSet(g, T)}
<1>1. ASSUME NEW T \in SUBSET S, \A U \in SUBSET T : U # T => U \in good
      PROVE  T \in good
  <2> DEFINE p == Pick(T)
             U == T \ {p}
  <2>1. IsFiniteSet(T) /\ IsFiniteSet(U)
    BY FS_Subset
  <2>2. T # {} => p \in S /\ U \in good
    BY <1>1, PickIn
  <2>3. SumFunctionOnSet(f, U) \in Int /\ SumFunctionOnSet(g, U) \in Int
    BY <2>1, SumInt
  <2>4. CASE T = {}
    BY <2>4, SumEmpty
  <2>5. CASE T # {}
    <3>1. /\ SumFunctionOnSet(f, T) = f[p] + SumFunctionOnSet(f, U)
          /\ SumFunctionOnSet(g, T) = g[p] + SumFunctionOnSet(g, U)
      BY <2>1, <2>5, SumDef
    <3> QED BY <2>2, <2>3, <2>5, <3>1
  <2> QED BY <2>4, <2>5
<1> HIDE DEF good
<1>2. SUBSET S \subseteq good
  BY <1>1, SubsetInduction
<1> QED BY <1>2 DEF good

\* Natural numbers add up to a natural number.
LEMMA SumNat ==
  ASSUME NEW f, NEW S, IsFiniteSet(S), \A x \in S : f[x] \in Nat
  PROVE  SumFunctionOnSet(f, S) \in Nat
<1> DEFINE good == {T \in SUBSET S : SumFunctionOnSet(f, T) \in Nat}
<1>1. ASSUME NEW T \in SUBSET S, \A U \in SUBSET T : U # T => U \in good
      PROVE  T \in good
  <2>1. IsFiniteSet(T)
    BY FS_Subset
  <2>2. T # {} => Pick(T) \in S /\ T \ {Pick(T)} \in good
    BY <1>1, PickIn
  <2> QED BY <2>1, <2>2, SumDef
<1> HIDE DEF good
<1>2. SUBSET S \subseteq good
  BY <1>1, SubsetInduction
<1> QED BY <1>2 DEF good

\* Zeros add up to zero.
LEMMA SumZero ==
  ASSUME NEW f, NEW S, IsFiniteSet(S), \A x \in S : f[x] = 0
  PROVE  SumFunctionOnSet(f, S) = 0
<1> DEFINE good == {T \in SUBSET S : SumFunctionOnSet(f, T) = 0}
<1>1. ASSUME NEW T \in SUBSET S, \A U \in SUBSET T : U # T => U \in good
      PROVE  T \in good
  <2>1. IsFiniteSet(T)
    BY FS_Subset
  <2>2. T # {} => Pick(T) \in S /\ T \ {Pick(T)} \in good
    BY <1>1, PickIn
  <2> QED BY <2>1, <2>2, SumDef
<1> HIDE DEF good
<1>2. SUBSET S \subseteq good
  BY <1>1, SubsetInduction
<1> QED BY <1>2 DEF good

\* The sum of sums is the sum of both.
LEMMA SumPlus ==
  ASSUME NEW S, IsFiniteSet(S), NEW f, NEW g, NEW h,
         \A x \in S : f[x] \in Int /\ g[x] \in Int /\ h[x] = f[x] + g[x]
  PROVE  SumFunctionOnSet(h, S) = SumFunctionOnSet(f, S) + SumFunctionOnSet(g, S)
<1> DEFINE good == {T \in SUBSET S :
                      SumFunctionOnSet(h, T) = SumFunctionOnSet(f, T) + SumFunctionOnSet(g, T)}
<1>1. ASSUME NEW T \in SUBSET S, \A U \in SUBSET T : U # T => U \in good
      PROVE  T \in good
  <2> DEFINE p == Pick(T)
             U == T \ {p}
  <2>1. IsFiniteSet(T) /\ IsFiniteSet(U)
    BY FS_Subset
  <2>2. T # {} => p \in S /\ U \in good
    BY <1>1, PickIn
  <2>3. SumFunctionOnSet(f, U) \in Int /\ SumFunctionOnSet(g, U) \in Int
    BY <2>1, SumInt
  <2>4. CASE T = {}
    BY <2>4, SumEmpty
  <2>5. CASE T # {}
    <3>1. /\ SumFunctionOnSet(f, T) = f[p] + SumFunctionOnSet(f, U)
          /\ SumFunctionOnSet(g, T) = g[p] + SumFunctionOnSet(g, U)
          /\ SumFunctionOnSet(h, T) = h[p] + SumFunctionOnSet(h, U)
      BY <2>1, <2>5, SumDef
    <3> QED BY <2>2, <2>3, <2>5, <3>1
  <2> QED BY <2>4, <2>5
<1> HIDE DEF good
<1>2. SUBSET S \subseteq good
  BY <1>1, SubsetInduction
<1> QED BY <1>2 DEF good

\* Elements outside A may as well count nothing.
LEMMA SumRestrict ==
  ASSUME NEW S, IsFiniteSet(S), NEW A \in SUBSET S, NEW f, NEW g,
         \A x \in S : f[x] \in Int /\ g[x] = IF x \in A THEN f[x] ELSE 0
  PROVE  SumFunctionOnSet(g, S) = SumFunctionOnSet(f, A)
<1> DEFINE good == {T \in SUBSET S : SumFunctionOnSet(g, T) = SumFunctionOnSet(f, T \cap A)}
<1>1. ASSUME NEW T \in SUBSET S, \A U \in SUBSET T : U # T => U \in good
      PROVE  T \in good
  <2> DEFINE p == Pick(T)
             U == T \ {p}
  <2>1. IsFiniteSet(T) /\ IsFiniteSet(U) /\ IsFiniteSet(T \cap A) /\ IsFiniteSet(U \cap A)
    BY FS_Subset
  <2>2. CASE T = {}
    BY <2>2, SumEmpty
  <2>3. CASE T # {}
    <3>1. p \in T /\ p \in S /\ U \in good
      BY <1>1, <2>3, PickIn
    <3>2. SumFunctionOnSet(g, T) = g[p] + SumFunctionOnSet(f, U \cap A)
      BY <2>1, <2>3, <3>1, SumDef
    <3>3. SumFunctionOnSet(f, U \cap A) \in Int
      BY <2>1, SumInt
    <3> HIDE DEF p
    <3>4. CASE p \in A
      <4>1. p \in T \cap A /\ (T \cap A) \ {p} = U \cap A
        BY <3>1, <3>4
      <4>2. SumFunctionOnSet(f, T \cap A) = f[p] + SumFunctionOnSet(f, U \cap A)
        BY <2>1, <4>1, SumRemove
      <4> QED BY <3>1, <3>2, <3>4, <4>2
    <3>5. CASE p \notin A
      <4>1. T \cap A = U \cap A
        BY <3>5
      <4>2. g[p] = 0
        BY <3>1, <3>5
      <4>3. SumFunctionOnSet(f, T \cap A) = SumFunctionOnSet(f, U \cap A)
        BY <4>1
      <4> HIDE DEF U
      <4> QED BY <3>2, <3>3, <4>2, <4>3
    <3> QED BY <3>4, <3>5
  <2> QED BY <2>2, <2>3
<1> HIDE DEF good
<1>2. SUBSET S \subseteq good
  BY <1>1, SubsetInduction
<1>3. S \cap A = A
  OBVIOUS
<1> QED BY <1>2, <1>3 DEF good

\* Two sets that are apart add up to the sums of both.
LEMMA SumUnion ==
  ASSUME NEW A, IsFiniteSet(A), NEW B, IsFiniteSet(B), A \cap B = {},
         NEW f, \A x \in A \cup B : f[x] \in Int
  PROVE  SumFunctionOnSet(f, A \cup B) = SumFunctionOnSet(f, A) + SumFunctionOnSet(f, B)
<1> DEFINE S == A \cup B
           inA == [x \in S |-> IF x \in A THEN f[x] ELSE 0]
           inB == [x \in S |-> IF x \in B THEN f[x] ELSE 0]
<1>1. IsFiniteSet(S) /\ A \in SUBSET S /\ B \in SUBSET S
  BY FS_Union
<1>2. \A x \in S : /\ f[x] \in Int
                   /\ inA[x] = IF x \in A THEN f[x] ELSE 0
                   /\ inB[x] = IF x \in B THEN f[x] ELSE 0
  OBVIOUS
<1>3. \A x \in S : inA[x] \in Int /\ inB[x] \in Int /\ f[x] = inA[x] + inB[x]
  BY <1>2
<1> HIDE DEF inA, inB, S
<1>4. SumFunctionOnSet(inA, S) = SumFunctionOnSet(f, A)
  BY <1>1, <1>2, SumRestrict
<1>5. SumFunctionOnSet(inB, S) = SumFunctionOnSet(f, B)
  BY <1>1, <1>2, SumRestrict
<1>6. SumFunctionOnSet(f, S) = SumFunctionOnSet(inA, S) + SumFunctionOnSet(inB, S)
  BY <1>1, <1>3, SumPlus
<1> QED BY <1>4, <1>5, <1>6 DEF S

\* Of natural numbers, fewer have a smaller sum.
LEMMA SumSubset ==
  ASSUME NEW S, IsFiniteSet(S), NEW A \in SUBSET S, NEW f, \A x \in S : f[x] \in Nat
  PROVE  SumFunctionOnSet(f, A) <= SumFunctionOnSet(f, S)
<1>1. IsFiniteSet(A) /\ IsFiniteSet(S \ A) /\ A \cup (S \ A) = S /\ A \cap (S \ A) = {}
  BY FS_Subset
<1>2. SumFunctionOnSet(f, A) \in Nat /\ SumFunctionOnSet(f, S \ A) \in Nat
  BY <1>1, SumNat
<1>3. SumFunctionOnSet(f, S) = SumFunctionOnSet(f, A) + SumFunctionOnSet(f, S \ A)
  BY <1>1, SumUnion
<1> QED BY <1>2, <1>3

\* The same sum under other names: b gives each element of S a name of its own.
LEMMA SumRenamed ==
  ASSUME NEW S, IsFiniteSet(S), NEW f, NEW g, NEW b,
         \A x, y \in S : b[x] = b[y] => x = y,
         \A x \in S : f[b[x]] \in Int /\ g[x] = f[b[x]]
  PROVE  SumFunctionOnSet(f, {b[x] : x \in S}) = SumFunctionOnSet(g, S)
<1> DEFINE Names(T) == {b[x] : x \in T}
           good == {T \in SUBSET S : /\ IsFiniteSet(Names(T))
                                     /\ SumFunctionOnSet(f, Names(T)) = SumFunctionOnSet(g, T)}
<1>1. ASSUME NEW T \in SUBSET S, \A U \in SUBSET T : U # T => U \in good
      PROVE  T \in good
  <2> DEFINE p == Pick(T)
             U == T \ {p}
  <2>1. IsFiniteSet(T)
    BY FS_Subset
  <2>2. CASE T = {}
    <3>1. Names(T) = {}
      BY <2>2
    <3> QED BY <2>2, <3>1, SumEmpty, FS_EmptySet
  <2>3. CASE T # {}
    <3>1. p \in T /\ p \in S /\ U \in good
      BY <1>1, <2>3, PickIn
    <3>2. SumFunctionOnSet(g, T) = g[p] + SumFunctionOnSet(g, U)
      BY <2>1, <2>3, SumDef
    <3> HIDE DEF p
    <3>3. Names(T) = Names(U) \cup {b[p]} /\ b[p] \notin Names(U)
      BY <3>1
    <3>4. IsFiniteSet(Names(U)) /\ SumFunctionOnSet(f, Names(U)) = SumFunctionOnSet(g, U)
      BY <3>1
    <3>5. \A y \in Names(U) \cup {b[p]} : f[y] \in Int
      BY <3>1
    <3> HIDE DEF Names, U
    <3>6. SumFunctionOnSet(f, Names(T)) = f[b[p]] + SumFunctionOnSet(f, Names(U))
      BY <3>3, <3>4, <3>5, SumAdd
    <3>7. IsFiniteSet(Names(T))
      BY <3>3, <3>4, FS_AddElement
    <3> QED BY <3>1, <3>2, <3>4, <3>6, <3>7
  <2> QED BY <2>2, <2>3
<1> HIDE DEF good
<1>2. SUBSET S \subseteq good
  BY <1>1, SubsetInduction
<1> QED BY <1>2 DEF good

-----------------------------------------------------------------------------
(* Counting twice *)

\* What everybody pays for all he holds is what is paid for each thing by all
\* who hold it.
LEMMA SumByHolders ==
  ASSUME NEW U, IsFiniteSet(U), NEW S, IsFiniteSet(S),
         NEW price, \A s \in S : price[s] \in Nat,
         NEW held, \A u \in U : held[u] \subseteq S
  PROVE  SumFunctionOnSet([u \in U |-> SumFunctionOnSet(price, held[u])], U)
           = SumFunctionOnSet([s \in S |-> price[s] * Cardinality({u \in U : s \in held[u]})], S)
<1> DEFINE paid == [u \in U |-> SumFunctionOnSet(price, held[u])]
           Count(V, s) == Cardinality({u \in V : s \in held[u]})
           Cost(V) == [s \in S |-> price[s] * Count(V, s)]
           good == {V \in SUBSET U : SumFunctionOnSet(paid, V) = SumFunctionOnSet(Cost(V), S)}
<1>1. ASSUME NEW V \in SUBSET U, NEW s \in S
      PROVE  IsFiniteSet({u \in V : s \in held[u]}) /\ Count(V, s) \in Nat
  BY FS_Subset, FS_CardinalityType
<1>2. \A u \in U : paid[u] \in Int /\ IsFiniteSet(held[u])
  <2> TAKE u \in U
  <2>1. IsFiniteSet(held[u])
    BY FS_Subset
  <2>2. SumFunctionOnSet(price, held[u]) \in Int
    BY <2>1, SumInt
  <2> QED BY <2>1, <2>2
<1>3. ASSUME NEW V \in SUBSET U, \A W \in SUBSET V : W # V => W \in good
      PROVE  V \in good
  <2> DEFINE v == Pick(V)
             W == V \ {v}
             own == [s \in S |-> IF s \in held[v] THEN price[s] ELSE 0]
  <2>1. IsFiniteSet(V)
    BY FS_Subset
  <2>2. CASE V = {}
    <3>1. \A s \in S : Count(V, s) = 0
      BY <2>2, FS_EmptySet
    <3>2. \A s \in S : Cost(V)[s] = 0
      BY <3>1
    <3> HIDE DEF Cost, Count, paid
    <3>3. SumFunctionOnSet(Cost(V), S) = 0
      BY <3>2, SumZero
    <3> QED BY <2>2, <3>3, SumEmpty
  <2>3. CASE V # {}
    <3>1. v \in V /\ v \in U /\ W \in good
      BY <1>3, <2>3, PickIn
    <3>2. SumFunctionOnSet(paid, V) = paid[v] + SumFunctionOnSet(paid, W)
      BY <2>1, <2>3, SumDef
    <3> HIDE DEF v
    <3>3. ASSUME NEW s \in S
          PROVE  Count(V, s) = IF s \in held[v] THEN Count(W, s) + 1 ELSE Count(W, s)
      <4>1. v \notin {u \in W : s \in held[u]} /\ IsFiniteSet({u \in W : s \in held[u]})
        BY <1>1
      <4>2. CASE s \in held[v]
        <5>1. {u \in V : s \in held[u]} = {u \in W : s \in held[u]} \cup {v}
          BY <3>1, <4>2
        <5> QED BY <4>1, <4>2, <5>1, FS_AddElement
      <4>3. CASE s \notin held[v]
        <5>1. {u \in V : s \in held[u]} = {u \in W : s \in held[u]}
          BY <4>3
        <5> QED BY <4>3, <5>1
      <4> QED BY <4>2, <4>3
    <3>4. ASSUME NEW s \in S
          PROVE  /\ Cost(W)[s] \in Int /\ own[s] \in Int
                 /\ Cost(V)[s] = Cost(W)[s] + own[s]
      <4> DEFINE n == Count(W, s)
                 q == price[s]
      <4>1. n \in Nat /\ q \in Nat
        BY <1>1
      <4>2. Cost(W)[s] = q * n /\ own[s] = IF s \in held[v] THEN q ELSE 0
        OBVIOUS
      <4>3. Cost(V)[s] = IF s \in held[v] THEN q * (n + 1) ELSE q * n
        BY <3>3
      <4> HIDE DEF n, q, Cost, own
      <4>4. q * (n + 1) = q * n + q /\ q * n \in Int
        BY <4>1
      <4> QED BY <4>1, <4>2, <4>3, <4>4
    <3>5. paid[v] = SumFunctionOnSet(price, held[v])
      BY <3>1
    <3>6. \A s \in S : price[s] \in Int /\ own[s] = IF s \in held[v] THEN price[s] ELSE 0
      OBVIOUS
    <3>7. held[v] \in SUBSET S
      BY <3>1
    <3> HIDE DEF own, Cost, paid, Count
    <3>8. SumFunctionOnSet(own, S) = paid[v]
      BY <3>5, <3>6, <3>7, SumRestrict
    <3>9. SumFunctionOnSet(Cost(V), S) = SumFunctionOnSet(Cost(W), S) + SumFunctionOnSet(own, S)
      BY <3>4, SumPlus
    <3>10. SumFunctionOnSet(Cost(W), S) \in Int
      BY <3>4, SumInt
    <3>11. SumFunctionOnSet(paid, W) = SumFunctionOnSet(Cost(W), S)
      BY <3>1
    <3>12. paid[v] \in Int
      BY <1>2, <3>1
    <3> QED BY <3>2, <3>8, <3>9, <3>10, <3>11, <3>12
  <2> QED BY <2>2, <2>3
<1>4. SumFunctionOnSet(paid, U) = SumFunctionOnSet(Cost(U), S)
  <2> HIDE DEF good
  <2>1. SUBSET U \subseteq good
    BY <1>3, SubsetInduction
  <2> QED BY <2>1 DEF good
<1> QED BY <1>4
=============================================================================
