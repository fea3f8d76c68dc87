------------------------------ MODULE SumLemmas ------------------------------
(***************************************************************************)
(* Facts about SumFunctionOnSet(f, S), the sum of f[x] over a finite set   *)
(* S, which the ledgers and the cost law use for money: what a sum is,     *)
(* that the order of its terms does not matter, and how it grows; and      *)
(* that a finite set of integers has a maximum.                            *)
(*                                                                         *)
(* Inductions over subsets are stated with a set of subsets, not with a    *)
(* predicate: a least counterexample is excluded by WFMin.                 *)
(***************************************************************************)
EXTENDS FiniteSetsExt, FiniteSetTheorems, TLAPS

-------------------------------------------------------------------------------
(* Induction. *)

\* Every subset of a finite set S is in G if those are whose own strict subsets
\* all are.
LEMMA SubsetInduction ==
  ASSUME NEW S, IsFiniteSet(S), NEW G,
         \A T \in SUBSET S : (\A U \in SUBSET T : U # T => U \in G) => T \in G
  PROVE  \A T \in SUBSET S : T \in G
<1> DEFINE Bad == {T \in SUBSET S : T \notin G}
<1>1. SUFFICES ASSUME Bad # {} PROVE FALSE
  OBVIOUS
<1>2. IsWellFoundedOn(StrictSubsetOrdering(S), SUBSET S)
  BY FS_StrictSubsetOrderingWellFounded, FS_FiniteSubsetsOfFinite
<1>3. PICK T \in Bad : \A U \in Bad : <<U, T>> \notin StrictSubsetOrdering(S)
  <2>1. Bad \subseteq SUBSET S
    OBVIOUS
  <2> HIDE DEF Bad
  <2> QED BY <1>1, <1>2, <2>1, WFMin
<1>4. ASSUME NEW U \in SUBSET T, U # T
      PROVE  U \in G
  <2>1. <<U, T>> \in StrictSubsetOrdering(S)
    BY <1>4 DEF StrictSubsetOrdering
  <2> QED BY <1>3, <2>1
<1> QED BY <1>3, <1>4

-------------------------------------------------------------------------------
(* What a sum is. *)

Chosen(T) == CHOOSE x \in T : TRUE

\* g maps every subset of S to the sum of f over it.
Adds(g, f, S) ==
  g = [T \in SUBSET S |->
         IF T = {} THEN 0 ELSE f[Chosen(T)] + g[T \ {Chosen(T)}]]

LEMMA SumDef ==
  ASSUME NEW f, NEW S
  PROVE  SumFunctionOnSet(f, S) = (CHOOSE g : Adds(g, f, S))[S]
BY DEF SumFunctionOnSet, FoldFunctionOnSet, MapThenFoldSet, Adds, Chosen

LEMMA ChosenIsIn ==
  ASSUME NEW T, T # {}
  PROVE  Chosen(T) \in T
BY DEF Chosen

LEMMA AddsAt ==
  ASSUME NEW f, NEW S, NEW g, Adds(g, f, S), NEW T \in SUBSET S
  PROVE  g[T] = IF T = {} THEN 0 ELSE f[Chosen(T)] + g[T \ {Chosen(T)}]
<1> DEFINE body(t) == IF t = {} THEN 0 ELSE f[Chosen(t)] + g[t \ {Chosen(t)}]
<1>1. g = [t \in SUBSET S |-> body(t)]
  BY DEF Adds
<1> HIDE DEF body
<1>2. g[T] = body(T)
  BY <1>1
<1> QED BY <1>2 DEF body

LEMMA AddsAgree ==
  ASSUME NEW f, NEW S, IsFiniteSet(S), NEW R \in SUBSET S,
         NEW g, Adds(g, f, S), NEW h, Adds(h, f, R)
  PROVE  \A T \in SUBSET R : g[T] = h[T]
<1> DEFINE G == {T \in SUBSET R : g[T] = h[T]}
<1>1. ASSUME NEW T \in SUBSET R, \A U \in SUBSET T : U # T => U \in G
      PROVE  T \in G
  <2>1. CASE T = {}
    BY <2>1, AddsAt
  <2>2. CASE T # {}
    <3> DEFINE U == T \ {Chosen(T)}
    <3>1. U \in SUBSET T /\ U # T
      BY <2>2, ChosenIsIn
    <3>2. g[U] = h[U]
      BY <3>1, <1>1
    <3>3. T \in SUBSET S
      OBVIOUS
    <3>4. g[T] = f[Chosen(T)] + g[U] /\ h[T] = f[Chosen(T)] + h[U]
      <4> HIDE DEF G, U
      <4>1. g[T] = IF T = {} THEN 0 ELSE f[Chosen(T)] + g[T \ {Chosen(T)}]
        BY <3>3, AddsAt
      <4>2. h[T] = IF T = {} THEN 0 ELSE f[Chosen(T)] + h[T \ {Chosen(T)}]
        BY AddsAt
      <4> QED BY <2>2, <4>1, <4>2 DEF U
    <3> QED BY <3>2, <3>4
  <2> QED BY <2>1, <2>2
<1>2. IsFiniteSet(R)
  BY FS_Subset
<1>3. \A T \in SUBSET R : T \in G
  <2> HIDE DEF G
  <2> QED BY <1>1, <1>2, SubsetInduction
<1> QED BY <1>3

LEMMA AddsExists ==
  ASSUME NEW f, NEW S, IsFiniteSet(S)
  PROVE  \E g : Adds(g, f, S)
<1> DEFINE G == {T \in SUBSET S : \E g : Adds(g, f, T)}
           some(T) == CHOOSE g : Adds(g, f, T)
           less(T) == T \ {Chosen(T)}
<1>1. ASSUME NEW T \in SUBSET S, \A U \in SUBSET T : U # T => U \in G
      PROVE  T \in G
  <2> DEFINE value(U) == IF U = {} THEN 0 ELSE f[Chosen(U)] + some(less(U))[less(U)]
             g == [U \in SUBSET T |-> value(U)]
  <2>1. ASSUME NEW U \in SUBSET T, U # {}
        PROVE  g[less(U)] = some(less(U))[less(U)]
    <3> DEFINE V == less(U)
    <3>1. V \in SUBSET T /\ V # T
      BY <2>1, ChosenIsIn
    <3>2. Adds(some(V), f, V)
      BY <3>1, <1>1
    <3>3. some(V)[V] = IF V = {} THEN 0 ELSE f[Chosen(V)] + some(V)[less(V)]
      <4> HIDE DEF some, V
      <4> QED BY <3>2, AddsAt
    <3>4. g[V] = value(V)
      BY <3>1
    <3>5. V # {} => some(V)[less(V)] = some(less(V))[less(V)]
      <4> SUFFICES ASSUME V # {} PROVE some(V)[less(V)] = some(less(V))[less(V)]
        OBVIOUS
      <4>1. less(V) \in SUBSET T /\ less(V) # T /\ less(V) \in SUBSET V
        BY <3>1
      <4>2. Adds(some(less(V)), f, less(V))
        BY <4>1, <1>1
      <4>3. IsFiniteSet(V)
        BY <3>1, FS_Subset
      <4> HIDE DEF some, V, less
      <4> QED BY <3>2, <4>1, <4>2, <4>3, AddsAgree
    <3> QED BY <3>3, <3>4, <3>5
  <2>2. g = [U \in SUBSET T |-> IF U = {} THEN 0 ELSE f[Chosen(U)] + g[less(U)]]
    <3>1. ASSUME NEW U \in SUBSET T
          PROVE  value(U) = IF U = {} THEN 0 ELSE f[Chosen(U)] + g[less(U)]
      <4> HIDE DEF g, some, less
      <4> QED BY <2>1
    <3> HIDE DEF value
    <3> DEFINE other(U) == IF U = {} THEN 0 ELSE f[Chosen(U)] + g[less(U)]
    <3>2. \A U \in SUBSET T : value(U) = other(U)
      BY <3>1
    <3>3. [U \in SUBSET T |-> value(U)] = [U \in SUBSET T |-> other(U)]
      <4> HIDE DEF other
      <4> QED BY <3>2
    <3> QED BY <3>3
  <2>3. Adds(g, f, T)
    BY <2>2 DEF Adds
  <2> QED BY <2>3
<1>2. \A T \in SUBSET S : T \in G
  <2> HIDE DEF G
  <2> QED BY <1>1, SubsetInduction
<1> QED BY <1>2

\* A sum is its first term and the sum of the others.
LEMMA SumStep ==
  ASSUME NEW f, NEW S, IsFiniteSet(S)
  PROVE  SumFunctionOnSet(f, S) =
           IF S = {} THEN 0
           ELSE f[Chosen(S)] + SumFunctionOnSet(f, S \ {Chosen(S)})
<1> DEFINE g == CHOOSE g : Adds(g, f, S)
           U == S \ {Chosen(S)}
           h == CHOOSE h : Adds(h, f, U)
<1>1. IsFiniteSet(U) /\ U \in SUBSET S
  BY FS_Subset
<1>2. Adds(g, f, S) /\ Adds(h, f, U)
  <2>1. (\E k : Adds(k, f, S)) /\ (\E k : Adds(k, f, U))
    BY <1>1, AddsExists
  <2> QED BY <2>1
<1>3. SumFunctionOnSet(f, S) = g[S] /\ SumFunctionOnSet(f, U) = h[U]
  BY SumDef
<1>4. g[S] = IF S = {} THEN 0 ELSE f[Chosen(S)] + g[U]
  <2> HIDE DEF g
  <2> QED BY <1>2, AddsAt
<1>5. g[U] = h[U]
  <2> HIDE DEF g, h, U
  <2> QED BY <1>1, <1>2, AddsAgree
<1> HIDE DEF g, h, U
<1> QED BY <1>3, <1>4, <1>5 DEF U

LEMMA SumOfNone ==
  ASSUME NEW f
  PROVE  SumFunctionOnSet(f, {}) = 0
BY SumStep, FS_EmptySet

LEMMA SumIsInt ==
  ASSUME NEW f, NEW S, IsFiniteSet(S), \A x \in S : f[x] \in Int
  PROVE  SumFunctionOnSet(f, S) \in Int
<1> DEFINE G == {T \in SUBSET S : SumFunctionOnSet(f, T) \in Int}
<1>1. ASSUME NEW T \in SUBSET S, \A U \in SUBSET T : U # T => U \in G
      PROVE  T \in G
  <2>1. CASE T = {}
    BY <2>1, SumOfNone
  <2>2. CASE T # {}
    <3>1. T \ {Chosen(T)} \in G /\ Chosen(T) \in S
      BY <1>1, <2>2, ChosenIsIn
    <3>2. SumFunctionOnSet(f, T) = f[Chosen(T)] + SumFunctionOnSet(f, T \ {Chosen(T)})
      BY <2>2, SumStep, FS_Subset
    <3> QED BY <3>1, <3>2
  <2> QED BY <2>1, <2>2
<1>2. \A T \in SUBSET S : T \in G
  <2> HIDE DEF G
  <2> QED BY <1>1, SubsetInduction
<1> QED BY <1>2

-------------------------------------------------------------------------------
(* The order of the terms does not matter. *)

\* Any element may be taken out of a sum.
LEMMA SumTakeOut ==
  ASSUME NEW f, NEW S, IsFiniteSet(S), \A x \in S : f[x] \in Int, NEW y \in S
  PROVE  SumFunctionOnSet(f, S) = f[y] + SumFunctionOnSet(f, S \ {y})
<1> DEFINE Sum(T) == SumFunctionOnSet(f, T)
           G == {T \in SUBSET S : \A x \in T : Sum(T) = f[x] + Sum(T \ {x})}
<1> USE FS_Subset
<1>1. ASSUME NEW T \in SUBSET S, \A U \in SUBSET T : U # T => U \in G
      PROVE  T \in G
  <2> SUFFICES ASSUME NEW x \in T PROVE Sum(T) = f[x] + Sum(T \ {x})
    OBVIOUS
  <2> DEFINE c == Chosen(T)
  <2>1. c \in T
    BY ChosenIsIn
  <2>2. Sum(T) = f[c] + Sum(T \ {c})
    BY SumStep
  <2>3. CASE x # c
    <3>1. T \ {c} \in G /\ T \ {x} \in G /\ x \in T \ {c} /\ c \in T \ {x}
      <4> HIDE DEF c, G
      <4> QED BY <1>1, <2>1, <2>3
    <3>2. (T \ {c}) \ {x} = (T \ {x}) \ {c}
      OBVIOUS
    <3>3. Sum(T \ {c}) = f[x] + Sum((T \ {x}) \ {c})
      BY <3>1, <3>2
    <3>4. Sum(T \ {x}) = f[c] + Sum((T \ {x}) \ {c})
      BY <3>1
    <3>5. Sum((T \ {x}) \ {c}) \in Int
      <4>1. IsFiniteSet((T \ {x}) \ {c})
        OBVIOUS
      <4> QED BY <4>1, SumIsInt
    <3>6. f[x] \in Int /\ f[c] \in Int
      BY <2>1
    <3> DEFINE all == Sum(T)
               lessX == Sum(T \ {x})
               lessC == Sum(T \ {c})
               lessBoth == Sum((T \ {x}) \ {c})
    <3>7. all = f[c] + lessC /\ lessC = f[x] + lessBoth /\ lessX = f[c] + lessBoth
      BY <2>2, <3>3, <3>4
    <3>8. lessBoth \in Int
      BY <3>5
    <3>9. SUFFICES all = f[x] + lessX
      OBVIOUS
    <3> HIDE DEF c, all, lessX, lessC, lessBoth, G
    <3> QED BY <3>6, <3>7, <3>8
  <2> QED BY <2>2, <2>3
<1>2. \A T \in SUBSET S : T \in G
  <2> HIDE DEF G
  <2> QED BY <1>1, SubsetInduction
<1> QED BY <1>2

LEMMA SumAddOne ==
  ASSUME NEW f, NEW S, IsFiniteSet(S), NEW y, y \notin S,
         \A x \in S \cup {y} : f[x] \in Int
  PROVE  SumFunctionOnSet(f, S \cup {y}) = f[y] + SumFunctionOnSet(f, S)
<1>1. IsFiniteSet(S \cup {y})
  BY FS_AddElement
<1>2. (S \cup {y}) \ {y} = S
  OBVIOUS
<1> QED BY <1>1, <1>2, SumTakeOut

-------------------------------------------------------------------------------
(* Sums of several functions. *)

\* Functions that add up to a third one have sums that do.
LEMMA SumOfBoth ==
  ASSUME NEW f, NEW g, NEW h, NEW S, IsFiniteSet(S),
         \A x \in S : f[x] \in Int /\ g[x] \in Int /\ h[x] = f[x] + g[x]
  PROVE  SumFunctionOnSet(h, S) = SumFunctionOnSet(f, S) + SumFunctionOnSet(g, S)
<1> DEFINE G == {T \in SUBSET S :
                   SumFunctionOnSet(h, T) = SumFunctionOnSet(f, T) + SumFunctionOnSet(g, T)}
<1>1. ASSUME NEW T \in SUBSET S, \A U \in SUBSET T : U # T => U \in G
      PROVE  T \in G
  <2>1. CASE T = {}
    BY <2>1, SumOfNone
  <2>2. CASE T # {}
    <3> DEFINE c == Chosen(T)
               U == T \ {c}
    <3>1. U \in G /\ c \in S
      BY <1>1, <2>2, ChosenIsIn
    <3>2. IsFiniteSet(T) /\ IsFiniteSet(U)
      BY FS_Subset
    <3>3. /\ SumFunctionOnSet(f, T) = f[c] + SumFunctionOnSet(f, U)
          /\ SumFunctionOnSet(g, T) = g[c] + SumFunctionOnSet(g, U)
          /\ SumFunctionOnSet(h, T) = h[c] + SumFunctionOnSet(h, U)
      BY <2>2, <3>2, SumStep
    <3>4. SumFunctionOnSet(f, U) \in Int /\ SumFunctionOnSet(g, U) \in Int
      BY <3>2, SumIsInt
    <3>5. f[c] \in Int /\ g[c] \in Int /\ h[c] = f[c] + g[c]
      BY <3>1
    <3>6. SumFunctionOnSet(h, U) = SumFunctionOnSet(f, U) + SumFunctionOnSet(g, U)
      BY <3>1
    <3> HIDE DEF c, U
    <3> QED BY <3>3, <3>4, <3>5, <3>6
  <2> QED BY <2>1, <2>2
<1>2. \A T \in SUBSET S : T \in G
  <2> HIDE DEF G
  <2> QED BY <1>1, SubsetInduction
<1> QED BY <1>2

\* Functions that agree on a set have the same sum over it.
LEMMA SumSame ==
  ASSUME NEW f, NEW g, NEW S, IsFiniteSet(S), \A x \in S : f[x] = g[x]
  PROVE  SumFunctionOnSet(f, S) = SumFunctionOnSet(g, S)
<1> DEFINE G == {T \in SUBSET S : SumFunctionOnSet(f, T) = SumFunctionOnSet(g, T)}
<1>1. ASSUME NEW T \in SUBSET S, \A U \in SUBSET T : U # T => U \in G
      PROVE  T \in G
  <2>1. CASE T = {}
    BY <2>1, SumOfNone
  <2>2. CASE T # {}
    <3> DEFINE c == Chosen(T)
               U == T \ {c}
    <3>1. U \in G /\ c \in S
      BY <1>1, <2>2, ChosenIsIn
    <3>2. /\ SumFunctionOnSet(f, T) = f[c] + SumFunctionOnSet(f, U)
          /\ SumFunctionOnSet(g, T) = g[c] + SumFunctionOnSet(g, U)
      BY <2>2, SumStep, FS_Subset
    <3>3. SumFunctionOnSet(f, U) = SumFunctionOnSet(g, U) /\ f[c] = g[c]
      BY <3>1
    <3> HIDE DEF c, U
    <3> QED BY <3>2, <3>3
  <2> QED BY <2>1, <2>2
<1>2. \A T \in SUBSET S : T \in G
  <2> HIDE DEF G
  <2> QED BY <1>1, SubsetInduction
<1> QED BY <1>2

\* A sum of terms that are not negative is not negative.
LEMMA SumIsNat ==
  ASSUME NEW f, NEW S, IsFiniteSet(S), \A x \in S : f[x] \in Nat
  PROVE  SumFunctionOnSet(f, S) \in Nat
<1> DEFINE G == {T \in SUBSET S : SumFunctionOnSet(f, T) \in Nat}
<1>1. ASSUME NEW T \in SUBSET S, \A U \in SUBSET T : U # T => U \in G
      PROVE  T \in G
  <2>1. CASE T = {}
    BY <2>1, SumOfNone
  <2>2. CASE T # {}
    <3>1. T \ {Chosen(T)} \in G /\ Chosen(T) \in S
      BY <1>1, <2>2, ChosenIsIn
    <3>2. SumFunctionOnSet(f, T) = f[Chosen(T)] + SumFunctionOnSet(f, T \ {Chosen(T)})
      BY <2>2, SumStep, FS_Subset
    <3> QED BY <3>1, <3>2
  <2> QED BY <2>1, <2>2
<1>2. \A T \in SUBSET S : T \in G
  <2> HIDE DEF G
  <2> QED BY <1>1, SubsetInduction
<1> QED BY <1>2

\* Of two sums over a set the one with the larger terms is the larger.
LEMMA SumBelow ==
  ASSUME NEW f, NEW g, NEW S, IsFiniteSet(S),
         \A x \in S : f[x] \in Int /\ g[x] \in Int /\ f[x] <= g[x]
  PROVE  SumFunctionOnSet(f, S) <= SumFunctionOnSet(g, S)
<1> DEFINE d == [x \in S |-> g[x] - f[x]]
<1>1. \A x \in S : d[x] \in Nat /\ g[x] = f[x] + d[x]
  OBVIOUS
<1> HIDE DEF d
<1>2. SumFunctionOnSet(d, S) \in Nat
  BY <1>1, SumIsNat
<1>3. SumFunctionOnSet(g, S) = SumFunctionOnSet(f, S) + SumFunctionOnSet(d, S)
  BY <1>1, SumOfBoth
<1>4. SumFunctionOnSet(f, S) \in Int
  BY SumIsInt
<1> QED BY <1>2, <1>3, <1>4

\* A sum over a part of a set of terms that are not negative is no larger.
LEMMA SumOfPart ==
  ASSUME NEW f, NEW S, IsFiniteSet(S), \A x \in S : f[x] \in Nat, NEW T \in SUBSET S
  PROVE  SumFunctionOnSet(f, T) <= SumFunctionOnSet(f, S)
<1> DEFINE G == {U \in SUBSET S : T \subseteq U =>
                   SumFunctionOnSet(f, T) <= SumFunctionOnSet(f, U)}
<1>1. ASSUME NEW U \in SUBSET S, \A V \in SUBSET U : V # U => V \in G
      PROVE  U \in G
  <2> SUFFICES ASSUME T \subseteq U
               PROVE  SumFunctionOnSet(f, T) <= SumFunctionOnSet(f, U)
    OBVIOUS
  <2>1. IsFiniteSet(U) /\ IsFiniteSet(T)
    BY FS_Subset
  <2>2. SumFunctionOnSet(f, T) \in Nat /\ SumFunctionOnSet(f, U) \in Nat
    BY <2>1, SumIsNat
  <2>3. CASE T = U
    BY <2>2, <2>3
  <2>4. CASE T # U
    <3>1. PICK y \in U : y \notin T
      BY <2>4
    <3>2. U \ {y} \in G /\ T \subseteq U \ {y}
      BY <1>1, <3>1
    <3>3. SumFunctionOnSet(f, U) = f[y] + SumFunctionOnSet(f, U \ {y})
      BY <2>1, SumTakeOut
    <3>4. SumFunctionOnSet(f, U \ {y}) \in Nat
      BY <2>1, FS_Subset, SumIsNat
    <3>5. SumFunctionOnSet(f, T) <= SumFunctionOnSet(f, U \ {y})
      BY <3>2
    <3>6. f[y] \in Nat
      OBVIOUS
    <3> HIDE DEF G
    <3> QED BY <2>2, <3>3, <3>4, <3>5, <3>6
  <2> QED BY <2>3, <2>4
<1>2. \A U \in SUBSET S : U \in G
  <2> HIDE DEF G
  <2> QED BY <1>1, SubsetInduction
<1> QED BY <1>2

\* Changing one term changes the sum by as much.
LEMMA SumUpdate ==
  ASSUME NEW f, NEW g, NEW S, IsFiniteSet(S), NEW y \in S,
         \A x \in S : f[x] \in Int /\ g[x] \in Int,
         \A x \in S \ {y} : g[x] = f[x]
  PROVE  SumFunctionOnSet(g, S) = SumFunctionOnSet(f, S) - f[y] + g[y]
<1>1. SumFunctionOnSet(g, S) = g[y] + SumFunctionOnSet(g, S \ {y})
  BY SumTakeOut
<1>2. SumFunctionOnSet(f, S) = f[y] + SumFunctionOnSet(f, S \ {y})
  BY SumTakeOut
<1>3. IsFiniteSet(S \ {y})
  BY FS_Subset
<1>4. SumFunctionOnSet(g, S \ {y}) = SumFunctionOnSet(f, S \ {y})
  BY <1>3, SumSame
<1>5. SumFunctionOnSet(f, S \ {y}) \in Int
  BY <1>3, SumIsInt
<1> QED BY <1>1, <1>2, <1>4, <1>5

\* Terms that are zero may be left out.
LEMMA SumDropZeros ==
  ASSUME NEW f, NEW S, IsFiniteSet(S), \A x \in S : f[x] \in Int,
         NEW T \in SUBSET S, \A x \in S \ T : f[x] = 0
  PROVE  SumFunctionOnSet(f, S) = SumFunctionOnSet(f, T)
<1> DEFINE G == {U \in SUBSET S : T \subseteq U =>
                   SumFunctionOnSet(f, U) = SumFunctionOnSet(f, T)}
<1>1. ASSUME NEW U \in SUBSET S, \A V \in SUBSET U : V # U => V \in G
      PROVE  U \in G
  <2> SUFFICES ASSUME T \subseteq U, T # U
               PROVE  SumFunctionOnSet(f, U) = SumFunctionOnSet(f, T)
    OBVIOUS
  <2>1. PICK y \in U : y \notin T
    OBVIOUS
  <2>2. U \ {y} \in G /\ T \subseteq U \ {y}
    BY <1>1, <2>1
  <2>3. IsFiniteSet(U) /\ IsFiniteSet(U \ {y})
    BY FS_Subset
  <2>4. SumFunctionOnSet(f, U) = f[y] + SumFunctionOnSet(f, U \ {y})
    BY <2>3, SumTakeOut
  <2>5. SumFunctionOnSet(f, U \ {y}) \in Int
    BY <2>3, SumIsInt
  <2>6. f[y] = 0
    BY <2>1
  <2>7. SumFunctionOnSet(f, U \ {y}) = SumFunctionOnSet(f, T)
    BY <2>2
  <2> HIDE DEF G
  <2> QED BY <2>4, <2>5, <2>6, <2>7
<1>2. \A U \in SUBSET S : U \in G
  <2> HIDE DEF G
  <2> QED BY <1>1, SubsetInduction
<1> QED BY <1>2

\* A sum is that of a part and of the rest.
LEMMA SumSplit ==
  ASSUME NEW f, NEW S, IsFiniteSet(S), \A x \in S : f[x] \in Int, NEW T \in SUBSET S
  PROVE  SumFunctionOnSet(f, S) = SumFunctionOnSet(f, T) + SumFunctionOnSet(f, S \ T)
<1> DEFINE in == [x \in S |-> IF x \in T THEN f[x] ELSE 0]
           out == [x \in S |-> IF x \in T THEN 0 ELSE f[x]]
<1>1. \A x \in S : in[x] \in Int /\ out[x] \in Int /\ f[x] = in[x] + out[x]
  OBVIOUS
<1>2. /\ \A x \in S \ T : in[x] = 0 /\ f[x] = out[x]
      /\ \A x \in T : in[x] = f[x]
      /\ \A x \in S \ (S \ T) : out[x] = 0
  OBVIOUS
<1> HIDE DEF in, out
<1>3. SumFunctionOnSet(f, S) = SumFunctionOnSet(in, S) + SumFunctionOnSet(out, S)
  BY <1>1, SumOfBoth
<1>4. IsFiniteSet(T) /\ IsFiniteSet(S \ T)
  BY FS_Subset
<1>5. SumFunctionOnSet(in, S) = SumFunctionOnSet(in, T)
  BY <1>1, <1>2, SumDropZeros
<1>6. SumFunctionOnSet(in, T) = SumFunctionOnSet(f, T)
  BY <1>2, <1>4, SumSame
<1>7. SumFunctionOnSet(out, S) = SumFunctionOnSet(out, S \ T)
  BY <1>1, <1>2, SumDropZeros
<1>8. SumFunctionOnSet(out, S \ T) = SumFunctionOnSet(f, S \ T)
  BY <1>2, <1>4, SumSame
<1> QED BY <1>3, <1>5, <1>6, <1>7, <1>8

\* A sum of terms of at most m.
LEMMA SumAtMost ==
  ASSUME NEW f, NEW S, IsFiniteSet(S), NEW m \in Nat,
         \A x \in S : f[x] \in Int /\ f[x] <= m
  PROVE  SumFunctionOnSet(f, S) <= Cardinality(S) * m
<1> DEFINE G == {T \in SUBSET S : SumFunctionOnSet(f, T) <= Cardinality(T) * m}
<1>1. ASSUME NEW T \in SUBSET S, \A U \in SUBSET T : U # T => U \in G
      PROVE  T \in G
  <2>1. CASE T = {}
    BY <2>1, SumOfNone, FS_EmptySet
  <2>2. CASE T # {}
    <3> DEFINE c == Chosen(T)
               U == T \ {c}
    <3>1. c \in T /\ U \in G
      BY <1>1, <2>2, ChosenIsIn
    <3>2. IsFiniteSet(T) /\ IsFiniteSet(U)
      BY FS_Subset
    <3>3. SumFunctionOnSet(f, T) = f[c] + SumFunctionOnSet(f, U)
      BY <2>2, <3>2, SumStep
    <3>4. SumFunctionOnSet(f, U) \in Int /\ f[c] \in Int /\ f[c] <= m
      BY <3>1, <3>2, SumIsInt
    <3>5. Cardinality(U) \in Nat /\ Cardinality(T) = Cardinality(U) + 1
      BY <3>1, <3>2, FS_RemoveElement, FS_CardinalityType
    <3>6. \A k \in Nat : (k + 1) * m = k * m + m /\ k * m \in Int
      OBVIOUS
    <3>7. /\ Cardinality(T) * m = Cardinality(U) * m + m
          /\ Cardinality(U) * m \in Int
      BY <3>5, <3>6
    <3>8. SumFunctionOnSet(f, U) <= Cardinality(U) * m
      BY <3>1
    <3> HIDE DEF c, U
    <3>9. SumFunctionOnSet(f, T) <= Cardinality(T) * m
      BY <3>3, <3>4, <3>7, <3>8
    <3> QED BY <3>9
  <2> QED BY <2>1, <2>2
<1>2. \A T \in SUBSET S : T \in G
  <2> HIDE DEF G
  <2> QED BY <1>1, SubsetInduction
<1> QED BY <1>2

\* A common factor may be taken out.
LEMMA SumScaled ==
  ASSUME NEW f, NEW g, NEW S, IsFiniteSet(S), NEW k \in Int,
         \A x \in S : f[x] \in Int /\ g[x] = k * f[x]
  PROVE  SumFunctionOnSet(g, S) = k * SumFunctionOnSet(f, S)
<1> DEFINE G == {T \in SUBSET S : SumFunctionOnSet(g, T) = k * SumFunctionOnSet(f, T)}
<1>1. ASSUME NEW T \in SUBSET S, \A U \in SUBSET T : U # T => U \in G
      PROVE  T \in G
  <2>1. CASE T = {}
    BY <2>1, SumOfNone
  <2>2. CASE T # {}
    <3> DEFINE c == Chosen(T)
               U == T \ {c}
    <3>1. c \in S /\ U \in G
      BY <1>1, <2>2, ChosenIsIn
    <3>2. /\ SumFunctionOnSet(f, T) = f[c] + SumFunctionOnSet(f, U)
          /\ SumFunctionOnSet(g, T) = g[c] + SumFunctionOnSet(g, U)
      BY <2>2, SumStep, FS_Subset
    <3>3. f[c] \in Int /\ SumFunctionOnSet(f, U) \in Int
      BY <3>1, SumIsInt, FS_Subset
    <3>4. \A x, y \in Int : k * (x + y) = k * x + k * y
      OBVIOUS
    <3>5. g[c] = k * f[c] /\ SumFunctionOnSet(g, U) = k * SumFunctionOnSet(f, U)
      BY <3>1
    <3> QED BY <3>2, <3>3, <3>4, <3>5
  <2> QED BY <2>1, <2>2
<1>2. \A T \in SUBSET S : T \in G
  <2> HIDE DEF G
  <2> QED BY <1>1, SubsetInduction
<1> QED BY <1>2

-------------------------------------------------------------------------------
(* Maxima. *)

LEMMA FiniteHasMax ==
  ASSUME NEW S \in SUBSET Int, IsFiniteSet(S), S # {}
  PROVE  Max(S) \in S /\ \A x \in S : x <= Max(S)
<1> DEFINE G == {T \in SUBSET S : T # {} => \E m \in T : \A x \in T : m >= x}
<1>1. ASSUME NEW T \in SUBSET S, \A U \in SUBSET T : U # T => U \in G
      PROVE  T \in G
  <2> SUFFICES ASSUME T # {} PROVE \E m \in T : \A x \in T : m >= x
    OBVIOUS
  <2>1. PICK c \in T : TRUE
    OBVIOUS
  <2>2. CASE T \ {c} = {}
    BY <2>2
  <2>3. CASE T \ {c} # {}
    <3>1. T \ {c} \in G
      BY <1>1, <2>1
    <3>2. PICK m \in T \ {c} : \A x \in T \ {c} : m >= x
      BY <2>3, <3>1
    <3>3. CASE m >= c
      BY <3>2, <3>3
    <3>4. CASE ~ (m >= c)
      <4>1. \A x \in T : x \in Int
        OBVIOUS
      <4> HIDE DEF G
      <4> QED BY <3>2, <3>4, <4>1
    <3> QED BY <3>3, <3>4
  <2> QED BY <2>2, <2>3
<1>2. \A T \in SUBSET S : T \in G
  <2> HIDE DEF G
  <2> QED BY <1>1, SubsetInduction
<1>3. \E m \in S : \A x \in S : m >= x
  BY <1>2
<1> QED BY <1>3 DEF Max

===============================================================================
