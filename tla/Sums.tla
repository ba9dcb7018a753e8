-------------------------------- MODULE Sums --------------------------------
(***************************************************************************)
(* What SumFunctionOnSet of the community modules computes, for functions  *)
(* to the naturals: the sum over a finite set is the number of units there *)
(* are when every element x stands for w[x] of them.  The facts about sums *)
(* that the proofs of this project need then follow from those about the   *)
(* cardinality of finite sets.                                             *)
(***************************************************************************)
EXTENDS Integers, FiniteSets, Functions, FiniteSetTheorems, WellFoundedInduction, TLAPS

\* The units the elements of S stand for.
Units(w, S) == {unit \in S \X (Nat \ {0}) : unit[2] <= w[unit[1]]}

\* What the fold does with a set, when sum is the sum of smaller ones.
Picked(s) == CHOOSE x \in s : TRUE
OneMore(w, sum, s) == IF s = {} THEN 0 ELSE w[Picked(s)] + sum[s \ {Picked(s)}]
Folded(w, S) == CHOOSE sum : sum = [s \in SUBSET S |-> OneMore(w, sum, s)]

\* Among subsets of a finite set there is always a smallest one.
LEMMA SmallestSubset ==
    ASSUME NEW S, IsFiniteSet(S), NEW Some \in SUBSET SUBSET S, Some # {}
    PROVE  \E T \in Some : \A U \in Some : U \subseteq T => U = T
<1>1. IsWellFoundedOn(StrictSubsetOrdering(S), SUBSET S)
    BY FS_StrictSubsetOrderingWellFounded, FS_FiniteSubsetsOfFinite
<1>2. PICK T \in Some : \A U \in Some : ~(<<U, T>> \in StrictSubsetOrdering(S))
    BY <1>1, WFMin
<1>3. \A U \in Some : U \subseteq T => U = T
    BY <1>2 DEF StrictSubsetOrdering
<1>4. QED
    BY <1>3

\* The library's definition, with its parameters filled in.
LEMMA SumFolds ==
    ASSUME NEW w, NEW S
    PROVE  SumFunctionOnSet(w, S) = Folded(w, S)[S]
BY DEF SumFunctionOnSet, FoldFunctionOnSet, MapThenFoldSet, Folded, OneMore, Picked

\* One element more, and the units it stands for.
LEMMA UnitsOfOneMore ==
    ASSUME NEW S, NEW w, NEW x, x \notin S, w[x] \in Nat, IsFiniteSet(Units(w, S))
    PROVE  /\ IsFiniteSet(Units(w, S \cup {x}))
           /\ Cardinality(Units(w, S \cup {x})) = w[x] + Cardinality(Units(w, S))
<1> DEFINE new == {x} \X (1..w[x])
<1>1. Units(w, S \cup {x}) = Units(w, S) \cup new
    BY DEF Units
<1>2. Units(w, S) \cap new = {}
    BY DEF Units
<1>3. IsFiniteSet({x}) /\ Cardinality({x}) = 1
    BY FS_Singleton
<1>4. IsFiniteSet(1..w[x]) /\ Cardinality(1..w[x]) = w[x]
    <2>1. 1 \in Int /\ w[x] \in Int
        OBVIOUS
    <2>2. IsFiniteSet(1..w[x]) /\ Cardinality(1..w[x]) = IF 1 > w[x] THEN 0 ELSE w[x] - 1 + 1
        BY <2>1, FS_Interval
    <2>3. QED
        BY <2>2
<1>5. IsFiniteSet(new) /\ Cardinality(new) = w[x]
    <2>1. IsFiniteSet(new) /\ Cardinality(new) = Cardinality({x}) * Cardinality(1..w[x])
        BY <1>3, <1>4, FS_Product
    <2>2. QED
        BY <1>3, <1>4, <2>1
<1> HIDE DEF new
<1>6. /\ IsFiniteSet(Units(w, S) \cup new)
      /\ Cardinality(Units(w, S) \cup new) =
             Cardinality(Units(w, S)) + Cardinality(new) - Cardinality(Units(w, S) \cap new)
    BY <1>5, FS_Union
<1>7. Cardinality(Units(w, S) \cap new) = 0
    BY <1>2, FS_EmptySet
<1>8. Cardinality(Units(w, S)) \in Nat
    BY FS_CardinalityType
<1>9. Cardinality(Units(w, S) \cup new) = w[x] + Cardinality(Units(w, S))
    BY <1>5, <1>6, <1>7, <1>8
<1>10. QED
    BY <1>1, <1>6, <1>9

\* There are finitely many units.
LEMMA UnitsFinite ==
    ASSUME NEW S, IsFiniteSet(S), NEW w, \A x \in S : w[x] \in Nat
    PROVE  \A T \in SUBSET S : IsFiniteSet(Units(w, T))
<1> DEFINE Bad == {T \in SUBSET S : ~IsFiniteSet(Units(w, T))}
<1>1. SUFFICES ASSUME Bad # {} PROVE FALSE
    OBVIOUS
<1>2. Bad \in SUBSET SUBSET S
    OBVIOUS
<1>3. PICK T \in Bad : \A U \in Bad : U \subseteq T => U = T
    <2> HIDE DEF Bad
    <2>1. QED
        BY <1>1, <1>2, SmallestSubset
<1>4. CASE T = {}
    <2>1. Units(w, T) = {}
        BY <1>4 DEF Units
    <2>2. QED
        BY <2>1, <1>3, FS_EmptySet
<1>5. CASE T # {}
    <2>1. PICK x \in T : TRUE
        BY <1>5
    <2>2. IsFiniteSet(Units(w, T \ {x}))
        BY <1>3, <2>1
    <2>3. T = (T \ {x}) \cup {x} /\ x \notin T \ {x} /\ w[x] \in Nat
        BY <1>3, <2>1
    <2>4. IsFiniteSet(Units(w, (T \ {x}) \cup {x}))
        BY <2>2, <2>3, UnitsOfOneMore
    <2>5. QED
        BY <1>3, <2>3, <2>4
<1>6. QED
    BY <1>4, <1>5

\* How many units every part of S stands for.
Counts(w, S) == [s \in SUBSET S |-> Cardinality(Units(w, s))]

\* The number of units satisfies the equation the sum is defined by ...
LEMMA UnitsSatisfy ==
    ASSUME NEW S, IsFiniteSet(S), NEW w, \A x \in S : w[x] \in Nat,
           NEW T \in SUBSET S
    PROVE  Cardinality(Units(w, T)) = OneMore(w, Counts(w, S), T)
<1>1. CASE T = {}
    <2>1. Units(w, T) = {}
        BY <1>1 DEF Units
    <2>2. QED
        BY <2>1, <1>1, FS_EmptySet DEF OneMore
<1>2. CASE T # {}
    <2> DEFINE x == Picked(T)
    <2>1. x \in T
        BY <1>2 DEF Picked
    <2> HIDE DEF x
    <2>2. T = (T \ {x}) \cup {x} /\ x \notin T \ {x} /\ w[x] \in Nat /\ T \ {x} \in SUBSET S
        BY <2>1
    <2>3. IsFiniteSet(Units(w, T \ {x}))
        BY <2>2, UnitsFinite
    <2>4. Cardinality(Units(w, (T \ {x}) \cup {x})) = w[x] + Cardinality(Units(w, T \ {x}))
        BY <2>2, <2>3, UnitsOfOneMore
    <2>5. Counts(w, S)[T \ {x}] = Cardinality(Units(w, T \ {x}))
        BY <2>2 DEF Counts
    <2>6. OneMore(w, Counts(w, S), T) = w[x] + Counts(w, S)[T \ {x}]
        BY <1>2 DEF OneMore, x
    <2>7. QED
        BY <2>2, <2>4, <2>5, <2>6
<1>3. QED
    BY <1>1, <1>2

\* ... and nothing else does.
LEMMA SumIsUnits ==
    ASSUME NEW S, IsFiniteSet(S), NEW w, \A x \in S : w[x] \in Nat
    PROVE  /\ IsFiniteSet(Units(w, S))
           /\ SumFunctionOnSet(w, S) = Cardinality(Units(w, S))
<1> DEFINE count == Counts(w, S)
           fold == Folded(w, S)
<1>1. count = [s \in SUBSET S |-> OneMore(w, count, s)]
    BY UnitsSatisfy DEF Counts
<1> HIDE DEF count
<1>2. fold = [s \in SUBSET S |-> OneMore(w, fold, s)]
    BY <1>1 DEF Folded
<1> HIDE DEF fold
<1> DEFINE Bad == {T \in SUBSET S : fold[T] # count[T]}
<1>3. ASSUME Bad # {} PROVE FALSE
    <2>1. PICK T \in Bad : \A U \in Bad : U \subseteq T => U = T
        <3>1. Bad \in SUBSET SUBSET S
            OBVIOUS
        <3> HIDE DEF Bad
        <3>2. QED
            BY <1>3, <3>1, SmallestSubset
    <2>2. fold[T] = OneMore(w, fold, T) /\ count[T] = OneMore(w, count, T)
        BY <1>1, <1>2, <2>1
    <2>3. CASE T = {}
        BY <2>1, <2>2, <2>3 DEF OneMore
    <2>4. CASE T # {}
        <3> DEFINE x == Picked(T)
        <3>1. x \in T
            BY <2>4 DEF Picked
        <3>2. fold[T \ {x}] = count[T \ {x}]
            BY <2>1, <3>1
        <3>3. QED
            BY <2>1, <2>2, <2>4, <3>2 DEF OneMore
    <2>5. QED
        BY <2>3, <2>4
<1>4. fold[S] = count[S]
    BY <1>3
<1>5. count[S] = Cardinality(Units(w, S))
    BY DEF count, Counts
<1>6. IsFiniteSet(Units(w, S))
    BY UnitsFinite
<1>7. QED
    BY <1>4, <1>5, <1>6, SumFolds DEF fold

-----------------------------------------------------------------------------
\* A sum of naturals is a natural.
LEMMA SumNat ==
    ASSUME NEW S, IsFiniteSet(S), NEW w, \A x \in S : w[x] \in Nat
    PROVE  SumFunctionOnSet(w, S) \in Nat
<1>1. IsFiniteSet(Units(w, S)) /\ SumFunctionOnSet(w, S) = Cardinality(Units(w, S))
    BY SumIsUnits
<1>2. QED
    BY <1>1, FS_CardinalityType

\* The sum over nothing is zero.
LEMMA SumEmpty ==
    ASSUME NEW w
    PROVE  SumFunctionOnSet(w, {}) = 0
<1>1. IsFiniteSet({}) /\ Units(w, {}) = {}
    BY FS_EmptySet DEF Units
<1>2. SumFunctionOnSet(w, {}) = Cardinality(Units(w, {}))
    BY <1>1, SumIsUnits
<1>3. QED
    BY <1>1, <1>2, FS_EmptySet

\* Functions that agree on a set have the same sum over it.
LEMMA SumAgree ==
    ASSUME NEW S, IsFiniteSet(S), NEW w, \A x \in S : w[x] \in Nat,
           NEW v, \A x \in S : v[x] = w[x]
    PROVE  SumFunctionOnSet(v, S) = SumFunctionOnSet(w, S)
<1>1. Units(v, S) = Units(w, S)
    BY DEF Units
<1>2. \A x \in S : v[x] \in Nat
    OBVIOUS
<1>3. SumFunctionOnSet(v, S) = Cardinality(Units(v, S))
    BY <1>2, SumIsUnits
<1>4. SumFunctionOnSet(w, S) = Cardinality(Units(w, S))
    BY SumIsUnits
<1>5. QED
    BY <1>1, <1>3, <1>4

\* One element more.
LEMMA SumOneMore ==
    ASSUME NEW S, IsFiniteSet(S), NEW w, \A x \in S : w[x] \in Nat,
           NEW x, x \notin S, w[x] \in Nat
    PROVE  SumFunctionOnSet(w, S \cup {x}) = w[x] + SumFunctionOnSet(w, S)
<1>1. IsFiniteSet(S \cup {x}) /\ \A y \in S \cup {x} : w[y] \in Nat
    BY FS_AddElement
<1>2. SumFunctionOnSet(w, S \cup {x}) = Cardinality(Units(w, S \cup {x}))
    BY <1>1, SumIsUnits
<1>3. IsFiniteSet(Units(w, S)) /\ SumFunctionOnSet(w, S) = Cardinality(Units(w, S))
    BY SumIsUnits
<1>4. Cardinality(Units(w, S \cup {x})) = w[x] + Cardinality(Units(w, S))
    BY <1>3, UnitsOfOneMore
<1>5. QED
    BY <1>2, <1>3, <1>4

\* A part sums to no more than the whole.
LEMMA SumOfPart ==
    ASSUME NEW S, IsFiniteSet(S), NEW w, \A x \in S : w[x] \in Nat,
           NEW T \in SUBSET S
    PROVE  SumFunctionOnSet(w, T) <= SumFunctionOnSet(w, S)
<1>1. IsFiniteSet(T) /\ \A x \in T : w[x] \in Nat
    BY FS_Subset
<1>2. SumFunctionOnSet(w, T) = Cardinality(Units(w, T))
    BY <1>1, SumIsUnits
<1>3. IsFiniteSet(Units(w, S)) /\ SumFunctionOnSet(w, S) = Cardinality(Units(w, S))
    BY SumIsUnits
<1>4. Units(w, T) \in SUBSET Units(w, S)
    BY DEF Units
<1>5. Cardinality(Units(w, T)) <= Cardinality(Units(w, S))
    BY <1>3, <1>4, FS_Subset
<1>6. QED
    BY <1>2, <1>3, <1>5

=============================================================================
