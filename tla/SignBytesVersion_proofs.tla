------------------------ MODULE SignBytesVersion_proofs ------------------------
(***************************************************************************)
(* What the version rules decide, for any number of answers and any         *)
(* heights: a greatest height exists, and it is above 0 exactly if some     *)
(* answer about a switching plan is.                                        *)
(***************************************************************************)
EXTENDS SignBytesVersion, FiniteSetTheorems, SequenceTheorems, TLAPS

\* A set of numbers with an element that no other exceeds.
HasMax(S) == \E x \in S : \A y \in S : x >= y

\* The smallest of a set of numbers: a fact about Nat as a well-founded order.
LEMMA Smallest ==
  ASSUME NEW T \in SUBSET Nat, T # {}
  PROVE  \E x \in T : \A y \in T : x <= y
<1>1. PICK x \in T : \A y \in T : <<y, x>> \notin OpToRel(<, Nat)
  BY NatLessThanWellFounded, WFMin
<1>2. \A y \in T : ~(y < x)
  BY <1>1 DEF OpToRel
<1>3. QED
  BY <1>2

\* A smallest counterexample, without one of its elements, would have a maximum.
LEMMA FiniteHasMax ==
  ASSUME NEW S, IsFiniteSet(S), S \subseteq Int, S # {}
  PROVE  HasMax(S)
<1> DEFINE Bad == {U \in SUBSET S : U # {} /\ ~HasMax(U)}
           T   == {Cardinality(U) : U \in Bad}
<1>1. SUFFICES ASSUME Bad # {} PROVE FALSE
  OBVIOUS
<1>2. \A U \in Bad : IsFiniteSet(U) /\ Cardinality(U) \in Nat
  BY FS_Subset, FS_CardinalityType
<1>3. PICK U \in Bad : \A V \in Bad : Cardinality(U) <= Cardinality(V)
  <2>1. T \subseteq Nat /\ T # {}
    BY <1>1, <1>2
  <2>2. PICK n \in T : \A m \in T : n <= m
    <3> HIDE DEF T
    <3>1. QED
      BY <2>1, Smallest
  <2>3. QED
    BY <2>2
<1>4. PICK a \in U : TRUE
  OBVIOUS
<1> DEFINE V == U \ {a}
<1>5. Cardinality(V) < Cardinality(U)
  BY <1>2, <1>4, FS_RemoveElement
<1>6. V \notin Bad
  <2>1. Cardinality(U) \in Nat
    BY <1>2
  <2>2. IsFiniteSet(V)
    BY <1>2, FS_RemoveElement
  <2>3. Cardinality(V) \in Nat
    BY <2>2, FS_CardinalityType
  <2>4. ~(Cardinality(U) <= Cardinality(V))
    <3> HIDE DEF V
    <3>1. QED
      BY <1>5, <2>1, <2>3
  <2>5. QED
    BY <1>3, <2>4
<1>7. CASE V = {}
  <2>1. HasMax(U)
    BY <1>4, <1>7 DEF HasMax
  <2>2. QED
    BY <2>1
<1>8. CASE HasMax(V)
  <2>1. PICK b \in V : \A y \in V : b >= y
    BY <1>8 DEF HasMax
  <2>2. a \in Int /\ b \in Int /\ U \subseteq Int
    BY <1>4, <2>1
  <2>3. HasMax(U)
    <3>1. CASE a >= b
      BY <1>4, <2>1, <2>2, <3>1 DEF HasMax
    <3>2. CASE b >= a
      BY <1>4, <2>1, <2>2, <3>2 DEF HasMax
    <3>3. QED
      BY <2>2, <3>1, <3>2
  <2>4. QED
    BY <2>3
<1>9. QED
  BY <1>6, <1>7, <1>8

LEMMA MaxProperty ==
  ASSUME NEW S, IsFiniteSet(S), S \subseteq Int, S # {}
  PROVE  Max(S) \in S /\ \A y \in S : Max(S) >= y
  BY FiniteHasMax DEF HasMax, Max

\* The greatest of 0 and some heights is above 0 iff one of them is.
LEMMA MaxPositive ==
  ASSUME NEW S, IsFiniteSet(S), S \subseteq Int
  PROVE  /\ Max({0} \cup S) \in Int
         /\ Max({0} \cup S) > 0 <=> \E x \in S : x > 0
<1> DEFINE T == {0} \cup S
<1>1. IsFiniteSet(T) /\ T \subseteq Int /\ T # {}
  <2>1. IsFiniteSet({0})
    BY FS_Singleton
  <2>2. IsFiniteSet(T)
    BY <2>1, FS_Union
  <2>3. QED
    BY <2>2
<1>2. Max(T) \in T /\ \A y \in T : Max(T) >= y
  <2> HIDE DEF T
  <2>1. QED
    BY <1>1, MaxProperty
<1>3. Max(T) \in Int
  BY <1>1, <1>2
<1>4. \A y \in T : y \in Int
  BY <1>1
<1>5. ASSUME Max(T) > 0 PROVE \E x \in S : x > 0
  <2>1. Max(T) # 0
    BY <1>5
  <2>2. Max(T) \in S
    BY <1>2, <2>1
  <2>3. QED
    BY <1>5, <2>2
<1>6. ASSUME NEW x \in S, x > 0 PROVE Max(T) > 0
  <2>1. Max(T) >= x /\ x \in Int
    BY <1>2, <1>4
  <2> HIDE DEF T
  <2>2. QED
    BY <1>3, <1>6, <2>1
<1>7. QED
  BY <1>3, <1>5, <1>6

------------------------------------------------------------------------------
\* A list of answers.
Log(log) == /\ \E n \in Nat : DOMAIN log = 1 .. n
            /\ \A i \in DOMAIN log : log[i].height \in Int

LEMMA IndicesFinite ==
  ASSUME NEW log, Log(log), NEW I \in SUBSET DOMAIN log
  PROVE  IsFiniteSet(I) /\ I \subseteq Int
<1>1. PICK n \in Nat : DOMAIN log = 1 .. n
  BY DEF Log
<1>2. IsFiniteSet(1 .. n)
  BY FS_Interval
<1>3. QED
  BY <1>1, <1>2, FS_Subset

\* An answer by which a list applies a plan: in arrays any entry about it, in a map
\* the last one.
InArrays(log, n) == \E i \in DOMAIN log : log[i].name = n /\ log[i].height > 0
InMap(log, n)    == n \in DOMAIN MapOf(log) /\ MapOf(log)[n] > 0

\* C decides by its greatest entry about a switching plan.
LEMMA ArraysDecide ==
  ASSUME NEW log, Log(log), NEW chain, chain # NullChain
  PROVE  VersionForArrays(chain, log) =
           IF chain \in LegacyChains /\ \A n \in Upgrades : ~InArrays(log, n)
           THEN "v1" ELSE "v2"
<1> DEFINE I == {i \in DOMAIN log : log[i].name # NullName /\ log[i].name \in Upgrades}
           S == {log[i].height : i \in I}
           f == [i \in I |-> log[i].height]
<1>1. IsFiniteSet(I)
  BY IndicesFinite
<1>2. f \in Surjection(I, S)
  BY DEF Surjection
<1>3. IsFiniteSet(S) /\ S \subseteq Int
  <2>1. IsFiniteSet(S)
    <3> HIDE DEF I, S, f
    <3>1. QED
      BY <1>1, <1>2, FS_Surjection
  <2>2. QED
    BY <2>1 DEF Log
<1>4. /\ Max({0} \cup S) \in Int
      /\ Max({0} \cup S) > 0 <=> \E x \in S : x > 0
  <2> HIDE DEF S
  <2>1. QED
    BY <1>3, MaxPositive
<1>5. (\E x \in S : x > 0) <=> \E n \in Upgrades : InArrays(log, n)
  BY DEF InArrays, Upgrades, NullName
<1>6. QED
  BY <1>4, <1>5 DEF VersionForArrays, VersionFor

\* A map holds an answer of the list about each name in it, the last.
LEMMA MapHolds ==
  ASSUME NEW log, Log(log)
  PROVE  /\ DOMAIN MapOf(log) = {log[i].name : i \in DOMAIN log}
         /\ \A n \in DOMAIN MapOf(log) :
              \E i \in DOMAIN log : log[i].name = n /\ MapOf(log)[n] = log[i].height
<1>1. DOMAIN MapOf(log) = {log[i].name : i \in DOMAIN log}
  BY DEF MapOf
<1>2. ASSUME NEW n \in DOMAIN MapOf(log)
      PROVE  \E i \in DOMAIN log : log[i].name = n /\ MapOf(log)[n] = log[i].height
  <2> DEFINE I == {i \in DOMAIN log : log[i].name = n}
  <2>1. I # {}
    BY <1>1
  <2>2. IsFiniteSet(I) /\ I \subseteq Int
    BY IndicesFinite
  <2>3. Max(I) \in I
    <3> HIDE DEF I
    <3>1. QED
      BY <2>1, <2>2, MaxProperty
  <2>4. MapOf(log)[n] = log[Max(I)].height
    BY <1>1 DEF MapOf
  <2>5. QED
    BY <2>3, <2>4
<1>3. QED
  BY <1>1, <1>2

\* The other bindings decide by the greatest answer their map holds.
LEMMA MapDecides ==
  ASSUME NEW log, Log(log), NEW b, NEW chain, chain # NullChain
  PROVE  VersionForMap(b, chain, MapOf(log)) =
           IF chain \in LegacyChains /\ \A n \in Upgrades : ~InMap(log, n)
           THEN "v1" ELSE "v2"
<1> DEFINE h1 == HeightIn(MapOf(log), "v3.2.0")
           h2 == HeightIn(MapOf(log), "v3.1.98")
           S == {HeightIn(MapOf(log), n) : n \in Upgrades}
<1>1. \A n \in Upgrades : /\ HeightIn(MapOf(log), n) \in Int
                          /\ HeightIn(MapOf(log), n) > 0 <=> InMap(log, n)
  <2> TAKE n \in Upgrades
  <2>1. CASE n \in DOMAIN MapOf(log)
    <3>1. PICK i \in DOMAIN log : MapOf(log)[n] = log[i].height
      BY <2>1, MapHolds
    <3>2. MapOf(log)[n] \in Int
      BY <3>1 DEF Log
    <3>3. QED
      BY <2>1, <3>2 DEF HeightIn, InMap
  <2>2. CASE n \notin DOMAIN MapOf(log)
    BY <2>2 DEF HeightIn, InMap
  <2>3. QED
    BY <2>1, <2>2
<1>2. S = {h1, h2}
  BY DEF Upgrades
<1>3. IsFiniteSet(S) /\ S \subseteq Int
  <2>1. h1 \in Int /\ h2 \in Int
    BY <1>1 DEF Upgrades
  <2> HIDE DEF h1, h2, S
  <2>2. IsFiniteSet({h1}) /\ IsFiniteSet({h2})
    BY FS_Singleton
  <2>3. IsFiniteSet({h1} \cup {h2})
    BY <2>2, FS_Union
  <2>4. {h1} \cup {h2} = {h1, h2}
    OBVIOUS
  <2>5. QED
    BY <1>2, <2>1, <2>3, <2>4
<1>4. /\ Max({0} \cup S) \in Int
      /\ Max({0} \cup S) > 0 <=> \E x \in S : x > 0
  <2> HIDE DEF S
  <2>1. QED
    BY <1>3, MaxPositive
<1>5. (\E x \in S : x > 0) <=> \E n \in Upgrades : InMap(log, n)
  BY <1>1
<1>6. QED
  BY <1>4, <1>5 DEF VersionForMap, VersionFor

\* How a binding reads a list.
AppliedBy(b, log, n) == IF b = "c" THEN InArrays(log, n) ELSE InMap(log, n)

\* Whatever the answers, a binding decides for v1 exactly on a legacy network for
\* which it reads no switching plan as applied.
THEOREM BindingDecides ==
  ASSUME NEW log, Log(log), NEW b, NEW chain, chain # NullChain
  PROVE  VersionForApplied(b, chain, log) =
           IF chain \in LegacyChains /\ \A n \in Upgrades : ~AppliedBy(b, log, n)
           THEN "v1" ELSE "v2"
  BY ArraysDecide, MapDecides DEF VersionForApplied, AppliedBy
==============================================================================
