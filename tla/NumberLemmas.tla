---------------------------- MODULE NumberLemmas ----------------------------
(***************************************************************************)
(* Facts about numbers and finite sets that the proofs of several          *)
(* components need.                                                        *)
(***************************************************************************)
EXTENDS Integers, FiniteSets, FiniteSetTheorems, WellFoundedInduction, TLAPS

(* Least elements.  Finite sets of numbers are ordered well by inclusion,  *)
(* and so are numbers.                                                     *)

LEMMA LeastNumber ==
    ASSUME NEW T \in SUBSET Nat, T # {}
    PROVE  \E x \in T : \A y \in T : x <= y
<1> DEFINE Below(k) == 0..(k - 1)
           B == {Below(k) : k \in T}
           R == StrictSubsetOrdering(Nat)
<1>1. ASSUME NEW k \in T PROVE Below(k) \in FiniteSubsetsOf(Nat)
    <2>1. IsFiniteSet(Below(k))
        BY FS_Interval
    <2> QED BY <2>1 DEF FiniteSubsetsOf
<1>2. B \subseteq FiniteSubsetsOf(Nat) /\ B # {}
    BY <1>1
<1>3. PICK b \in B : \A c \in B : ~(<<c, b>> \in R)
    <2> HIDE DEF B, R
    <2>1. IsWellFoundedOn(R, FiniteSubsetsOf(Nat))
        BY FS_StrictSubsetOrderingWellFounded DEF R
    <2> QED BY <1>2, <2>1, WFMin
<1>4. PICK x \in T : b = Below(x)
    BY <1>3
<1>5. ASSUME NEW y \in T, y < x PROVE FALSE
    <2>1. <<Below(y), b>> \in R
        BY <1>4, <1>5 DEF StrictSubsetOrdering
    <2> QED BY <1>3, <2>1
<1> QED BY <1>5

(* The sizes of sets that have nothing in common add up.                   *)
LEMMA DisjointAdd ==
    ASSUME NEW S, NEW T, IsFiniteSet(S), IsFiniteSet(T), S \cap T = {}
    PROVE  Cardinality(S \cup T) = Cardinality(S) + Cardinality(T)
<1>1. Cardinality(S \cap T) = 0
    BY FS_EmptySet
<1>2. Cardinality(S) \in Nat /\ Cardinality(T) \in Nat
    BY FS_CardinalityType
<1>3. Cardinality(S \cup T) = Cardinality(S) + Cardinality(T) - Cardinality(S \cap T)
    BY FS_Union
<1> QED BY <1>1, <1>2, <1>3
=============================================================================
