------------------------------ MODULE MinLemmas ------------------------------
(***************************************************************************)
(* The minimum that the scans of the code stop at exists, and a maximum.    *)
(***************************************************************************)
EXTENDS Integers, FiniteSetsExt, WellFoundedInduction, TLAPS

\* A nonempty set of naturals has a least element, and Min is it: the first
\* slot, the first descriptor, the first key a loop of the code stops at.
LEMMA MinOfNaturals ==
    ASSUME NEW S \in SUBSET Nat, S # {}
    PROVE  Min(S) \in S /\ \A n \in S : Min(S) <= n
<1>1. \E m \in S : \A n \in S : ~ (<<n, m>> \in OpToRel(<, Nat))
    BY NatLessThanWellFounded, WFMin
<1>2. OpToRel(<, Nat) = {ss \in Nat \X Nat : ss[1] < ss[2]}
    BY DEF OpToRel
<1>3. ASSUME NEW m \in S, NEW n \in S, ~ (<<n, m>> \in OpToRel(<, Nat))
      PROVE  m <= n
  <2>1. ~ (n < m)
    BY <1>2, <1>3
  <2> QED
    BY <2>1
<1>4. PICK m \in S : \A n \in S : m <= n
    BY <1>1, <1>3
<1> QED
    BY <1>4 DEF Min

\* The same for a nonempty set of integers with a lower bound.
LEMMA MinOfBounded ==
    ASSUME NEW low \in Int, NEW S \in SUBSET Int, S # {},
           \A n \in S : low <= n
    PROVE  Min(S) \in S /\ \A n \in S : Min(S) <= n
<1> DEFINE T == {n - low : n \in S}
<1>1. T \in SUBSET Nat /\ T # {}
  <2>1. T \subseteq Nat
    <3> SUFFICES ASSUME NEW n \in S PROVE n - low \in Nat
        OBVIOUS
    <3> QED
        OBVIOUS
  <2> QED
    BY <2>1
<1>2. Min(T) \in T /\ \A n \in T : Min(T) <= n
    BY <1>1, MinOfNaturals
<1>3. PICK m \in S : Min(T) = m - low
    BY <1>2
<1>4. \A n \in S : m <= n
  <2> TAKE n \in S
  <2>1. Min(T) <= n - low
    BY <1>2
  <2>2. m - low <= n - low
    BY <2>1, <1>3
  <2> QED
    BY <2>2
<1> QED
    BY <1>4 DEF Min

\* The largest element of a nonempty set of numbers up to a bound is in it.
LEMMA MaxInSet ==
    ASSUME NEW n \in Nat, NEW S \in SUBSET (1 .. n), S # {}
    PROVE  Max(S) \in S
<1> DEFINE T == {n - i : i \in S}
<1>1. T \in SUBSET Nat /\ T # {}
  <2>1. T \subseteq Nat
    <3> SUFFICES ASSUME NEW i \in S PROVE n - i \in Nat
        OBVIOUS
    <3> QED
        OBVIOUS
  <2> QED
    BY <2>1
<1>2. Min(T) \in T /\ \A i \in T : Min(T) <= i
    BY <1>1, MinOfNaturals
<1>3. PICK m \in S : Min(T) = n - m
    BY <1>2
<1>4. \A i \in S : m >= i
  <2> TAKE i \in S
  <2>1. n - m <= n - i
    BY <1>2, <1>3
  <2> QED
    BY <2>1
<1> QED
    BY <1>4 DEF Max
=============================================================================
