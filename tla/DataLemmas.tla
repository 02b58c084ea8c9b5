----------------------------- MODULE DataLemmas -----------------------------
(***************************************************************************)
(* Facts about numbers and finite sets that the proofs of several          *)
(* components use.                                                         *)
(***************************************************************************)
EXTENDS Integers, FiniteSetsExt, FiniteSetTheorems, SequenceTheorems, TLAPS

\* A set of naturals that is not empty has a least number.
LEMMA NatMin ==
  ASSUME NEW S, S \subseteq Nat, S # {}
  PROVE  Min(S) \in S /\ \A x \in S : Min(S) <= x
<1> DEFINE Less == OpToRel(<, Nat)
<1>1. PICK m \in S : \A x \in S : ~ (<<x, m>> \in Less)
  BY WFMin, NatLessThanWellFounded
<1>2. ASSUME NEW x \in S PROVE m <= x
  <2>1. x \in Nat /\ m \in Nat
    OBVIOUS
  <2>2. x < m => <<x, m>> \in Less
    BY <2>1 DEF OpToRel
  <2> HIDE DEF Less
  <2> QED
    BY <1>1, <2>1, <2>2
<1> QED
  BY <1>1, <1>2 DEF Min

\* A finite set of naturals that is not empty has a greatest number: one that
\* had none would leave a smaller set that has none.
LEMMA NatMax ==
  ASSUME NEW S, S \subseteq Nat, S # {}, IsFiniteSet(S)
  PROVE  Max(S) \in S /\ \A x \in S : Max(S) >= x
<1> DEFINE HasMax(X) == \E m \in X : \A x \in X : m >= x
           Bad == {X \in SUBSET S : X # {} /\ ~HasMax(X)}
<1>1. Bad = {}
  <2>1. SUFFICES ASSUME Bad # {} PROVE FALSE
    OBVIOUS
  <2>2. Bad \subseteq FiniteSubsetsOf(S)
    BY FS_FiniteSubsetsOfFinite
  <2>3. PICK X \in Bad :
          \A Y \in Bad : ~ (<<Y, X>> \in StrictSubsetOrdering(S))
    <3> HIDE DEF Bad
    <3> QED
      BY <2>1, <2>2, WFMin, FS_StrictSubsetOrderingWellFounded
  <2>4. PICK a \in X : TRUE
    OBVIOUS
  <2>5. X \ {a} \notin Bad
    <3>1. <<X \ {a}, X>> \in StrictSubsetOrdering(S)
      BY <2>3, <2>4 DEF StrictSubsetOrdering
    <3> HIDE DEF Bad
    <3> QED
      BY <2>3, <3>1
  <2>6. CASE X \ {a} = {}
    <3>1. X = {a} /\ a \in Nat /\ a >= a
      BY <2>4, <2>6
    <3> QED
      BY <3>1, <2>3
  <2>7. CASE X \ {a} # {}
    <3>1. PICK m \in X \ {a} : \A x \in X \ {a} : m >= x
      BY <2>5, <2>7
    <3>2. X \subseteq Nat
      OBVIOUS
    <3>3. CASE m >= a
      BY <3>1, <3>3
    <3>4. CASE ~(m >= a)
      <4>1. \A x \in X : a >= x
        BY <3>1, <3>2, <3>4, <2>4
      <4> QED
        BY <4>1, <2>4
    <3> QED
      BY <3>3, <3>4
  <2> QED
    BY <2>6, <2>7
<1>2. PICK m \in S : \A x \in S : m >= x
  <2>1. S \notin Bad
    BY <1>1
  <2> QED
    BY <2>1
<1> QED
  BY <1>2 DEF Max
=============================================================================
