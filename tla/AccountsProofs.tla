--------------------------- MODULE AccountsProofs ---------------------------
(***************************************************************************)
(* Facts about owner sets, positions and ascending lists, for every set of *)
(* addresses: what the proofs about Multisig and Storage share.            *)
(***************************************************************************)
EXTENDS Accounts, FiniteSetTheorems, WellFoundedInduction, TLAPS

\* Positions and owner counts are natural numbers, the address space being
\* finite.
LEMMA CountTypes ==
    ASSUME NEW owners \in SUBSET Address, NEW a
    PROVE  /\ IsFiniteSet(owners)
           /\ Cardinality(owners) \in Nat
           /\ Position(owners, a) \in Nat
<1>1. /\ IsFiniteSet(owners)
      /\ IsFiniteSet({x \in owners : x < a})
  BY FS_Subset, AddressAssumption
<1> QED BY <1>1, FS_CardinalityType DEF Position

\* A set of naturals that is not empty has a least element.
LEMMA LeastNatural ==
    ASSUME NEW T \in SUBSET Nat, T # {}
    PROVE  \E x \in T : \A y \in T : x <= y
<1> DEFINE R == OpToRel(<, Nat)
<1>1. \E x \in T : \A y \in T : ~(<<y, x>> \in R)
  <2>1. IsWellFoundedOn(R, Nat)
    BY NatLessThanWellFounded
  <2> HIDE DEF R
  <2> QED BY <2>1, WFMin
<1>2. \A x, y \in Nat : y < x => <<y, x>> \in R
  BY DEF OpToRel
<1> HIDE DEF R
<1>3. PICK x \in T : \A y \in T : ~(<<y, x>> \in R)
  BY <1>1
<1>4. \A y \in T : ~(y < x)
  BY <1>2, <1>3, Zenon
<1> QED BY <1>3, <1>4

\* The neighbour by neighbour test of init_multisig makes the whole list
\* ascending.
LEMMA Ascending ==
    ASSUME NEW s \in Seq(Address), \A i \in 2..Len(s) : s[i - 1] < s[i]
    PROVE  \A i, j \in 1..Len(s) : i < j => s[i] < s[j]
<1>0. /\ \A i \in 1..Len(s) : s[i] \in Nat
      /\ Len(s) \in Nat
  <2>1. (\A i \in 1..Len(s) : s[i] \in Address) /\ Len(s) \in Nat
    OBVIOUS
  <2>2. Address \subseteq Nat
    BY AddressAssumption
  <2> QED BY <2>1, <2>2
<1> DEFINE T == {j \in 1..Len(s) : \E i \in 1..Len(s) : i < j /\ ~(s[i] < s[j])}
<1>1. T = {}
  <2> SUFFICES ASSUME T # {} PROVE FALSE
    OBVIOUS
  <2>1. T \in SUBSET Nat
    OBVIOUS
  <2>2. PICK j \in T : \A y \in T : j <= y
    BY <2>1, LeastNatural
  <2>3. PICK i \in 1..Len(s) : i < j /\ ~(s[i] < s[j])
    BY <2>2
  <2>4. j \in 2..Len(s) /\ j - 1 \in 1..Len(s) /\ s[j - 1] < s[j]
    BY <1>0, <2>3
  <2>5. i # j - 1
    BY <2>3, <2>4
  <2>6. s[i] \in Nat /\ s[j] \in Nat /\ s[j - 1] \in Nat
    BY <1>0, <2>3, <2>4
  <2>7. ~(s[i] < s[j - 1])
    BY <2>3, <2>4, <2>6
  <2>8. i < j - 1
    BY <1>0, <2>3, <2>5
  <2>9. j - 1 \in T
    BY <2>3, <2>4, <2>7, <2>8
  <2>10. j <= j - 1
    BY <2>2, <2>9
  <2> QED BY <1>0, <2>4, <2>10
<1> QED BY <1>1

\* So the list names as many owners as it has entries.
LEMMA AscendingCount ==
    ASSUME NEW s \in Seq(Address), \A i \in 2..Len(s) : s[i - 1] < s[i]
    PROVE  /\ Range(s) \in SUBSET Address
           /\ Cardinality(Range(s)) = Len(s)
<1>0. /\ \A i \in 1..Len(s) : s[i] \in Address
      /\ Len(s) \in Nat
      /\ DOMAIN s = 1..Len(s)
  OBVIOUS
<1>1. \A i, j \in 1..Len(s) : s[i] = s[j] => i = j
  <2> SUFFICES ASSUME NEW i \in 1..Len(s), NEW j \in 1..Len(s), i < j
               PROVE  s[i] # s[j]
    BY <1>0
  <2>1. s[i] < s[j]
    BY Ascending
  <2>2. s[i] \in Nat /\ s[j] \in Nat
    BY <1>0, AddressAssumption
  <2> QED BY <2>1, <2>2
<1>2. s \in Surjection(1..Len(s), Range(s))
  BY <1>0 DEF Surjection, Range
<1>3. s \in Injection(1..Len(s), Range(s))
  BY <1>1, <1>2 DEF Surjection, Injection, IsInjective
<1>4. IsFiniteSet(1..Len(s)) /\ Cardinality(1..Len(s)) = Len(s)
  <2> DEFINE n == Len(s)
  <2>1. n \in Nat
    BY <1>0
  <2> HIDE DEF n
  <2>2. /\ IsFiniteSet(1..n)
        /\ Cardinality(1..n) = IF 1 > n THEN 0 ELSE n - 1 + 1
    BY <2>1, FS_Interval
  <2>3. IsFiniteSet(1..n) /\ Cardinality(1..n) = n
    BY <2>1, <2>2
  <2> QED BY <2>3 DEF n
<1>5. Cardinality(Range(s)) = Cardinality(1..Len(s))
  BY <1>2, <1>3, <1>4, FS_Surjection
<1> QED BY <1>0, <1>4, <1>5 DEF Range

(***************************************************************************)
(* An owner's position names that owner.                                   *)
(***************************************************************************)
LEMMA PositionOrder ==
    ASSUME NEW owners \in SUBSET Address, NEW a \in owners, NEW b \in owners, a < b
    PROVE  Position(owners, a) < Position(owners, b)
<1> DEFINE A == {x \in owners : x < a}
           B == {x \in owners : x < b}
<1>1. owners \subseteq Nat
  BY AddressAssumption
<1>2. A \in SUBSET B /\ a \in B /\ a \notin A
  <2>1. \A x \in owners : x < a => x < b
    BY <1>1
  <2>2. ~(a < a)
    BY <1>1
  <2> QED BY <2>1, <2>2, Zenon
<1>3. IsFiniteSet(B)
  BY CountTypes, FS_Subset
<1> HIDE DEF A, B
<1>4. Cardinality(A) <= Cardinality(B) /\ Cardinality(B) # Cardinality(A)
  BY <1>2, <1>3, FS_Subset
<1>5. Cardinality(A) \in Nat /\ Cardinality(B) \in Nat
  BY <1>2, <1>3, FS_Subset, FS_CardinalityType
<1> QED BY <1>4, <1>5 DEF Position, A, B

\* So no two owners share one.
LEMMA PositionInjective ==
    ASSUME NEW owners \in SUBSET Address, NEW a \in owners, NEW b \in owners,
           Position(owners, a) = Position(owners, b)
    PROVE  a = b
<1>1. a \in Nat /\ b \in Nat
  BY AddressAssumption
<1>2. Position(owners, a) \in Nat /\ Position(owners, b) \in Nat
  BY CountTypes
<1> QED BY <1>1, <1>2, PositionOrder

\* What an accepted config action leaves: a header that passed its check,
\* with every proposal so far made stale.
LEMMA SettledEffect ==
    ASSUME NEW c, Settled(c) # Err
    PROVE  /\ Settled(c) = Invalidate(c)
           /\ MultisigInvariant(Invalidate(c))
BY DEF Settled
=============================================================================
