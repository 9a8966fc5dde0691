---------------------------- MODULE MessageProofs ----------------------------
(***************************************************************************)
(* Theorems about the compiled message, for every size of a cell, every    *)
(* message and every set of tables.                                        *)
(***************************************************************************)
EXTENDS CompiledMessage, SequenceTheorems, WellFoundedInduction, TLAPS

(***************************************************************************)
(* Recursion and sums.                                                     *)
(***************************************************************************)
\* A set of natural numbers that is not empty has a least element: what takes
\* the place of induction below.
LEMMA Least ==
    ASSUME NEW T \in SUBSET Nat, T # {}
    PROVE  \E x \in T : \A y \in T : x <= y
<1> DEFINE R == OpToRel(<, Nat)
<1>1. \E x \in T : \A y \in T : ~(<<y, x>> \in R)
  <2>1. IsWellFoundedOn(R, Nat)
    BY NatLessThanWellFounded
  <2> HIDE DEF R
  <2> QED BY <2>1, WFMin
<1>2. \A x, y \in Nat : y < x => <<y, x>> \in R
  BY DEF OpToRel
<1> HIDE DEF R
<1>3. PICK x \in T : \A y \in T : ~(<<y, x>> \in R)
  BY <1>1
<1>4. ASSUME NEW y \in T PROVE x <= y
  <2>1. ~(y < x)
    BY <1>2, <1>3
  <2> QED BY <2>1
<1> QED BY <1>4

\* A function that starts at base and makes each value from the one before.
Runs(f, n, base, step) == f[0] = base /\ \A i \in 1..n : f[i] = step[<<i, f[i - 1]>>]

\* There is one, for any start and any step.
LEMMA RunExists ==
    ASSUME NEW S, NEW base \in S, NEW n \in Nat, NEW step \in [(1..n) \X S -> S]
    PROVE  \E f \in [0..n -> S] : Runs(f, n, base, step)
<1> DEFINE Reached(m) == \E f \in [0..m -> S] : Runs(f, m, base, step)
           T == {m \in 0..n : ~Reached(m)}
<1> SUFFICES ASSUME T # {} PROVE FALSE
  OBVIOUS
<1>1. PICK m \in T : \A y \in T : m <= y
  <2>1. T \in SUBSET Nat
    OBVIOUS
  <2> HIDE DEF T
  <2> QED BY <2>1, Least
<1>2. m \in 0..n /\ ~Reached(m)
  BY <1>1
<1>3. m # 0
  <2>1. [i \in 0..0 |-> base] \in [0..0 -> S] /\ Runs([i \in 0..0 |-> base], 0, base, step)
    BY DEF Runs
  <2>2. Reached(0)
    BY <2>1
  <2> QED BY <1>2, <2>2
<1>4. m - 1 \in 0..n /\ ~(m <= m - 1) /\ m \in 1..n
  BY <1>2, <1>3
<1>5. Reached(m - 1)
  BY <1>1, <1>4
<1>6. PICK f \in [0..(m - 1) -> S] : Runs(f, m - 1, base, step)
  BY <1>5
<1> DEFINE last == step[<<m, f[m - 1]>>]
           g == [i \in 0..m |-> IF i = m THEN last ELSE f[i]]
<1>7. last \in S
  <2>1. m - 1 \in 0..(m - 1)
    BY <1>4
  <2>2. <<m, f[m - 1]>> \in (1..n) \X S
    BY <1>4, <2>1
  <2> QED BY <2>2
<1> HIDE DEF last
<1>8. g \in [0..m -> S]
  BY <1>4, <1>7
<1>9. Runs(g, m, base, step)
  <2>1. g[0] = base
    BY <1>4, <1>6 DEF Runs
  <2>2. ASSUME NEW i \in 1..m PROVE g[i] = step[<<i, g[i - 1]>>]
    <3>1. i - 1 \in 0..m /\ i - 1 # m /\ i \in 0..m
      BY <1>4
    <3>2. g[i - 1] = f[i - 1]
      BY <3>1
    <3>3. CASE i = m
      BY <3>1, <3>2, <3>3 DEF last
    <3>4. CASE i # m
      <4>1. i \in 1..(m - 1)
        BY <1>4, <3>4
      <4>2. f[i] = step[<<i, f[i - 1]>>]
        BY <1>6, <4>1 DEF Runs
      <4> QED BY <3>1, <3>2, <3>4, <4>2
    <3> QED BY <3>3, <3>4
  <2> HIDE DEF g
  <2> QED BY <2>1, <2>2 DEF Runs
<1>10. Reached(m)
  BY <1>8, <1>9
<1> QED BY <1>2, <1>10

\* The lengths of the first groups add up.
LEMMA TotalSteps ==
    ASSUME NEW S, NEW ss \in Seq(Seq(S))
    PROVE  /\ Total(ss) \in [0..Len(ss) -> Nat]
           /\ Total(ss)[0] = 0
           /\ \A i \in 1..Len(ss) : Total(ss)[i] = Total(ss)[i - 1] + Len(ss[i])
<1> DEFINE n == Len(ss)
           step == [p \in (1..n) \X Nat |-> p[2] + Len(ss[p[1]])]
<1>1. n \in Nat /\ \A i \in 1..n : Len(ss[i]) \in Nat
  <2>1. \A i \in 1..n : ss[i] \in Seq(S)
    BY ElementOfSeq
  <2> QED BY <2>1, LenProperties
<1> HIDE DEF n
<1>2. step \in [(1..n) \X Nat -> Nat]
  BY <1>1
<1>3. PICK f \in [0..n -> Nat] : Runs(f, n, 0, step)
  <2> HIDE DEF step
  <2> QED BY <1>1, <1>2, RunExists, 0 \in Nat
<1>4. f[0] = 0 /\ \A i \in 1..n : f[i] = f[i - 1] + Len(ss[i])
  <2>1. ASSUME NEW i \in 1..n PROVE f[i] = f[i - 1] + Len(ss[i])
    <3>1. i - 1 \in 0..n
      BY <1>1
    <3>2. <<i, f[i - 1]>> \in (1..n) \X Nat
      BY <3>1
    <3>3. step[<<i, f[i - 1]>>] = f[i - 1] + Len(ss[i])
      BY <3>2
    <3> QED BY <1>3, <3>3 DEF Runs
  <2> QED BY <1>3, <2>1 DEF Runs
<1> DEFINE Sums(g) == g = [i \in 0..n |-> IF i = 0 THEN 0 ELSE g[i - 1] + Len(ss[i])]
<1>5. Sums(f)
  <2>1. ASSUME NEW i \in 0..n PROVE f[i] = IF i = 0 THEN 0 ELSE f[i - 1] + Len(ss[i])
    <3>1. i # 0 => i \in 1..n
      BY <1>1
    <3> QED BY <1>4, <3>1
  <2> QED BY <2>1
<1>6. Sums(Total(ss))
  <2>1. Total(ss) = CHOOSE g : Sums(g)
    BY DEF Total, n
  <2> HIDE DEF Sums
  <2> QED BY <1>5, <2>1
<1> DEFINE t == Total(ss)
<1>7. DOMAIN t = 0..n /\ t[0] = 0 /\ \A i \in 1..n : t[i] = t[i - 1] + Len(ss[i])
  <2> HIDE DEF t
  <2>1. t = [i \in 0..n |-> IF i = 0 THEN 0 ELSE t[i - 1] + Len(ss[i])]
    BY <1>6 DEF t
  <2>2. 0 \in 0..n /\ \A i \in 1..n : i \in 0..n /\ i # 0
    BY <1>1
  <2> QED BY <2>1, <2>2
<1> HIDE DEF t
<1>8. \A i \in 0..n : t[i] \in Nat
  <2> DEFINE T == {i \in 0..n : t[i] \notin Nat}
  <2> SUFFICES ASSUME T # {} PROVE FALSE
    OBVIOUS
  <2>1. PICK i \in T : \A y \in T : i <= y
    <3>1. T \in SUBSET Nat
      OBVIOUS
    <3> HIDE DEF T
    <3> QED BY <3>1, Least
  <2>2. i # 0
    BY <1>7, <2>1
  <2>3. i \in 1..n /\ i - 1 \in 0..n /\ ~(i <= i - 1)
    BY <1>1, <2>1, <2>2
  <2>4. t[i - 1] \in Nat
    BY <2>1, <2>3
  <2>5. t[i] = t[i - 1] + Len(ss[i]) /\ Len(ss[i]) \in Nat
    BY <1>1, <1>7, <2>3
  <2>6. t[i] \notin Nat
    BY <2>1
  <2> QED BY <2>4, <2>5, <2>6
<1>9. t \in [0..n -> Nat]
  <2>1. t = [i \in 0..n |-> t[i]]
    <3>1. t = [i \in 0..n |-> IF i = 0 THEN 0 ELSE t[i - 1] + Len(ss[i])]
      BY <1>6 DEF t
    <3> QED BY <3>1
  <2> QED BY <1>8, <2>1
<1> QED BY <1>7, <1>9 DEF t, n

\* They grow, and every number up to the last lies in one group.
LEMMA TotalGrows ==
    ASSUME NEW S, NEW ss \in Seq(Seq(S)), NEW j \in 0..Len(ss), NEW i \in 0..j
    PROVE  Total(ss)[i] <= Total(ss)[j]
<1> DEFINE n == Len(ss)
           t == Total(ss)
           T == {x \in i..n : ~(t[i] <= t[x])}
<1>1. /\ t \in [0..n -> Nat] /\ n \in Nat
      /\ \A x \in 1..n : t[x] = t[x - 1] + Len(ss[x]) /\ Len(ss[x]) \in Nat
  <2>1. \A x \in 1..n : ss[x] \in Seq(S)
    BY ElementOfSeq
  <2> QED BY <2>1, TotalSteps, LenProperties
<1> HIDE DEF n, t
<1>2. CASE T # {}
  <2>1. PICK x \in T : \A y \in T : x <= y
    <3>1. T \in SUBSET Nat
      BY DEF n
    <3> HIDE DEF T
    <3> QED BY <1>2, <3>1, Least
  <2>2. x \in i..n /\ ~(t[i] <= t[x]) /\ i \in Nat /\ i \in 0..n
    BY <1>1, <2>1 DEF n
  <2>3. x # i
    BY <1>1, <2>2
  <2>4. x - 1 \in i..n /\ ~(x <= x - 1) /\ x \in 1..n /\ x - 1 \in 0..n
    BY <1>1, <2>2, <2>3
  <2>5. t[i] <= t[x - 1]
    BY <2>1, <2>4
  <2>6. t[x] = t[x - 1] + Len(ss[x]) /\ Len(ss[x]) \in Nat /\ t[x - 1] \in Nat /\ t[i] \in Nat
    BY <1>1, <2>2, <2>4
  <2> QED BY <2>2, <2>5, <2>6
<1>3. CASE T = {}
  <2>1. j \in i..n
    BY <1>1 DEF n
  <2> QED BY <1>3, <2>1 DEF t
<1> QED BY <1>2, <1>3

\* Every place of a concatenation is in one of its groups.
LEMMA TotalSplits ==
    ASSUME NEW S, NEW ss \in Seq(Seq(S)), NEW x \in 1..Total(ss)[Len(ss)]
    PROVE  \E i \in 1..Len(ss) : \E k \in 1..Len(ss[i]) : x = Total(ss)[i - 1] + k
<1> DEFINE n == Len(ss)
           t == Total(ss)
           T == {i \in 0..n : x <= t[i]}
<1>1. /\ t \in [0..n -> Nat] /\ n \in Nat /\ t[0] = 0
      /\ \A i \in 1..n : t[i] = t[i - 1] + Len(ss[i]) /\ Len(ss[i]) \in Nat
  <2>1. \A i \in 1..n : ss[i] \in Seq(S)
    BY ElementOfSeq
  <2> QED BY <2>1, TotalSteps, LenProperties
<1>2. x \in 1..t[n]
  OBVIOUS
<1> HIDE DEF n, t
<1>3. x \in Nat \ {0} /\ n \in T
  BY <1>1, <1>2
<1>4. PICK i \in T : \A y \in T : i <= y
  <2>1. T \in SUBSET Nat
    OBVIOUS
  <2> HIDE DEF T
  <2> QED BY <1>3, <2>1, Least
<1>5. i # 0
  BY <1>1, <1>3, <1>4
<1>6. i \in 1..n /\ i - 1 \in 0..n /\ ~(i <= i - 1)
  BY <1>1, <1>4, <1>5
<1>7. ~(x <= t[i - 1]) /\ x <= t[i]
  BY <1>4, <1>6
<1>8. x - t[i - 1] \in 1..Len(ss[i]) /\ x = t[i - 1] + (x - t[i - 1])
  <2> DEFINE a == t[i - 1]
             l == Len(ss[i])
  <2>1. a \in Nat /\ l \in Nat /\ t[i] = a + l
    BY <1>1, <1>6
  <2>2. ~(x <= a) /\ x <= a + l
    BY <1>7, <2>1
  <2> HIDE DEF a, l
  <2>3. x - a \in 1..l /\ x = a + (x - a)
    BY <1>3, <2>1, <2>2
  <2> QED BY <2>3 DEF a, l
<1> QED BY <1>6, <1>8 DEF n, t

\* They depend on the lengths alone.
LEMMA TotalOfLengths ==
    ASSUME NEW S, NEW ss \in Seq(Seq(S)), NEW R, NEW rr \in Seq(Seq(R)),
           Len(ss) = Len(rr), \A i \in 1..Len(ss) : Len(ss[i]) = Len(rr[i])
    PROVE  Total(ss) = Total(rr)
<1> DEFINE n == Len(ss)
           t == Total(ss)
           u == Total(rr)
           T == {i \in 0..n : t[i] # u[i]}
<1>1. /\ t \in [0..n -> Nat] /\ n \in Nat /\ t[0] = 0
      /\ \A i \in 1..n : t[i] = t[i - 1] + Len(ss[i])
  BY TotalSteps
<1>2. /\ u \in [0..n -> Nat] /\ u[0] = 0
      /\ \A i \in 1..n : u[i] = u[i - 1] + Len(rr[i])
  BY TotalSteps
<1> HIDE DEF n, t, u
<1>3. T = {}
  <2> SUFFICES ASSUME T # {} PROVE FALSE
    OBVIOUS
  <2>1. PICK i \in T : \A y \in T : i <= y
    <3>1. T \in SUBSET Nat
      OBVIOUS
    <3> HIDE DEF T
    <3> QED BY <3>1, Least
  <2>2. i # 0
    BY <1>1, <1>2, <2>1
  <2>3. i \in 1..n /\ i - 1 \in 0..n /\ ~(i <= i - 1)
    BY <1>1, <2>1, <2>2
  <2>4. t[i - 1] = u[i - 1]
    BY <2>1, <2>3
  <2>5. Len(ss[i]) = Len(rr[i])
    BY <2>3 DEF n
  <2> QED BY <1>1, <1>2, <2>1, <2>3, <2>4, <2>5
<1>4. \A i \in 0..n : t[i] = u[i]
  BY <1>3
<1>5. t = u
  <2> HIDE DEF T
  <2> QED BY <1>1, <1>2, <1>4
<1> QED BY <1>5 DEF t, u

(***************************************************************************)
(* Sequences written one after the other.                                  *)
(***************************************************************************)
\* f[i] is the first i sequences, one after the other.
Joins(ss, f) == f[0] = <<>> /\ \A i \in 1..Len(ss) : f[i] = f[i - 1] \o ss[i]

\* The concatenations of the first groups, one after the other, exist.
LEMMA JoinExists ==
    ASSUME NEW S, NEW ss \in Seq(Seq(S))
    PROVE  \E f \in [0..Len(ss) -> Seq(S)] : Joins(ss, f)
<1> DEFINE n == Len(ss)
           step == [p \in (1..n) \X Seq(S) |-> p[2] \o ss[p[1]]]
<1>1. n \in Nat /\ \A i \in 1..n : ss[i] \in Seq(S)
  BY ElementOfSeq, LenProperties
<1> HIDE DEF n
<1>2. step \in [(1..n) \X Seq(S) -> Seq(S)]
  <2>1. ASSUME NEW p \in (1..n) \X Seq(S) PROVE p[2] \o ss[p[1]] \in Seq(S)
    <3>1. p[1] \in 1..n /\ p[2] \in Seq(S)
      OBVIOUS
    <3>2. ss[p[1]] \in Seq(S)
      BY <1>1, <3>1
    <3> QED BY <3>1, <3>2, ConcatProperties
  <2> QED BY <2>1
<1>3. PICK f \in [0..n -> Seq(S)] : Runs(f, n, <<>>, step)
  <2>1. <<>> \in Seq(S)
    BY EmptySeq
  <2> HIDE DEF step
  <2> QED BY <1>1, <1>2, <2>1, RunExists
<1>4. Joins(ss, f)
  <2>1. ASSUME NEW i \in 1..n PROVE f[i] = f[i - 1] \o ss[i]
    <3>1. i - 1 \in 0..n
      BY <1>1
    <3>2. <<i, f[i - 1]>> \in (1..n) \X Seq(S)
      BY <3>1
    <3>3. step[<<i, f[i - 1]>>] = f[i - 1] \o ss[i]
      BY <3>2
    <3> QED BY <1>3, <3>3 DEF Runs
  <2> HIDE DEF step
  <2> QED BY <1>3, <2>1 DEF Runs, Joins, n
<1> QED BY <1>4 DEF n

\* FlattenSeq is the last of them.
LEMMA FlattenJoins ==
    ASSUME NEW S, NEW ss \in Seq(Seq(S)), NEW f \in [0..Len(ss) -> Seq(S)], Joins(ss, f)
    PROVE  FlattenSeq(ss) = f[Len(ss)]
<1> DEFINE n == Len(ss)
           Flattens(h) == h = [i \in 1..n |-> IF i = 1 THEN ss[i] ELSE h[i - 1] \o ss[i]]
<1>1. n \in Nat /\ \A i \in 1..n : ss[i] \in Seq(S)
  BY ElementOfSeq, LenProperties
<1>2. f[0] = <<>> /\ \A i \in 1..n : f[i] = f[i - 1] \o ss[i]
  BY DEF Joins
<1>3. CASE n = 0
  <2>1. ss = <<>>
    BY <1>3, EmptySeq
  <2>2. FlattenSeq(ss) = ss
    BY <1>3 DEF FlattenSeq
  <2> QED BY <1>2, <1>3, <2>1, <2>2
<1>4. CASE n # 0
  <2> DEFINE h == CHOOSE h : Flattens(h)
             g == [i \in 1..n |-> f[i]]
  <2>1. FlattenSeq(ss) = h[n]
    BY <1>4 DEF FlattenSeq
  <2>2. f[1] = ss[1]
    <3>1. 1 \in 1..n
      BY <1>1, <1>4
    <3> HIDE DEF n, h, g
    <3>2. ASSUME NEW i \in 1..n, i = 1 PROVE f[i] = <<>> \o ss[i]
      <4>1. i - 1 = 0
        BY <3>2
      <4> QED BY <1>2, <4>1
    <3>3. f[1] = <<>> \o ss[1]
      BY <3>1, <3>2
    <3>4. ss[1] \in Seq(S)
      BY <1>1, <3>1
    <3> QED BY <3>3, <3>4, ConcatEmptySeq
  <2> HIDE DEF n
  <2>3. Flattens(g)
    <3>1. ASSUME NEW i \in 1..n PROVE g[i] = IF i = 1 THEN ss[i] ELSE g[i - 1] \o ss[i]
      <4>1. CASE i = 1
        BY <2>2, <4>1
      <4>2. CASE i # 1
        <5>1. i - 1 \in 1..n
          BY <1>1, <4>2
        <5>2. g[i - 1] = f[i - 1] /\ g[i] = f[i]
          BY <5>1
        <5>3. f[i] = f[i - 1] \o ss[i]
          BY <1>2
        <5> QED BY <4>2, <5>2, <5>3
      <4> QED BY <4>1, <4>2
    <3>2. g = [i \in 1..n |-> IF i = 1 THEN ss[i] ELSE g[i - 1] \o ss[i]]
      <4>1. g = [i \in 1..n |-> g[i]]
        OBVIOUS
      <4> HIDE DEF g
      <4> QED BY <3>1, <4>1
    <3> QED BY <3>2
  <2>4. Flattens(h)
    <3> HIDE DEF Flattens, g
    <3> QED BY <2>3
  <2> HIDE DEF h
  <2>5. ASSUME NEW i \in 1..n PROVE h[i] = IF i = 1 THEN ss[i] ELSE h[i - 1] \o ss[i]
    BY <2>4
  <2> DEFINE T == {i \in 1..n : h[i] # f[i]}
  <2>6. T = {}
    <3> SUFFICES ASSUME T # {} PROVE FALSE
      OBVIOUS
    <3>1. PICK i \in T : \A y \in T : i <= y
      <4>1. T \in SUBSET Nat
        OBVIOUS
      <4> HIDE DEF T
      <4> QED BY <4>1, Least
    <3>2. i \in 1..n /\ h[i] # f[i]
      BY <3>1
    <3>3. i # 1
      BY <2>2, <2>5, <3>2
    <3>4. i - 1 \in 1..n /\ ~(i <= i - 1)
      BY <1>1, <3>2, <3>3
    <3>5. h[i - 1] = f[i - 1]
      BY <3>1, <3>4
    <3>6. f[i] = f[i - 1] \o ss[i]
      BY <1>2, <3>2 DEF n
    <3> QED BY <2>5, <3>2, <3>3, <3>5, <3>6
  <2>7. n \in 1..n
    BY <1>1, <1>4
  <2> QED BY <2>1, <2>6, <2>7 DEF n
<1> QED BY <1>3, <1>4

\* Where each of them is in what they make together.
LEMMA FlattenAt ==
    ASSUME NEW S, NEW ss \in Seq(Seq(S))
    PROVE  /\ FlattenSeq(ss) \in Seq(S)
           /\ Len(FlattenSeq(ss)) = Total(ss)[Len(ss)]
           /\ \A i \in 1..Len(ss) : \A k \in 1..Len(ss[i]) :
                 FlattenSeq(ss)[Total(ss)[i - 1] + k] = ss[i][k]
<1> DEFINE n == Len(ss)
           t == Total(ss)
<1>1. PICK f \in [0..n -> Seq(S)] : Joins(ss, f)
  BY JoinExists
<1>2. FlattenSeq(ss) = f[n]
  BY <1>1, FlattenJoins
<1>3. /\ n \in Nat /\ t \in [0..n -> Nat] /\ t[0] = 0
      /\ \A i \in 1..n : t[i] = t[i - 1] + Len(ss[i])
  BY TotalSteps, LenProperties
<1>4. \A i \in 1..n : ss[i] \in Seq(S) /\ Len(ss[i]) \in Nat
  <2>1. \A i \in 1..n : ss[i] \in Seq(S)
    BY ElementOfSeq
  <2> QED BY <2>1, LenProperties
<1>5. f[0] = <<>> /\ \A i \in 1..n : f[i] = f[i - 1] \o ss[i]
  BY <1>1 DEF Joins
<1>6. ASSUME NEW j \in 0..n, NEW i \in 0..j PROVE t[i] <= t[j]
  BY TotalGrows
<1> HIDE DEF n, t
<1> DEFINE Good(j) == /\ Len(f[j]) = t[j]
                      /\ \A i \in 1..j : \A k \in 1..Len(ss[i]) : f[j][t[i - 1] + k] = ss[i][k]
<1>7. ASSUME NEW j \in 1..n, Good(j - 1) PROVE Good(j)
  <2> DEFINE u == f[j - 1]
             v == ss[j]
  <2>1. j \in Nat /\ j - 1 \in 0..n /\ j \in 0..n
    BY <1>3
  <2>2. u \in Seq(S) /\ v \in Seq(S) /\ Len(u) = t[j - 1] /\ Len(v) \in Nat /\ t[j - 1] \in Nat
    BY <1>3, <1>4, <1>7, <2>1
  <2>3. f[j] = u \o v /\ t[j] = t[j - 1] + Len(v)
    BY <1>3, <1>5
  <2>4. \A i \in 1..(j - 1) : \A k \in 1..Len(ss[i]) : u[t[i - 1] + k] = ss[i][k]
    BY <1>7
  <2> HIDE DEF u, Good
  <2>5. /\ Len(u \o v) = Len(u) + Len(v)
        /\ \A i \in 1..(Len(u) + Len(v)) :
              (u \o v)[i] = IF i <= Len(u) THEN u[i] ELSE v[i - Len(u)]
    <3> HIDE DEF v
    <3> QED BY <2>2, ConcatProperties
  <2>6. ASSUME NEW i \in 1..j, NEW k \in 1..Len(ss[i]) PROVE f[j][t[i - 1] + k] = ss[i][k]
    <3> DEFINE x == t[i - 1]
    <3>1. CASE i = j
      <4>1. x = Len(u) /\ Len(u) \in Nat /\ k \in 1..Len(v)
        BY <2>2, <3>1
      <4> HIDE DEF x, v
      <4>2. x + k \in 1..(Len(u) + Len(v)) /\ ~(x + k <= Len(u)) /\ (x + k) - Len(u) = k
        BY <2>2, <4>1
      <4>3. f[j][x + k] = v[k]
        BY <2>3, <2>5, <4>2
      <4> QED BY <3>1, <4>3 DEF v, x
    <3>2. CASE i # j
      <4>1. i \in 1..(j - 1) /\ i \in 0..(j - 1)
        BY <2>1, <3>2
      <4>2. i \in 1..n /\ i - 1 \in 0..n /\ i \in 0..n
        BY <1>3, <2>1, <4>1
      <4>3. t[i] = x + Len(ss[i]) /\ Len(ss[i]) \in Nat /\ x \in Nat /\ t[i] \in Nat
        BY <1>3, <1>4, <4>2
      <4>4. t[i] <= Len(u)
        BY <1>6, <2>1, <2>2, <4>1
      <4>5. u[x + k] = ss[i][k]
        BY <2>4, <4>1
      <4> HIDE DEF x
      <4>6. x + k \in 1..(Len(u) + Len(v)) /\ x + k <= Len(u)
        <5>1. Len(u) \in Nat /\ k \in Nat /\ k >= 1 /\ k <= Len(ss[i])
          BY <2>2, <4>3
        <5> HIDE DEF v
        <5> QED BY <2>2, <4>3, <4>4, <5>1
      <4>7. f[j][x + k] = u[x + k]
        BY <2>3, <2>5, <4>6
      <4> QED BY <4>5, <4>7 DEF x
    <3> QED BY <3>1, <3>2
  <2>7. Len(f[j]) = t[j]
    BY <2>2, <2>3, <2>5
  <2> QED BY <2>6, <2>7 DEF Good
<1>8. Good(0)
  <2>1. Len(f[0]) = 0
    BY <1>5, EmptySeq
  <2> QED BY <1>3, <2>1
<1> HIDE DEF Good
<1> DEFINE T == {j \in 0..n : ~Good(j)}
<1>9. T = {}
  <2> SUFFICES ASSUME T # {} PROVE FALSE
    OBVIOUS
  <2>1. PICK j \in T : \A y \in T : j <= y
    <3>1. T \in SUBSET Nat
      OBVIOUS
    <3> HIDE DEF T
    <3> QED BY <3>1, Least
  <2>2. j \in 0..n /\ ~Good(j) /\ j # 0
    BY <1>8, <2>1
  <2>3. j \in 1..n /\ j - 1 \in 0..n /\ ~(j <= j - 1)
    BY <1>3, <2>2
  <2>4. Good(j - 1)
    BY <2>1, <2>3
  <2> QED BY <1>7, <2>2, <2>3, <2>4
<1>10. Good(n)
  <2>1. n \in 0..n
    BY <1>3
  <2> QED BY <1>9, <2>1
<1>11. f[n] \in Seq(S)
  BY <1>3
<1> QED BY <1>2, <1>10, <1>11 DEF n, t, Good

\* One more at the end.
LEMMA FlattenAppend ==
    ASSUME NEW S, NEW ss \in Seq(Seq(S)), NEW v \in Seq(S)
    PROVE  FlattenSeq(Append(ss, v)) = FlattenSeq(ss) \o v
<1> DEFINE n == Len(ss)
           rr == Append(ss, v)
<1>1. /\ rr \in Seq(Seq(S)) /\ Len(rr) = n + 1 /\ rr[n + 1] = v
      /\ \A i \in 1..n : rr[i] = ss[i]
  BY AppendProperties
<1>2. n \in Nat
  BY LenProperties
<1> HIDE DEF rr, n
<1>3. PICK f \in [0..Len(rr) -> Seq(S)] : Joins(rr, f)
  BY <1>1, JoinExists
<1>4. FlattenSeq(rr) = f[n + 1]
  BY <1>1, <1>3, FlattenJoins
<1> DEFINE g == [i \in 0..n |-> f[i]]
<1>5. g \in [0..Len(ss) -> Seq(S)] /\ Joins(ss, g)
  <2>1. g \in [0..Len(ss) -> Seq(S)]
    BY <1>1, <1>2 DEF n
  <2>2. g[0] = <<>>
    BY <1>2, <1>3 DEF Joins
  <2>3. ASSUME NEW i \in 1..Len(ss) PROVE g[i] = g[i - 1] \o ss[i]
    <3>1. i \in 1..n /\ i \in 1..Len(rr) /\ i \in 0..n /\ i - 1 \in 0..n
      BY <1>1, <1>2 DEF n
    <3>2. f[i] = f[i - 1] \o rr[i]
      BY <1>3, <3>1 DEF Joins
    <3>3. rr[i] = ss[i]
      BY <1>1, <3>1
    <3> QED BY <3>1, <3>2, <3>3
  <2> HIDE DEF g
  <2> QED BY <2>1, <2>2, <2>3 DEF Joins
<1>6. FlattenSeq(ss) = g[n]
  <2> HIDE DEF g
  <2> QED BY <1>5, FlattenJoins DEF n
<1>7. g[n] = f[n]
  BY <1>2
<1>8. f[n + 1] = f[n] \o v
  <2> HIDE DEF g
  <2>1. n + 1 \in 1..(n + 1) /\ (n + 1) - 1 = n
    BY <1>2
  <2>2. f[n + 1] = f[(n + 1) - 1] \o rr[n + 1]
    BY <1>1, <1>3, <2>1 DEF Joins
  <2> QED BY <1>1, <2>1, <2>2
<1> QED BY <1>4, <1>6, <1>7, <1>8 DEF rr

\* What was written second is read back from where the first ends.
LEMMA SliceOfTwo ==
    ASSUME NEW S, NEW u \in Seq(S), NEW v \in Seq(S)
    PROVE  SubSeq(u \o v, Len(u) + 1, Len(u) + Len(v)) = v
<1> DEFINE s == u \o v
           a == Len(u)
           b == Len(v)
           r == SubSeq(s, a + 1, a + b)
<1>1. a \in Nat /\ b \in Nat
  BY LenProperties
<1>2. /\ s \in Seq(S) /\ Len(s) = a + b
      /\ \A i \in 1..(a + b) : s[i] = IF i <= a THEN u[i] ELSE v[i - a]
  BY ConcatProperties
<1> HIDE DEF s, a, b
<1>3. \A i \in (a + 1)..(a + b) : s[i] \in S
  <2> SUFFICES ASSUME NEW i \in (a + 1)..(a + b) PROVE s[i] \in S
    OBVIOUS
  <2>1. i \in 1..Len(s)
    BY <1>1, <1>2
  <2> QED BY <1>2, <2>1, ElementOfSeq
<1>4. a + 1 \in Int /\ a + b \in Int /\ (a + b) - (a + 1) + 1 = b
  BY <1>1
<1>5. /\ r \in Seq(S)
      /\ Len(r) = IF a + 1 <= a + b THEN (a + b) - (a + 1) + 1 ELSE 0
      /\ \A i \in 1..((a + b) - (a + 1) + 1) : r[i] = s[(a + 1) + i - 1]
  BY <1>3, <1>4, SubSeqProperties
<1> HIDE DEF r
<1>6. Len(r) = b
  BY <1>1, <1>4, <1>5
<1>7. ASSUME NEW i \in 1..b PROVE r[i] = v[i]
  <2>1. i \in 1..((a + b) - (a + 1) + 1) /\ (a + 1) + i - 1 = a + i
    BY <1>1, <1>4
  <2>2. r[i] = s[a + i]
    BY <1>5, <2>1
  <2>3. a + i \in 1..(a + b) /\ ~(a + i <= a) /\ (a + i) - a = i
    BY <1>1
  <2> QED BY <1>2, <2>2, <2>3
<1>8. r = v
  BY <1>5, <1>6, <1>7, SeqEqual DEF b
<1> QED BY <1>8 DEF r, s, a, b

\* The middle part, cut out of a concatenation.
LEMMA SliceOfThree ==
    ASSUME NEW S, NEW u \in Seq(S), NEW v \in Seq(S), NEW w \in Seq(S)
    PROVE  SubSeq(u \o v \o w, Len(u) + 1, Len(u) + Len(v)) = v
<1> DEFINE s == u \o v
           a == Len(u)
           b == Len(v)
<1>1. a \in Nat /\ b \in Nat
  BY LenProperties
<1>2. s \in Seq(S) /\ Len(s) = a + b
  BY ConcatProperties
<1>3. SubSeq(s, a + 1, a + b) = v
  BY SliceOfTwo
<1> HIDE DEF s, a, b
<1>4. CASE b = 0
  <2>1. a + b < a + 1 /\ a + 1 \in Int /\ a + b \in Int
    BY <1>1, <1>4
  <2>2. SubSeq(s \o w, a + 1, a + b) = <<>> /\ SubSeq(s, a + 1, a + b) = <<>>
    BY <2>1, SubSeqEmpty
  <2> QED BY <1>3, <2>2 DEF s, a, b
<1>5. CASE b # 0
  <2>1. a + 1 \in 1..Len(s) /\ a + b \in 1..Len(s)
    BY <1>1, <1>2, <1>5
  <2>2. SubSeq(s \o w, a + 1, a + b) = SubSeq(s, a + 1, a + b)
    BY <1>2, <2>1, SubSeqOfConcat1
  <2> QED BY <1>3, <2>2 DEF s, a, b
<1> QED BY <1>4, <1>5

\* A cell read from the middle.
LEMMA CellOfTwo ==
    ASSUME NEW S, NEW u \in Seq(S), NEW v \in Seq(S), NEW k \in 1..Len(v)
    PROVE  (u \o v)[Len(u) + k] = v[k]
<1> DEFINE s == u \o v
           a == Len(u)
           b == Len(v)
<1>1. a \in Nat /\ b \in Nat /\ k \in 1..b
  BY LenProperties
<1>2. \A i \in 1..(a + b) : s[i] = IF i <= a THEN u[i] ELSE v[i - a]
  BY ConcatProperties
<1> HIDE DEF s, a, b
<1>3. a + k \in 1..(a + b) /\ ~(a + k <= a) /\ (a + k) - a = k
  BY <1>1
<1> QED BY <1>2, <1>3 DEF s, a

\* What is in front keeps its place.
LEMMA CellOfFirst ==
    ASSUME NEW S, NEW u \in Seq(S), NEW v \in Seq(S), NEW k \in 1..Len(u)
    PROVE  (u \o v)[k] = u[k]
<1> DEFINE s == u \o v
           a == Len(u)
           b == Len(v)
<1>1. a \in Nat /\ b \in Nat /\ k \in 1..a
  BY LenProperties
<1>2. \A i \in 1..(a + b) : s[i] = IF i <= a THEN u[i] ELSE v[i - a]
  BY ConcatProperties
<1> HIDE DEF s, a, b
<1>3. k \in 1..(a + b) /\ k <= a
  BY <1>1
<1> QED BY <1>2, <1>3 DEF s

(***************************************************************************)
(* Cells.                                                                  *)
(***************************************************************************)
\* Two cells make a number below BYTE * BYTE, and are made of it.
LEMMA TwoCells ==
    ASSUME NEW b \in Nat \ {0}
    PROVE  /\ \A x \in 0..(b - 1) : x % b = x
           /\ \A lo, hi \in 0..(b - 1) : /\ (lo + b * hi) % b = lo
                                         /\ ((lo + b * hi) \div b) % b = hi
                                         /\ lo + b * hi \in Nat
                                         /\ lo + b * hi < b * b
           /\ \A n \in Nat : n < b * b => /\ n % b \in 0..(b - 1)
                                          /\ (n \div b) % b \in 0..(b - 1)
                                          /\ n = (n % b) + b * ((n \div b) % b)
           /\ \A n \in Nat : n % b \in 0..(b - 1) /\ (n \div b) % b \in 0..(b - 1)
<1>1. \A x \in 0..(b - 1) : x % b = x
  OBVIOUS
<1>2. ASSUME NEW lo \in 0..(b - 1), NEW hi \in 0..(b - 1)
      PROVE  /\ (lo + b * hi) % b = lo
             /\ ((lo + b * hi) \div b) % b = hi
             /\ lo + b * hi \in Nat
             /\ lo + b * hi < b * b
  <2> DEFINE n == lo + b * hi
  <2>1. n \in Nat
    OBVIOUS
  <2>2. n \div b = hi /\ n % b = lo
    OBVIOUS
  <2>3. n < b * b
    <3>1. hi + 1 <= b
      OBVIOUS
    <3>2. b * (hi + 1) <= b * b
      BY <3>1
    <3>3. b * (hi + 1) = b * hi + b
      OBVIOUS
    <3> QED BY <3>2, <3>3
  <2>4. hi % b = hi
    BY <1>1
  <2> QED BY <2>1, <2>2, <2>3, <2>4
<1>3. ASSUME NEW n \in Nat PROVE n % b \in 0..(b - 1) /\ (n \div b) % b \in 0..(b - 1)
  <2>1. n % b \in 0..(b - 1) /\ n \div b \in Nat
    OBVIOUS
  <2> DEFINE q == n \div b
  <2> HIDE DEF q
  <2>2. q \in Nat => q % b \in 0..(b - 1)
    OBVIOUS
  <2> QED BY <2>1, <2>2 DEF q
<1>4. ASSUME NEW n \in Nat, n < b * b
      PROVE  n = (n % b) + b * ((n \div b) % b)
  <2>1. n \div b \in 0..(b - 1)
    BY <1>4
  <2>2. (n \div b) % b = n \div b
    BY <1>1, <2>1
  <2>3. n = (n % b) + b * (n \div b)
    OBVIOUS
  <2> QED BY <2>2, <2>3
<1> QED BY <1>1, <1>2, <1>3, <1>4

\* Parts may be put together in any order.
Regroups(u, v, w) == (u \o v) \o w = u \o (v \o w)
\* Concatenation is associative, as the layouts below need it.
LEMMA Regroup ==
    ASSUME NEW S, NEW u \in Seq(S), NEW v \in Seq(S), NEW w \in Seq(S)
    PROVE  Regroups(u, v, w)
BY ConcatAssociative DEF Regroups

\* Five parts written one after the other, and where each is read.
Framed(c, S, p, a, q, d, s) ==
    /\ c = p \o a \o q \o d \o s
    /\ c \in Seq(S)
    /\ Len(c) = Len(p) + Len(a) + Len(q) + Len(d) + Len(s)
    /\ \A k \in 1..Len(p) : c[k] = p[k]
    /\ \A k \in 1..Len(q) : c[Len(p) + Len(a) + k] = q[k]
    /\ SubSeq(c, Len(p) + 1, Len(p) + Len(a)) = a
    /\ SubSeq(c, Len(p) + Len(a) + Len(q) + 1, Len(p) + Len(a) + Len(q) + Len(d)) = d
    /\ SubSeq(c, Len(p) + Len(a) + Len(q) + Len(d) + 1, Len(c)) = s

\* The five parts of an encoded item and what follows are found again.
LEMMA FiveParts ==
    ASSUME NEW S, NEW p \in Seq(S), NEW a \in Seq(S), NEW q \in Seq(S), NEW d \in Seq(S),
           NEW s \in Seq(S)
    PROVE  Framed(p \o a \o q \o d \o s, S, p, a, q, d, s)
<1> DEFINE pa == p \o a
           paq == pa \o q
           paqd == paq \o d
           c == paqd \o s
           ds == d \o s
           w == q \o ds
<1>1. Len(p) \in Nat /\ Len(a) \in Nat /\ Len(q) \in Nat /\ Len(d) \in Nat /\ Len(s) \in Nat
  BY LenProperties
<1>2. pa \in Seq(S) /\ Len(pa) = Len(p) + Len(a)
  BY ConcatProperties
<1>3. ds \in Seq(S) /\ Len(ds) = Len(d) + Len(s)
  BY ConcatProperties
<1>4. \A k \in 1..Len(p) : pa[k] = p[k]
  BY CellOfFirst
<1> HIDE DEF pa, ds
<1>5. paq \in Seq(S) /\ Len(paq) = Len(pa) + Len(q) /\ w \in Seq(S)
  BY <1>2, <1>3, ConcatProperties
<1>6. \A k \in 1..Len(q) : paq[Len(pa) + k] = q[k]
  BY <1>2, CellOfTwo
<1>7. paq \o ds = pa \o w
  <2>1. Regroups(pa, q, ds)
    BY <1>2, <1>3, Regroup
  <2> QED BY <2>1 DEF Regroups
<1> HIDE DEF paq, w
<1>8. paqd \in Seq(S) /\ Len(paqd) = Len(paq) + Len(d)
  BY <1>5, ConcatProperties
<1>9. c = paq \o ds
  <2>1. Regroups(paq, d, s)
    BY <1>5, Regroup
  <2> QED BY <2>1 DEF Regroups, ds
<1>10. SubSeq(c, Len(paq) + 1, Len(paq) + Len(d)) = d
  BY <1>5, SliceOfThree
<1> HIDE DEF paqd
<1>11. c \in Seq(S) /\ Len(c) = Len(paqd) + Len(s)
  BY <1>8, ConcatProperties
<1>12. SubSeq(c, Len(paqd) + 1, Len(paqd) + Len(s)) = s
  BY <1>8, SliceOfTwo
<1> HIDE DEF c
<1>13. \A k \in 1..Len(p) : c[k] = p[k]
  <2> SUFFICES ASSUME NEW k \in 1..Len(p) PROVE c[k] = p[k]
    OBVIOUS
  <2>1. k \in 1..Len(pa)
    BY <1>1, <1>2
  <2>2. (pa \o w)[k] = pa[k]
    BY <1>2, <1>5, <2>1, CellOfFirst
  <2> QED BY <1>4, <1>7, <1>9, <2>2
<1>14. \A k \in 1..Len(q) : c[Len(pa) + k] = q[k]
  <2> SUFFICES ASSUME NEW k \in 1..Len(q) PROVE c[Len(pa) + k] = q[k]
    OBVIOUS
  <2>1. Len(pa) + k \in 1..Len(paq)
    BY <1>1, <1>2, <1>5
  <2>2. (paq \o ds)[Len(pa) + k] = paq[Len(pa) + k]
    BY <1>3, <1>5, <2>1, CellOfFirst
  <2> QED BY <1>6, <1>9, <2>2
<1>15. SubSeq(c, Len(p) + 1, Len(p) + Len(a)) = a
  <2>1. SubSeq(p \o a \o w, Len(p) + 1, Len(p) + Len(a)) = a
    BY <1>5, SliceOfThree
  <2> QED BY <1>7, <1>9, <2>1 DEF pa
<1>16. /\ Len(pa) = Len(p) + Len(a) /\ Len(paq) = Len(p) + Len(a) + Len(q)
       /\ Len(paqd) = Len(p) + Len(a) + Len(q) + Len(d)
       /\ Len(paqd) + Len(s) = Len(c)
  BY <1>1, <1>2, <1>5, <1>8, <1>11
<1>17. c = p \o a \o q \o d \o s
  BY DEF c, paqd, paq, pa
<1>18. Framed(c, S, p, a, q, d, s)
  BY <1>10, <1>11, <1>12, <1>13, <1>14, <1>15, <1>16, <1>17 DEF Framed
<1> QED BY <1>17, <1>18

(***************************************************************************)
(* Writing an item and reading it back.                                    *)
(***************************************************************************)
Kind == {"instruction", "lookup"}
Item(kind) == IF kind = "instruction" THEN Instruction ELSE Lookup

\* The lengths of an item fit the cells they are written to.
ItemFits(kind, x) ==
    IF kind = "instruction" THEN Len(x.account_indexes) < BYTE /\ Len(x.data) < BYTE * BYTE
    ELSE Len(x.writable_indexes) < BYTE /\ Len(x.readonly_indexes) < BYTE

\* There is a cell, so BYTE is positive; a length is written as cells.
LEMMA CellTypes ==
    /\ BYTE \in Nat \ {0}
    /\ \A s : Len(s) \in Nat => Length(s) \in Cell /\ DataLength(s) \in Seq(Cell)
    /\ \A s : Len(s) \in Nat /\ Len(s) < BYTE => Length(s) = Len(s)
<1>1. BYTE \in Nat \ {0}
  BY CellAssumption DEF Cell
<1>2. ASSUME NEW s, Len(s) \in Nat PROVE Length(s) \in Cell /\ DataLength(s) \in Seq(Cell)
  <2>1. Len(s) % BYTE \in Cell /\ (Len(s) \div BYTE) % BYTE \in Cell
    BY <1>1, <1>2, TwoCells DEF Cell
  <2> QED BY <2>1 DEF Length, DataLength
<1>3. ASSUME NEW s, Len(s) \in Nat, Len(s) < BYTE PROVE Length(s) = Len(s)
  <2>1. Len(s) \in 0..(BYTE - 1)
    BY <1>1, <1>3
  <2>2. \A x \in 0..(BYTE - 1) : x % BYTE = x
    BY <1>1, TwoCells
  <2> QED BY <2>1, <2>2 DEF Length
<1> QED BY <1>1, <1>2, <1>3

\* An item that fits, written in front of anything, is read as it was.
LEMMA InstructionForward ==
    ASSUME NEW x \in Instruction, ItemFits("instruction", x), NEW s \in Seq(Cell)
    PROVE  ReadInstruction(EncodeItem("instruction", x) \o s) = [item |-> x, rest |-> s]
<1> DEFINE a == x.account_indexes
           d == x.data
           p == <<x.program_id_index, Length(a)>>
           q == DataLength(d)
           c == p \o a \o q \o d \o s
           la == Len(a)
           ld == Len(d)
<1>1. x.program_id_index \in Cell /\ a \in Seq(Cell) /\ d \in Seq(Cell)
      /\ x = [program_id_index |-> x.program_id_index, account_indexes |-> a, data |-> d]
  BY DEF Instruction
<1>2. la \in Nat /\ ld \in Nat /\ la < BYTE /\ ld < BYTE * BYTE /\ Len(s) \in Nat
  BY <1>1, LenProperties DEF ItemFits
<1>3. BYTE \in Nat \ {0} /\ Length(a) = la /\ Length(a) \in Cell
  BY <1>2, CellTypes
<1>4. /\ q \in Seq(Cell) /\ Len(q) = 2 /\ q[1] = ld % BYTE /\ q[2] = (ld \div BYTE) % BYTE
      /\ ld = q[1] + BYTE * q[2]
  <2>1. q \in Seq(Cell)
    BY <1>2, CellTypes
  <2>2. Len(q) = 2 /\ q[1] = ld % BYTE /\ q[2] = (ld \div BYTE) % BYTE
    BY DEF DataLength, Length
  <2>3. ld = (ld % BYTE) + BYTE * ((ld \div BYTE) % BYTE)
    <3> HIDE DEF ld, q
    <3> QED BY <1>2, <1>3, TwoCells
  <2> HIDE DEF q, ld
  <2> QED BY <2>1, <2>2, <2>3
<1>5. p \in Seq(Cell) /\ Len(p) = 2 /\ p[1] = x.program_id_index /\ p[2] = la
  BY <1>1, <1>3
<1> HIDE DEF p, q, a, d
<1>6. Framed(c, Cell, p, a, q, d, s)
  BY <1>1, <1>4, <1>5, FiveParts
<1>7. c = EncodeItem("instruction", x) \o s
  BY DEF EncodeItem, p, q, a, d
<1> HIDE DEF c, la, ld
<1>8. /\ Len(c) = 2 + la + 2 + ld + Len(s)
      /\ c[1] = x.program_id_index /\ c[2] = la
      /\ c[3 + la] = q[1] /\ c[4 + la] = q[2]
      /\ SubSeq(c, 3, 2 + la) = a
      /\ SubSeq(c, 5 + la, 4 + la + ld) = d
      /\ SubSeq(c, 5 + la + ld, Len(c)) = s
  <2>1. /\ Len(c) = Len(p) + Len(a) + Len(q) + Len(d) + Len(s)
        /\ \A k \in 1..Len(p) : c[k] = p[k]
        /\ \A k \in 1..Len(q) : c[Len(p) + Len(a) + k] = q[k]
        /\ SubSeq(c, Len(p) + 1, Len(p) + Len(a)) = a
        /\ SubSeq(c, Len(p) + Len(a) + Len(q) + 1, Len(p) + Len(a) + Len(q) + Len(d)) = d
        /\ SubSeq(c, Len(p) + Len(a) + Len(q) + Len(d) + 1, Len(c)) = s
    BY <1>6 DEF Framed
  <2>2. Len(p) = 2 /\ Len(a) = la /\ Len(q) = 2 /\ Len(d) = ld
    BY <1>4, <1>5 DEF la, ld
  <2>3. /\ 2 + 1 = 3 /\ 2 + la + 1 = 3 + la /\ 2 + la + 2 = 4 + la
        /\ 2 + la + 2 + 1 = 5 + la /\ 2 + la + 2 + ld = 4 + la + ld
        /\ 2 + la + 2 + ld + 1 = 5 + la + ld
    BY <1>2
  <2>4. 1 \in 1..2 /\ 2 \in 1..2
    OBVIOUS
  <2>5. c[1] = p[1] /\ c[2] = p[2] /\ c[2 + la + 1] = q[1] /\ c[2 + la + 2] = q[2]
    BY <2>1, <2>2, <2>4
  <2>6. SubSeq(c, 2 + 1, 2 + la) = a /\ SubSeq(c, 2 + la + 2 + 1, 2 + la + 2 + ld) = d
        /\ SubSeq(c, 2 + la + 2 + ld + 1, Len(c)) = s
    BY <2>1, <2>2
  <2> QED BY <1>5, <2>1, <2>2, <2>3, <2>5, <2>6
<1>9. c[3 + c[2]] + BYTE * c[4 + c[2]] = ld
  BY <1>4, <1>8
<1>10. /\ ~(Len(c) < 2) /\ ~(Len(c) < 4 + la) /\ ~(Len(c) < 4 + la + ld)
       /\ 3 + la - 1 = 2 + la /\ (5 + la) + ld - 1 = 4 + la + ld
       /\ (4 + la + ld) + 1 = 5 + la + ld
  BY <1>2, <1>8
<1>11. ReadInstruction(c)
         = [item |-> [program_id_index |-> c[1], account_indexes |-> Take(c, 3, la),
                      data |-> Take(c, 5 + la, ld)],
            rest |-> After(c, 4 + la + ld)]
  BY <1>8, <1>9, <1>10 DEF ReadInstruction
<1>12. Take(c, 3, la) = a /\ Take(c, 5 + la, ld) = d /\ After(c, 4 + la + ld) = s
  BY <1>8, <1>10 DEF Take, After
<1> QED BY <1>1, <1>7, <1>8, <1>11, <1>12

\* A lookup is read as it was written, whatever follows it.
LEMMA LookupForward ==
    ASSUME NEW x \in Lookup, ItemFits("lookup", x), NEW s \in Seq(Cell)
    PROVE  ReadLookup(EncodeItem("lookup", x) \o s) = [item |-> x, rest |-> s]
<1> DEFINE a == x.writable_indexes
           d == x.readonly_indexes
           p == <<x.account_key, Length(a)>>
           q == <<Length(d)>>
           c == p \o a \o q \o d \o s
           la == Len(a)
           ld == Len(d)
<1>1. x.account_key \in Cell /\ a \in Seq(Cell) /\ d \in Seq(Cell)
      /\ x = [account_key |-> x.account_key, writable_indexes |-> a, readonly_indexes |-> d]
  BY DEF Lookup
<1>2. la \in Nat /\ ld \in Nat /\ la < BYTE /\ ld < BYTE /\ Len(s) \in Nat
  BY <1>1, LenProperties DEF ItemFits
<1>3. Length(a) = la /\ Length(a) \in Cell /\ Length(d) = ld /\ Length(d) \in Cell
  BY <1>2, CellTypes
<1>4. q \in Seq(Cell) /\ Len(q) = 1 /\ q[1] = ld
  BY <1>3
<1>5. p \in Seq(Cell) /\ Len(p) = 2 /\ p[1] = x.account_key /\ p[2] = la
  BY <1>1, <1>3
<1> HIDE DEF p, q, a, d
<1>6. Framed(c, Cell, p, a, q, d, s)
  BY <1>1, <1>4, <1>5, FiveParts
<1>7. c = EncodeItem("lookup", x) \o s
  BY DEF EncodeItem, p, q, a, d
<1> HIDE DEF c, la, ld
<1>8. /\ Len(c) = 2 + la + 1 + ld + Len(s)
      /\ c[1] = x.account_key /\ c[2] = la
      /\ c[3 + la] = ld
      /\ SubSeq(c, 3, 2 + la) = a
      /\ SubSeq(c, 4 + la, 3 + la + ld) = d
      /\ SubSeq(c, 4 + la + ld, Len(c)) = s
  <2>1. /\ Len(c) = Len(p) + Len(a) + Len(q) + Len(d) + Len(s)
        /\ \A k \in 1..Len(p) : c[k] = p[k]
        /\ \A k \in 1..Len(q) : c[Len(p) + Len(a) + k] = q[k]
        /\ SubSeq(c, Len(p) + 1, Len(p) + Len(a)) = a
        /\ SubSeq(c, Len(p) + Len(a) + Len(q) + 1, Len(p) + Len(a) + Len(q) + Len(d)) = d
        /\ SubSeq(c, Len(p) + Len(a) + Len(q) + Len(d) + 1, Len(c)) = s
    BY <1>6 DEF Framed
  <2>2. Len(p) = 2 /\ Len(a) = la /\ Len(q) = 1 /\ Len(d) = ld
    BY <1>4, <1>5 DEF la, ld
  <2>3. /\ 2 + 1 = 3 /\ 2 + la + 1 = 3 + la
        /\ 2 + la + 1 + 1 = 4 + la /\ 2 + la + 1 + ld = 3 + la + ld
        /\ 2 + la + 1 + ld + 1 = 4 + la + ld
    BY <1>2
  <2>4. 1 \in 1..1 /\ 1 \in 1..2 /\ 2 \in 1..2
    OBVIOUS
  <2>5. c[1] = p[1] /\ c[2] = p[2] /\ c[2 + la + 1] = q[1]
    BY <2>1, <2>2, <2>4
  <2>6. SubSeq(c, 2 + 1, 2 + la) = a /\ SubSeq(c, 2 + la + 1 + 1, 2 + la + 1 + ld) = d
        /\ SubSeq(c, 2 + la + 1 + ld + 1, Len(c)) = s
    BY <2>1, <2>2
  <2> QED BY <1>4, <1>5, <2>1, <2>2, <2>3, <2>5, <2>6
<1>9. /\ ~(Len(c) < 2) /\ ~(Len(c) < 3 + la) /\ ~(Len(c) < 3 + la + ld)
      /\ 3 + la - 1 = 2 + la /\ (4 + la) + ld - 1 = 3 + la + ld
      /\ (3 + la + ld) + 1 = 4 + la + ld
  BY <1>2, <1>8
<1>10. ReadLookup(c)
         = [item |-> [account_key |-> c[1], writable_indexes |-> Take(c, 3, la),
                      readonly_indexes |-> Take(c, 4 + la, ld)],
            rest |-> After(c, 3 + la + ld)]
  BY <1>8, <1>9 DEF ReadLookup
<1>11. Take(c, 3, la) = a /\ Take(c, 4 + la, ld) = d /\ After(c, 3 + la + ld) = s
  BY <1>8, <1>9 DEF Take, After
<1> QED BY <1>1, <1>7, <1>8, <1>10, <1>11

\* Cells cut at four places, put together again.
LEMMA CutInFive ==
    ASSUME NEW S, NEW c \in Seq(S), NEW h \in 0..Len(c), NEW i \in h..Len(c),
           NEW j \in i..Len(c), NEW k \in j..Len(c)
    PROVE  /\ SubSeq(c, 1, h) \o SubSeq(c, h + 1, i) \o SubSeq(c, i + 1, j)
              \o SubSeq(c, j + 1, k) \o SubSeq(c, k + 1, Len(c)) = c
           /\ \A x, y \in 0..Len(c) : x <= y => /\ SubSeq(c, x + 1, y) \in Seq(S)
                                                /\ Len(SubSeq(c, x + 1, y)) = y - x
<1> DEFINE n == Len(c)
<1>1. n \in Nat
  BY LenProperties
<1>2. ASSUME NEW x \in 0..n, NEW y \in x..n PROVE SubSeq(c, 1, x) \o SubSeq(c, x + 1, y) = SubSeq(c, 1, y)
  <2>1. 1 \in 1..(n + 1) /\ x \in (1 - 1)..n /\ y \in x..n
    BY <1>1
  <2> QED BY <2>1, ConcatAdjacentSubSeq
<1>3. ASSUME NEW x \in 0..n, NEW y \in 0..n, x <= y
      PROVE  SubSeq(c, x + 1, y) \in Seq(S) /\ Len(SubSeq(c, x + 1, y)) = y - x
  <2>1. x + 1 \in Int /\ y \in Int
    BY <1>1
  <2>2. \A z \in (x + 1)..y : c[z] \in S
    <3> SUFFICES ASSUME NEW z \in (x + 1)..y PROVE c[z] \in S
      OBVIOUS
    <3>1. z \in 1..Len(c)
      BY <1>1
    <3> QED BY <3>1, ElementOfSeq
  <2> DEFINE r == SubSeq(c, x + 1, y)
  <2>3. r \in Seq(S) /\ Len(r) = IF x + 1 <= y THEN y - (x + 1) + 1 ELSE 0
    BY <2>1, <2>2, SubSeqProperties
  <2> HIDE DEF r
  <2>4. Len(r) = y - x
    BY <1>1, <1>3, <2>3
  <2> QED BY <2>3, <2>4 DEF r
<1>4. SubSeq(c, 1, n) = c
  BY SubSeqFull
<1>5. h \in 0..n /\ i \in h..n /\ i \in 0..n /\ j \in i..n /\ j \in 0..n /\ k \in j..n /\ k \in 0..n
      /\ n \in k..n
  BY <1>1
<1>6. /\ SubSeq(c, 1, h) \o SubSeq(c, h + 1, i) = SubSeq(c, 1, i)
      /\ SubSeq(c, 1, i) \o SubSeq(c, i + 1, j) = SubSeq(c, 1, j)
      /\ SubSeq(c, 1, j) \o SubSeq(c, j + 1, k) = SubSeq(c, 1, k)
      /\ SubSeq(c, 1, k) \o SubSeq(c, k + 1, n) = c
  BY <1>2, <1>4, <1>5
<1> QED BY <1>3, <1>6

\* One and two cells as slices.
LEMMA PairAt ==
    ASSUME NEW S, NEW c \in Seq(S), NEW i \in 1..Len(c)
    PROVE  /\ SubSeq(c, i, i) = <<c[i]>>
           /\ i + 1 <= Len(c) => SubSeq(c, i, i + 1) = <<c[i], c[i + 1]>>
<1>1. Len(c) \in Nat /\ \A k \in 1..Len(c) : c[k] \in S
  BY LenProperties, ElementOfSeq
<1>2. SubSeq(c, i, i) = <<c[i]>>
  <2> DEFINE r == SubSeq(c, i, i)
             q == <<c[i]>>
  <2>1. i \in Int /\ (\A k \in i..i : c[k] \in S) /\ i <= i /\ i - i + 1 = 1 /\ i + 1 - 1 = i
    BY <1>1
  <2>2. r \in Seq(S) /\ Len(r) = i - i + 1 /\ \A k \in 1..(i - i + 1) : r[k] = c[i + k - 1]
    BY <2>1, SubSeqProperties
  <2>3. q \in Seq(S) /\ Len(q) = 1 /\ q[1] = c[i]
    BY <1>1
  <2> HIDE DEF r, q
  <2>4. Len(r) = 1 /\ r[1] = c[i]
    BY <2>1, <2>2
  <2>5. \A k \in 1..1 : r[k] = q[k]
    BY <2>3, <2>4
  <2>6. r = q
    BY <2>2, <2>3, <2>4, <2>5, SeqEqual
  <2> QED BY <2>6 DEF r, q
<1>3. ASSUME i + 1 <= Len(c) PROVE SubSeq(c, i, i + 1) = <<c[i], c[i + 1]>>
  <2> DEFINE r == SubSeq(c, i, i + 1)
             q == <<c[i], c[i + 1]>>
  <2>1. /\ i \in Int /\ i + 1 \in Int /\ (\A k \in i..(i + 1) : c[k] \in S) /\ i <= i + 1
        /\ (i + 1) - i + 1 = 2 /\ i + 1 - 1 = i /\ i + 2 - 1 = i + 1 /\ i + 1 \in 1..Len(c)
    BY <1>1, <1>3
  <2>2. r \in Seq(S) /\ Len(r) = (i + 1) - i + 1 /\ \A k \in 1..((i + 1) - i + 1) : r[k] = c[i + k - 1]
    BY <2>1, SubSeqProperties
  <2>3. q \in Seq(S) /\ Len(q) = 2 /\ q[1] = c[i] /\ q[2] = c[i + 1]
    BY <1>1, <2>1
  <2> HIDE DEF r, q
  <2>4. Len(r) = 2 /\ r[1] = c[i] /\ r[2] = c[i + 1]
    <3>1. \A k \in 1..2 : r[k] = c[i + k - 1]
      BY <2>1, <2>2
    <3>2. r[1] = c[i + 1 - 1] /\ r[2] = c[i + 2 - 1]
      BY <3>1, 1 \in 1..2, 2 \in 1..2
    <3> QED BY <2>1, <2>2, <3>2
  <2>5. \A k \in 1..2 : k = 1 \/ k = 2
    OBVIOUS
  <2>6. \A k \in 1..2 : r[k] = q[k]
    BY <2>3, <2>4, <2>5
  <2>7. r = q
    BY <2>2, <2>3, <2>4, <2>6, SeqEqual
  <2> QED BY <2>7 DEF r, q
<1> QED BY <1>2, <1>3

\* What a reader yields, written out in front of what it left, is what it read.
ReadsBack(kind, cells, r) ==
    /\ r = [item |-> r.item, rest |-> r.rest]
    /\ r.item \in Item(kind)
    /\ r.rest \in Seq(Cell)
    /\ ItemFits(kind, r.item)
    /\ cells = EncodeItem(kind, r.item) \o r.rest

\* An instruction that was read, written out, gives the cells it was read from.
LEMMA InstructionBack ==
    ASSUME NEW c \in Seq(Cell), ReadInstruction(c) # Err
    PROVE  ReadsBack("instruction", c, ReadInstruction(c))
<1> DEFINE n == Len(c)
           la == c[2]
           ld == c[3 + la] + BYTE * c[4 + la]
           a == SubSeq(c, 3, 2 + la)
           d == SubSeq(c, 5 + la, 4 + la + ld)
           s == SubSeq(c, 5 + la + ld, n)
           x == [program_id_index |-> c[1], account_indexes |-> a, data |-> d]
<1>1. /\ ~(n < 2) /\ ~(n < 4 + la) /\ ~(n < 4 + la + ld)
      /\ ReadInstruction(c) = [item |-> [program_id_index |-> c[1],
                                         account_indexes |-> Take(c, 3, la),
                                         data |-> Take(c, 5 + la, ld)],
                               rest |-> After(c, 4 + la + ld)]
  BY DEF ReadInstruction
<1>2. n \in Nat /\ \A i \in 1..n : c[i] \in Cell
  BY LenProperties, ElementOfSeq
<1>3. BYTE \in Nat \ {0}
  BY CellTypes
<1>4. c[1] \in Cell /\ la \in Cell /\ la \in Nat /\ la < BYTE
  <2>1. 1 \in 1..n /\ 2 \in 1..n
    BY <1>1, <1>2
  <2>2. c[1] \in Cell /\ la \in Cell
    BY <1>2, <2>1
  <2> QED BY <1>3, <2>2 DEF Cell
<1> HIDE DEF la
<1>5. c[3 + la] \in Cell /\ c[4 + la] \in Cell
  <2>1. 3 + la \in 1..n /\ 4 + la \in 1..n
    BY <1>1, <1>2, <1>4
  <2> QED BY <1>2, <2>1
<1>6. /\ ld \in Nat /\ ld < BYTE * BYTE
      /\ ld % BYTE = c[3 + la] /\ (ld \div BYTE) % BYTE = c[4 + la]
  <2>1. \A lo, hi \in Cell : /\ (lo + BYTE * hi) % BYTE = lo
                             /\ ((lo + BYTE * hi) \div BYTE) % BYTE = hi
                             /\ lo + BYTE * hi \in Nat
                             /\ lo + BYTE * hi < BYTE * BYTE
    BY <1>3, TwoCells DEF Cell
  <2> QED BY <1>5, <2>1
<1> HIDE DEF ld
<1>7. /\ 2 \in 0..n /\ 2 + la \in 2..n /\ 4 + la \in (2 + la)..n
      /\ 4 + la + ld \in (4 + la)..n
      /\ 2 + la \in 0..n /\ 4 + la \in 0..n /\ 4 + la + ld \in 0..n /\ n \in 0..n
  BY <1>1, <1>2, <1>4, <1>6
<1> DEFINE Part(x1, y1) == SubSeq(c, x1 + 1, y1)
<1>8. /\ SubSeq(c, 1, 2) \o Part(2, 2 + la) \o Part(2 + la, 4 + la)
         \o Part(4 + la, 4 + la + ld) \o Part(4 + la + ld, n) = c
      /\ \A x1, y1 \in 0..n : x1 <= y1 => Part(x1, y1) \in Seq(Cell) /\ Len(Part(x1, y1)) = y1 - x1
  BY <1>7, CutInFive
<1>9. /\ Part(2, 2 + la) = a /\ Part(4 + la, 4 + la + ld) = d /\ Part(4 + la + ld, n) = s
      /\ Part(2 + la, 4 + la) = SubSeq(c, 3 + la, (3 + la) + 1)
  <2>1. /\ 2 + 1 = 3 /\ (2 + la) + 1 = 3 + la /\ (4 + la) + 1 = 5 + la
        /\ (4 + la + ld) + 1 = 5 + la + ld /\ (3 + la) + 1 = 4 + la
    BY <1>4, <1>6
  <2> QED BY <2>1
<1>10. a \in Seq(Cell) /\ Len(a) = la /\ d \in Seq(Cell) /\ Len(d) = ld /\ s \in Seq(Cell)
  <2>1. /\ 2 <= 2 + la /\ 4 + la <= 4 + la + ld /\ 4 + la + ld <= n
        /\ (2 + la) - 2 = la /\ (4 + la + ld) - (4 + la) = ld
    BY <1>1, <1>2, <1>4, <1>6
  <2> HIDE DEF a, d, s, Part
  <2>2. Part(2, 2 + la) \in Seq(Cell) /\ Len(Part(2, 2 + la)) = (2 + la) - 2
    BY <1>7, <1>8, <2>1
  <2>3. Part(4 + la, 4 + la + ld) \in Seq(Cell) /\ Len(Part(4 + la, 4 + la + ld)) = (4 + la + ld) - (4 + la)
    BY <1>7, <1>8, <2>1
  <2>4. Part(4 + la + ld, n) \in Seq(Cell)
    BY <1>7, <1>8, <2>1
  <2> QED BY <1>9, <2>1, <2>2, <2>3, <2>4
<1>11. ReadInstruction(c) = [item |-> x, rest |-> s]
  <2>1. /\ 3 + la - 1 = 2 + la /\ (5 + la) + ld - 1 = 4 + la + ld
        /\ (4 + la + ld) + 1 = 5 + la + ld
    BY <1>4, <1>6
  <2>2. Take(c, 3, la) = a /\ Take(c, 5 + la, ld) = d /\ After(c, 4 + la + ld) = s
    BY <2>1 DEF Take, After
  <2>3. ReadInstruction(c) = [item |-> [program_id_index |-> c[1],
                                        account_indexes |-> Take(c, 3, la),
                                        data |-> Take(c, 5 + la, ld)],
                              rest |-> After(c, 4 + la + ld)]
    BY <1>1 DEF la, ld
  <2> QED BY <2>2, <2>3
<1>12. SubSeq(c, 1, 2) = <<c[1], la>> /\ Part(2 + la, 4 + la) = <<c[3 + la], c[4 + la]>>
  <2>1. 1 \in 1..n /\ 1 + 1 <= n /\ 1 + 1 = 2
        /\ 3 + la \in 1..n /\ (3 + la) + 1 <= n /\ (3 + la) + 1 = 4 + la
    BY <1>1, <1>2, <1>4
  <2>2. SubSeq(c, 1, 1 + 1) = <<c[1], c[1 + 1]>>
    BY <2>1, PairAt
  <2>3. SubSeq(c, 3 + la, (3 + la) + 1) = <<c[3 + la], c[(3 + la) + 1]>>
    BY <2>1, PairAt
  <2> HIDE DEF Part
  <2> QED BY <1>9, <2>1, <2>2, <2>3 DEF la
<1>13. Length(a) = la /\ DataLength(d) = <<c[3 + la], c[4 + la]>>
  <2>1. Length(a) = la
    BY <1>4, <1>10, CellTypes
  <2>2. Length(d) = c[3 + la] /\ (Len(d) \div BYTE) % BYTE = c[4 + la]
    BY <1>6, <1>10 DEF Length
  <2> QED BY <2>1, <2>2 DEF DataLength
<1> HIDE DEF a, d, s, Part
<1>14. c = <<c[1], la>> \o a \o <<c[3 + la], c[4 + la]>> \o d \o s
  BY <1>8, <1>9, <1>12
<1>15. EncodeItem("instruction", x) = <<c[1], la>> \o a \o <<c[3 + la], c[4 + la]>> \o d
  BY <1>13 DEF EncodeItem
<1>16. x \in Item("instruction")
  BY <1>4, <1>10 DEF Item, Instruction
<1>17. ItemFits("instruction", x)
  BY <1>4, <1>6, <1>10 DEF ItemFits
<1> HIDE DEF x
<1>18. ReadsBack("instruction", c, [item |-> x, rest |-> s])
  BY <1>10, <1>14, <1>15, <1>16, <1>17 DEF ReadsBack
<1> QED BY <1>11, <1>18

\* So does a lookup.
LEMMA LookupBack ==
    ASSUME NEW c \in Seq(Cell), ReadLookup(c) # Err
    PROVE  ReadsBack("lookup", c, ReadLookup(c))
<1> DEFINE n == Len(c)
           la == c[2]
           ld == c[3 + la]
           a == SubSeq(c, 3, 2 + la)
           d == SubSeq(c, 4 + la, 3 + la + ld)
           s == SubSeq(c, 4 + la + ld, n)
           x == [account_key |-> c[1], writable_indexes |-> a, readonly_indexes |-> d]
<1>1. /\ ~(n < 2) /\ ~(n < 3 + la) /\ ~(n < 3 + la + ld)
      /\ ReadLookup(c) = [item |-> [account_key |-> c[1],
                                    writable_indexes |-> Take(c, 3, la),
                                    readonly_indexes |-> Take(c, 4 + la, ld)],
                          rest |-> After(c, 3 + la + ld)]
  BY DEF ReadLookup
<1>2. n \in Nat /\ \A i \in 1..n : c[i] \in Cell
  BY LenProperties, ElementOfSeq
<1>3. BYTE \in Nat \ {0}
  BY CellTypes
<1>4. c[1] \in Cell /\ la \in Cell /\ la \in Nat /\ la < BYTE
  <2>1. 1 \in 1..n /\ 2 \in 1..n
    BY <1>1, <1>2
  <2>2. c[1] \in Cell /\ la \in Cell
    BY <1>2, <2>1
  <2> QED BY <1>3, <2>2 DEF Cell
<1> HIDE DEF la
<1>5. ld \in Cell /\ ld \in Nat /\ ld < BYTE
  <2>1. 3 + la \in 1..n
    BY <1>1, <1>2, <1>4
  <2>2. ld \in Cell
    BY <1>2, <2>1
  <2> QED BY <1>3, <2>2 DEF Cell
<1>6. c[3 + la] = ld
  OBVIOUS
<1> HIDE DEF ld
<1>7. /\ 2 \in 0..n /\ 2 + la \in 2..n /\ 3 + la \in (2 + la)..n
      /\ 3 + la + ld \in (3 + la)..n
      /\ 2 + la \in 0..n /\ 3 + la \in 0..n /\ 3 + la + ld \in 0..n /\ n \in 0..n
  BY <1>1, <1>2, <1>4, <1>5
<1> DEFINE Part(x1, y1) == SubSeq(c, x1 + 1, y1)
<1>8. /\ SubSeq(c, 1, 2) \o Part(2, 2 + la) \o Part(2 + la, 3 + la)
         \o Part(3 + la, 3 + la + ld) \o Part(3 + la + ld, n) = c
      /\ \A x1, y1 \in 0..n : x1 <= y1 => Part(x1, y1) \in Seq(Cell) /\ Len(Part(x1, y1)) = y1 - x1
  BY <1>7, CutInFive
<1>9. /\ Part(2, 2 + la) = a /\ Part(3 + la, 3 + la + ld) = d /\ Part(3 + la + ld, n) = s
      /\ Part(2 + la, 3 + la) = SubSeq(c, 3 + la, 3 + la)
  <2>1. /\ 2 + 1 = 3 /\ (2 + la) + 1 = 3 + la /\ (3 + la) + 1 = 4 + la
        /\ (3 + la + ld) + 1 = 4 + la + ld
    BY <1>4, <1>5
  <2> QED BY <2>1
<1>10. a \in Seq(Cell) /\ Len(a) = la /\ d \in Seq(Cell) /\ Len(d) = ld /\ s \in Seq(Cell)
  <2>1. /\ 2 <= 2 + la /\ 3 + la <= 3 + la + ld /\ 3 + la + ld <= n
        /\ (2 + la) - 2 = la /\ (3 + la + ld) - (3 + la) = ld
    BY <1>1, <1>2, <1>4, <1>5
  <2> HIDE DEF a, d, s, Part
  <2>2. Part(2, 2 + la) \in Seq(Cell) /\ Len(Part(2, 2 + la)) = (2 + la) - 2
    BY <1>7, <1>8, <2>1
  <2>3. Part(3 + la, 3 + la + ld) \in Seq(Cell) /\ Len(Part(3 + la, 3 + la + ld)) = (3 + la + ld) - (3 + la)
    BY <1>7, <1>8, <2>1
  <2>4. Part(3 + la + ld, n) \in Seq(Cell)
    BY <1>7, <1>8, <2>1
  <2> QED BY <1>9, <2>1, <2>2, <2>3, <2>4
<1>11. ReadLookup(c) = [item |-> x, rest |-> s]
  <2>1. /\ 3 + la - 1 = 2 + la /\ (4 + la) + ld - 1 = 3 + la + ld
        /\ (3 + la + ld) + 1 = 4 + la + ld
    BY <1>4, <1>5
  <2>2. Take(c, 3, la) = a /\ Take(c, 4 + la, ld) = d /\ After(c, 3 + la + ld) = s
    BY <2>1 DEF Take, After
  <2>3. ReadLookup(c) = [item |-> [account_key |-> c[1],
                                   writable_indexes |-> Take(c, 3, la),
                                   readonly_indexes |-> Take(c, 4 + la, ld)],
                         rest |-> After(c, 3 + la + ld)]
    BY <1>1 DEF la, ld
  <2> QED BY <2>2, <2>3
<1>12. SubSeq(c, 1, 2) = <<c[1], la>> /\ Part(2 + la, 3 + la) = <<ld>>
  <2>1. 1 \in 1..n /\ 1 + 1 <= n /\ 1 + 1 = 2 /\ 3 + la \in 1..n
    BY <1>1, <1>2, <1>4
  <2>2. SubSeq(c, 1, 1 + 1) = <<c[1], c[1 + 1]>>
    BY <2>1, PairAt
  <2>3. SubSeq(c, 3 + la, 3 + la) = <<c[3 + la]>>
    BY <2>1, PairAt
  <2> HIDE DEF Part
  <2> QED BY <1>6, <1>9, <2>1, <2>2, <2>3 DEF la
<1>13. Length(a) = la /\ Length(d) = ld
  BY <1>4, <1>5, <1>10, CellTypes
<1> HIDE DEF a, d, s, Part
<1>14. c = <<c[1], la>> \o a \o <<ld>> \o d \o s
  BY <1>8, <1>9, <1>12
<1>15. EncodeItem("lookup", x) = <<c[1], la>> \o a \o <<ld>> \o d
  BY <1>13 DEF EncodeItem
<1>16. x \in Item("lookup")
  BY <1>4, <1>10 DEF Item, Lookup
<1>17. ItemFits("lookup", x)
  BY <1>4, <1>5, <1>10 DEF ItemFits
<1> HIDE DEF x
<1>18. ReadsBack("lookup", c, [item |-> x, rest |-> s])
  BY <1>10, <1>14, <1>15, <1>16, <1>17 DEF ReadsBack
<1> QED BY <1>11, <1>18

\* The same of either kind of item.
LEMMA ItemForward ==
    ASSUME NEW kind \in Kind, NEW x \in Item(kind), ItemFits(kind, x), NEW s \in Seq(Cell)
    PROVE  ReadItem(kind, EncodeItem(kind, x) \o s) = [item |-> x, rest |-> s]
<1>1. CASE kind = "instruction"
  <2>1. x \in Instruction
    BY <1>1 DEF Item
  <2>2. ReadInstruction(EncodeItem("instruction", x) \o s) = [item |-> x, rest |-> s]
    BY <1>1, <2>1, InstructionForward
  <2> QED BY <1>1, <2>2 DEF ReadItem
<1>2. CASE kind = "lookup"
  <2>1. x \in Lookup
    BY <1>2 DEF Item
  <2>2. ReadLookup(EncodeItem("lookup", x) \o s) = [item |-> x, rest |-> s]
    BY <1>2, <2>1, LookupForward
  <2> QED BY <1>2, <2>2 DEF ReadItem
<1> QED BY <1>1, <1>2 DEF Kind

\* Either kind of item, written out, gives the cells it was read from.
LEMMA ItemBack ==
    ASSUME NEW kind \in Kind, NEW c \in Seq(Cell), ReadItem(kind, c) # Err
    PROVE  ReadsBack(kind, c, ReadItem(kind, c))
<1>1. CASE kind = "instruction"
  BY <1>1, InstructionBack DEF ReadItem
<1>2. CASE kind = "lookup"
  BY <1>2, LookupBack DEF ReadItem
<1> QED BY <1>1, <1>2 DEF Kind

\* An item is written as cells.
LEMMA ItemCells ==
    ASSUME NEW kind \in Kind, NEW x \in Item(kind)
    PROVE  EncodeItem(kind, x) \in Seq(Cell)
<1>1. CASE kind = "instruction"
  <2> DEFINE a == x.account_indexes
             d == x.data
             p == <<x.program_id_index, Length(a)>>
             q == DataLength(d)
  <2>1. x.program_id_index \in Cell /\ a \in Seq(Cell) /\ d \in Seq(Cell)
    BY <1>1 DEF Item, Instruction
  <2>2. Len(a) \in Nat /\ Len(d) \in Nat
    BY <2>1, LenProperties
  <2>3. Length(a) \in Cell /\ q \in Seq(Cell)
    BY <2>2, CellTypes
  <2>4. p \in Seq(Cell)
    BY <2>1, <2>3
  <2> HIDE DEF a, d, p, q
  <2>5. p \o a \o q \o d \in Seq(Cell)
    BY <2>1, <2>3, <2>4, ConcatProperties
  <2> QED BY <1>1, <2>5 DEF EncodeItem, a, d, p, q
<1>2. CASE kind = "lookup"
  <2> DEFINE a == x.writable_indexes
             d == x.readonly_indexes
             p == <<x.account_key, Length(a)>>
             q == <<Length(d)>>
  <2>1. x.account_key \in Cell /\ a \in Seq(Cell) /\ d \in Seq(Cell)
    BY <1>2 DEF Item, Lookup
  <2>2. Len(a) \in Nat /\ Len(d) \in Nat
    BY <2>1, LenProperties
  <2>3. Length(a) \in Cell /\ Length(d) \in Cell
    BY <2>2, CellTypes
  <2>4. p \in Seq(Cell) /\ q \in Seq(Cell)
    BY <2>1, <2>3
  <2> HIDE DEF a, d, p, q
  <2>5. p \o a \o q \o d \in Seq(Cell)
    BY <2>1, <2>4, ConcatProperties
  <2> QED BY <1>2, <2>5 DEF EncodeItem, a, d, p, q
<1> QED BY <1>1, <1>2 DEF Kind

(***************************************************************************)
(* Items one after the other.                                              *)
(***************************************************************************)
Parts(kind, items) == [i \in DOMAIN items |-> EncodeItem(kind, items[i])]

\* The items of a message are encoded one by one.
LEMMA PartsCells ==
    ASSUME NEW kind \in Kind, NEW items \in Seq(Item(kind))
    PROVE  /\ Parts(kind, items) \in Seq(Seq(Cell))
           /\ Len(Parts(kind, items)) = Len(items)
           /\ \A i \in 1..Len(items) : Parts(kind, items)[i] = EncodeItem(kind, items[i])
           /\ EncodeAll(kind, items) = FlattenSeq(Parts(kind, items))
           /\ EncodeAll(kind, items) \in Seq(Cell)
<1> DEFINE n == Len(items)
<1>1. n \in Nat /\ DOMAIN items = 1..n /\ \A i \in 1..n : items[i] \in Item(kind)
  BY LenProperties, ElementOfSeq
<1>2. \A i \in 1..n : EncodeItem(kind, items[i]) \in Seq(Cell)
  BY <1>1, ItemCells
<1> HIDE DEF n
<1>3. Parts(kind, items) = [i \in 1..n |-> EncodeItem(kind, items[i])]
  BY <1>1 DEF Parts
<1> DEFINE p == Parts(kind, items)
<1> HIDE DEF p
<1>4. p \in [1..n -> Seq(Cell)]
  BY <1>2, <1>3 DEF p
<1>5. p \in Seq(Seq(Cell)) /\ Len(p) = n
  BY <1>1, <1>4, IsASeq
<1>6. FlattenSeq(p) \in Seq(Cell)
  BY <1>5, FlattenAt
<1> QED BY <1>3, <1>5, <1>6 DEF p, EncodeAll, Parts, n

\* One more item adds its encoding at the end.
LEMMA EncodeAppend ==
    ASSUME NEW kind \in Kind, NEW items \in Seq(Item(kind)), NEW x \in Item(kind)
    PROVE  EncodeAll(kind, Append(items, x)) = EncodeAll(kind, items) \o EncodeItem(kind, x)
<1> DEFINE more == Append(items, x)
           p == Parts(kind, items)
           q == Parts(kind, more)
           v == EncodeItem(kind, x)
           n == Len(items)
<1>1. /\ more \in Seq(Item(kind)) /\ Len(more) = n + 1 /\ more[n + 1] = x
      /\ \A i \in 1..n : more[i] = items[i]
  BY AppendProperties
<1>2. n \in Nat
  BY LenProperties
<1> HIDE DEF more, n
<1>3. /\ p \in Seq(Seq(Cell)) /\ Len(p) = n /\ EncodeAll(kind, items) = FlattenSeq(p)
      /\ \A i \in 1..n : p[i] = EncodeItem(kind, items[i])
  BY PartsCells DEF n
<1>4. /\ q \in Seq(Seq(Cell)) /\ Len(q) = n + 1 /\ EncodeAll(kind, more) = FlattenSeq(q)
      /\ \A i \in 1..(n + 1) : q[i] = EncodeItem(kind, more[i])
  BY <1>1, PartsCells
<1>5. v \in Seq(Cell)
  BY ItemCells
<1> HIDE DEF p, q, v
<1>6. /\ Append(p, v) \in Seq(Seq(Cell)) /\ Len(Append(p, v)) = n + 1
      /\ Append(p, v)[n + 1] = v /\ \A i \in 1..n : Append(p, v)[i] = p[i]
  BY <1>3, <1>5, AppendProperties
<1>7. ASSUME NEW i \in 1..(n + 1) PROVE q[i] = Append(p, v)[i]
  <2>1. CASE i = n + 1
    BY <1>1, <1>4, <1>6, <2>1 DEF v
  <2>2. CASE i # n + 1
    <3>1. i \in 1..n
      BY <1>2, <2>2
    <3> QED BY <1>1, <1>3, <1>4, <1>6, <3>1
  <2> QED BY <2>1, <2>2
<1>8. q = Append(p, v)
  BY <1>4, <1>6, <1>7, SeqEqual
<1>9. FlattenSeq(Append(p, v)) = FlattenSeq(p) \o v
  BY <1>3, <1>5, FlattenAppend
<1> QED BY <1>3, <1>4, <1>8, <1>9 DEF more, v

\* How far reading has come: the items so far and the cells left.
Got(kind) == [items : Seq(Item(kind)), rest : Seq(Cell)]
Reads(kind, n, cells, read) ==
    /\ read[0] = [items |-> <<>>, rest |-> cells]
    /\ \A k \in 1..n : read[k] = ReadNext(kind, read[k - 1])

\* What has been read is no error.
LEMMA GotNotErr ==
    ASSUME NEW kind \in Kind
    PROVE  /\ Err \notin Got(kind)
           /\ \A i \in Item(kind), s \in Seq(Cell) : [item |-> i, rest |-> s] # Err
<1>1. Item(kind) \subseteq Instruction \cup Lookup
  BY DEF Item
<1>2. Seq(Item(kind)) \subseteq Seq(Instruction) \cup Seq(Lookup)
  BY DEF Item
<1>3. Got(kind) \subseteq [items : Seq(Instruction) \cup Seq(Lookup), rest : Seq(Cell)]
  BY <1>2 DEF Got
<1>4. \A i \in Item(kind), s \in Seq(Cell) :
         [item |-> i, rest |-> s] \in [item : Instruction \cup Lookup, rest : Seq(Cell)]
  BY <1>1
<1> QED BY <1>3, <1>4, ErrAssumption

\* Reading one more item yields a longer list or an error.
LEMMA NextGot ==
    ASSUME NEW kind \in Kind, NEW g \in Got(kind) \cup {Err}
    PROVE  ReadNext(kind, g) \in Got(kind) \cup {Err}
<1>1. CASE g = Err
  BY <1>1 DEF ReadNext
<1>2. CASE g # Err
  <2> DEFINE r == ReadItem(kind, g.rest)
  <2>1. g.items \in Seq(Item(kind)) /\ g.rest \in Seq(Cell)
    BY <1>2 DEF Got
  <2>2. CASE r = Err
    BY <1>2, <2>2 DEF ReadNext
  <2>3. CASE r # Err
    <3>1. ReadsBack(kind, g.rest, r)
      BY <2>1, <2>3, ItemBack
    <3>2. r.item \in Item(kind) /\ r.rest \in Seq(Cell)
      BY <3>1 DEF ReadsBack
    <3>3. Append(g.items, r.item) \in Seq(Item(kind))
      BY <2>1, <3>2, AppendProperties
    <3>4. ReadNext(kind, g) = [items |-> Append(g.items, r.item), rest |-> r.rest]
      BY <1>2, <2>3 DEF ReadNext
    <3> HIDE DEF r
    <3> QED BY <3>2, <3>3, <3>4 DEF Got
  <2> QED BY <2>2, <2>3
<1> QED BY <1>1, <1>2

\* The walk over the items exists, and ReadAll is where it ends.
LEMMA ReadAllRuns ==
    ASSUME NEW kind \in Kind, NEW n \in Nat, NEW cells \in Seq(Cell)
    PROVE  \E read \in [0..n -> Got(kind) \cup {Err}] :
               Reads(kind, n, cells, read) /\ ReadAll(kind, n, cells) = read[n]
<1> DEFINE S == Got(kind) \cup {Err}
           base == [items |-> <<>>, rest |-> cells]
           step == [p \in (1..n) \X S |-> ReadNext(kind, p[2])]
           Makes(f) == f = [k \in 0..n |-> IF k = 0 THEN base ELSE ReadNext(kind, f[k - 1])]
<1>1. base \in S
  <2>1. <<>> \in Seq(Item(kind))
    BY EmptySeq
  <2> QED BY <2>1 DEF Got
<1>2. \A g \in S : ReadNext(kind, g) \in S
  BY NextGot
<1> HIDE DEF S
<1>3. step \in [(1..n) \X S -> S]
  BY <1>2
<1> HIDE DEF base
<1>4. PICK f \in [0..n -> S] : Runs(f, n, base, step)
  <2> HIDE DEF step
  <2> QED BY <1>1, <1>3, RunExists
<1>5. f[0] = base /\ \A k \in 1..n : f[k] = ReadNext(kind, f[k - 1])
  <2>1. ASSUME NEW k \in 1..n PROVE f[k] = ReadNext(kind, f[k - 1])
    <3>1. k - 1 \in 0..n
      OBVIOUS
    <3>2. <<k, f[k - 1]>> \in (1..n) \X S
      BY <3>1
    <3>3. step[<<k, f[k - 1]>>] = ReadNext(kind, f[k - 1])
      BY <3>2
    <3> HIDE DEF step
    <3> QED BY <1>4, <3>3 DEF Runs
  <2> HIDE DEF step
  <2> QED BY <1>4, <2>1 DEF Runs
<1> HIDE DEF step
<1>6. Makes(f)
  <2>1. ASSUME NEW k \in 0..n PROVE f[k] = IF k = 0 THEN base ELSE ReadNext(kind, f[k - 1])
    <3>1. k # 0 => k \in 1..n
      OBVIOUS
    <3> QED BY <1>5, <3>1
  <2> QED BY <2>1
<1> DEFINE read == CHOOSE g : Makes(g)
<1>7. Makes(read)
  <2> HIDE DEF Makes
  <2> QED BY <1>6
<1>8. ReadAll(kind, n, cells) = read[n]
  BY DEF ReadAll, base
<1> HIDE DEF read
<1>9. DOMAIN read = 0..n /\ read[0] = base /\ \A k \in 1..n : read[k] = ReadNext(kind, read[k - 1])
  <2>1. 0 \in 0..n /\ \A k \in 1..n : k \in 0..n /\ k # 0
    OBVIOUS
  <2> QED BY <1>7, <2>1
<1> DEFINE Good(k) == read[k] \in S
<1>10. \A k \in 0..n : Good(k)
  <2>1. Good(0)
    BY <1>1, <1>9
  <2>2. ASSUME NEW k \in 1..n, Good(k - 1) PROVE Good(k)
    BY <1>2, <1>9, <2>2
  <2> HIDE DEF Good
  <2> DEFINE T == {k \in 0..n : ~Good(k)}
  <2> SUFFICES ASSUME T # {} PROVE FALSE
    OBVIOUS
  <2>3. PICK k \in T : \A y \in T : k <= y
    <3>1. T \in SUBSET Nat
      OBVIOUS
    <3> HIDE DEF T
    <3> QED BY <3>1, Least
  <2>4. k # 0
    BY <2>1, <2>3
  <2>5. k \in 1..n /\ k - 1 \in 0..n /\ ~(k <= k - 1)
    BY <2>3, <2>4
  <2> QED BY <2>2, <2>3, <2>5
<1>11. read \in [0..n -> S]
  <2>1. read = [k \in 0..n |-> read[k]]
    BY <1>7
  <2> QED BY <1>10, <2>1
<1>12. Reads(kind, n, cells, read)
  BY <1>9 DEF Reads, base
<1> QED BY <1>8, <1>11, <1>12 DEF S

\* From the first to the last, one at a time.
LEMMA Climb ==
    ASSUME NEW n \in Nat, NEW G, 0 \in G, \A k \in 1..n : k - 1 \in G => k \in G
    PROVE  \A k \in 0..n : k \in G
<1> DEFINE T == {k \in 0..n : k \notin G}
<1> SUFFICES ASSUME T # {} PROVE FALSE
  OBVIOUS
<1>1. PICK k \in T : \A y \in T : k <= y
  <2>1. T \in SUBSET Nat
    OBVIOUS
  <2> HIDE DEF T
  <2> QED BY <2>1, Least
<1>2. k \in 1..n /\ k - 1 \in 0..n /\ ~(k <= k - 1)
  BY <1>1
<1> QED BY <1>1, <1>2

\* The first items, and one more.
LEMMA PrefixGrows ==
    ASSUME NEW S, NEW s \in Seq(S), NEW k \in 1..Len(s)
    PROVE  /\ SubSeq(s, 1, k - 1) \in Seq(S) /\ Len(SubSeq(s, 1, k - 1)) = k - 1
           /\ s[k] \in S
           /\ SubSeq(s, 1, k) = Append(SubSeq(s, 1, k - 1), s[k])
<1> DEFINE r == SubSeq(s, 1, k - 1)
<1>1. Len(s) \in Nat /\ \A i \in 1..Len(s) : s[i] \in S
  BY LenProperties, ElementOfSeq
<1>2. r \in Seq(S) /\ Len(r) = IF 1 <= k - 1 THEN (k - 1) - 1 + 1 ELSE 0
  <2>1. 1 \in Int /\ k - 1 \in Int /\ \A i \in 1..(k - 1) : s[i] \in S
    BY <1>1
  <2> QED BY <2>1, SubSeqProperties
<1>3. SubSeq(s, 1, k) = r \o <<s[k]>>
  <2>1. 1 \in 1..Len(s) /\ k \in 1..Len(s)
    BY <1>1
  <2> QED BY <2>1, SubSeqRecursiveSecond
<1> HIDE DEF r
<1>4. Append(r, s[k]) = r \o <<s[k]>>
  BY <1>1, <1>2, AppendIsConcat
<1>5. Len(r) = k - 1
  BY <1>1, <1>2
<1> QED BY <1>1, <1>2, <1>3, <1>4, <1>5 DEF r

AllReadBack(kind, k, cells, r) ==
    /\ r.items \in Seq(Item(kind)) /\ Len(r.items) = k
    /\ r.rest \in Seq(Cell)
    /\ \A i \in 1..k : ItemFits(kind, r.items[i])
    /\ cells = EncodeAll(kind, r.items) \o r.rest

\* No items take no cells.
LEMMA EncodeNone ==
    ASSUME NEW kind \in Kind
    PROVE  EncodeAll(kind, <<>>) = <<>>
<1>1. <<>> \in Seq(Item(kind)) /\ Len(<<>>) = 0
  BY EmptySeq
<1> DEFINE p == Parts(kind, <<>>)
<1>2. p \in Seq(Seq(Cell)) /\ Len(p) = 0 /\ EncodeAll(kind, <<>>) = FlattenSeq(p)
  BY <1>1, PartsCells
<1> HIDE DEF p
<1>3. Total(p)[0] = 0
  BY <1>2, TotalSteps
<1>4. FlattenSeq(p) \in Seq(Cell) /\ Len(FlattenSeq(p)) = 0
  BY <1>2, <1>3, FlattenAt
<1> QED BY <1>2, <1>4, EmptySeq

\* Items that were read, written out, give the cells they were read from.
LEMMA ReadAllBack ==
    ASSUME NEW kind \in Kind, NEW n \in Nat, NEW cells \in Seq(Cell),
           ReadAll(kind, n, cells) # Err
    PROVE  AllReadBack(kind, n, cells, ReadAll(kind, n, cells))
<1>1. PICK read \in [0..n -> Got(kind) \cup {Err}] :
          Reads(kind, n, cells, read) /\ ReadAll(kind, n, cells) = read[n]
  BY ReadAllRuns
<1> DEFINE Good(k) == read[k] # Err => AllReadBack(kind, k, cells, read[k])
           G == {k \in 0..n : Good(k)}
<1>2. read[0] = [items |-> <<>>, rest |-> cells] /\ \A k \in 1..n : read[k] = ReadNext(kind, read[k - 1])
  BY <1>1 DEF Reads
<1>3. Good(0)
  <2>1. read[0].items = <<>> /\ read[0].rest = cells
    BY <1>2
  <2>2. <<>> \in Seq(Item(kind)) /\ Len(<<>>) = 0
    BY EmptySeq
  <2>3. cells = EncodeAll(kind, <<>>) \o cells
    BY EncodeNone, ConcatEmptySeq
  <2>4. \A i \in 1..0 : ItemFits(kind, read[0].items[i])
    OBVIOUS
  <2> QED BY <2>1, <2>2, <2>3, <2>4 DEF AllReadBack
<1>4. ASSUME NEW k \in 1..n, Good(k - 1) PROVE Good(k)
  <2> SUFFICES ASSUME read[k] # Err PROVE AllReadBack(kind, k, cells, read[k])
    OBVIOUS
  <2> DEFINE g == read[k - 1]
             r == ReadItem(kind, g.rest)
  <2>1. g # Err /\ r # Err /\ read[k] = [items |-> Append(g.items, r.item), rest |-> r.rest]
    BY <1>2 DEF ReadNext
  <2>2. AllReadBack(kind, k - 1, cells, g)
    BY <1>4, <2>1
  <2> HIDE DEF g
  <2>3. /\ g.items \in Seq(Item(kind)) /\ Len(g.items) = k - 1 /\ g.rest \in Seq(Cell)
        /\ cells = EncodeAll(kind, g.items) \o g.rest
        /\ \A i \in 1..(k - 1) : ItemFits(kind, g.items[i])
    BY <2>2 DEF AllReadBack
  <2>4. ReadsBack(kind, g.rest, r)
    BY <2>1, <2>3, ItemBack
  <2> HIDE DEF r
  <2>5. /\ r.item \in Item(kind) /\ r.rest \in Seq(Cell) /\ ItemFits(kind, r.item)
        /\ g.rest = EncodeItem(kind, r.item) \o r.rest
    BY <2>4 DEF ReadsBack
  <2> DEFINE its == Append(g.items, r.item)
  <2>6. /\ its \in Seq(Item(kind)) /\ Len(its) = (k - 1) + 1 /\ its[(k - 1) + 1] = r.item
        /\ \A i \in 1..(k - 1) : its[i] = g.items[i]
    BY <2>3, <2>5, AppendProperties
  <2>7. EncodeAll(kind, its) = EncodeAll(kind, g.items) \o EncodeItem(kind, r.item)
    BY <2>3, <2>5, EncodeAppend
  <2> HIDE DEF its
  <2>8. cells = EncodeAll(kind, its) \o r.rest
    <3>1. EncodeAll(kind, g.items) \in Seq(Cell) /\ EncodeItem(kind, r.item) \in Seq(Cell)
      BY <2>3, <2>5, PartsCells, ItemCells
    <3>2. Regroups(EncodeAll(kind, g.items), EncodeItem(kind, r.item), r.rest)
      BY <2>5, <3>1, Regroup
    <3> QED BY <2>3, <2>5, <2>7, <3>2 DEF Regroups
  <2>9. ASSUME NEW i \in 1..k PROVE ItemFits(kind, its[i])
    <3>1. CASE i = k
      <4>1. (k - 1) + 1 = k
        OBVIOUS
      <4> QED BY <2>5, <2>6, <3>1, <4>1
    <3>2. CASE i # k
      <4>1. i \in 1..(k - 1)
        BY <3>2
      <4> QED BY <2>3, <2>6, <4>1
    <3> QED BY <3>1, <3>2
  <2>10. read[k].items = its /\ read[k].rest = r.rest /\ (k - 1) + 1 = k
    BY <2>1 DEF its
  <2> QED BY <2>5, <2>6, <2>8, <2>9, <2>10 DEF AllReadBack
<1> HIDE DEF Good
<1>5. 0 \in G /\ \A k \in 1..n : k - 1 \in G => k \in G
  BY <1>3, <1>4
<1>6. n \in G
  <2> HIDE DEF G
  <2>1. n \in 0..n
    OBVIOUS
  <2> QED BY <1>5, <2>1, Climb
<1> QED BY <1>1, <1>6 DEF Good

\* Items are read as they were written, whatever follows them.
LEMMA ReadAllForward ==
    ASSUME NEW kind \in Kind, NEW items \in Seq(Item(kind)), NEW s \in Seq(Cell),
           \A i \in 1..Len(items) : ItemFits(kind, items[i])
    PROVE  ReadAll(kind, Len(items), EncodeAll(kind, items) \o s) = [items |-> items, rest |-> s]
<1> DEFINE n == Len(items)
           cells == EncodeAll(kind, items) \o s
           First(k) == SubSeq(items, 1, k)
           Code(k) == EncodeAll(kind, First(k))
<1>1. n \in Nat /\ First(n) = items /\ First(0) = <<>>
  BY LenProperties, SubSeqFull, SubSeqEmpty
<1>2. \A k \in 0..n : First(k) \in Seq(Item(kind)) /\ Code(k) \in Seq(Cell)
  <2> SUFFICES ASSUME NEW k \in 0..n PROVE First(k) \in Seq(Item(kind)) /\ Code(k) \in Seq(Cell)
    OBVIOUS
  <2>1. First(k) \in Seq(Item(kind))
    <3>1. k \in Int /\ 1 \in Int
      BY <1>1
    <3>2. \A i \in 1..k : items[i] \in Item(kind)
      <4> SUFFICES ASSUME NEW i \in 1..k PROVE items[i] \in Item(kind)
        OBVIOUS
      <4>1. i \in 1..Len(items)
        BY <1>1
      <4> QED BY <4>1, ElementOfSeq
    <3> QED BY <3>1, <3>2, SubSeqProperties
  <2> HIDE DEF First
  <2> QED BY <2>1, PartsCells
<1>3. \A k \in 1..n : /\ First(k) = Append(First(k - 1), items[k]) /\ items[k] \in Item(kind)
                      /\ EncodeItem(kind, items[k]) \in Seq(Cell)
                      /\ Code(k) = Code(k - 1) \o EncodeItem(kind, items[k])
  <2> SUFFICES ASSUME NEW k \in 1..n
               PROVE  /\ First(k) = Append(First(k - 1), items[k]) /\ items[k] \in Item(kind)
                      /\ EncodeItem(kind, items[k]) \in Seq(Cell)
                      /\ Code(k) = Code(k - 1) \o EncodeItem(kind, items[k])
    OBVIOUS
  <2>1. First(k - 1) \in Seq(Item(kind)) /\ items[k] \in Item(kind) /\ First(k) = Append(First(k - 1), items[k])
    BY PrefixGrows
  <2> HIDE DEF First
  <2> QED BY <2>1, EncodeAppend, ItemCells
<1>4. cells \in Seq(Cell) /\ cells = Code(n) \o s
  <2> HIDE DEF First
  <2>1. Code(n) = EncodeAll(kind, items) /\ n \in 0..n
    BY <1>1
  <2>2. EncodeAll(kind, items) \in Seq(Cell)
    BY PartsCells
  <2> QED BY <2>1, <2>2, ConcatProperties
<1> HIDE DEF n, cells, First, Code
<1>5. ASSUME NEW k \in 0..n PROVE \E w \in Seq(Cell) : cells = Code(k) \o w
  <2> DEFINE Left(j) == \E w \in Seq(Cell) : cells = Code(n - j) \o w
             G == {j \in 0..n : Left(j)}
  <2>1. Left(0)
    <3>1. n - 0 = n
      BY <1>1
    <3>2. \E w \in Seq(Cell) : cells = Code(n) \o w
      BY <1>4
    <3> QED BY <3>1, <3>2
  <2>2. ASSUME NEW j \in 1..n, Left(j - 1) PROVE Left(j)
    <3> DEFINE i == n - (j - 1)
               e == EncodeItem(kind, items[i])
    <3>1. PICK w \in Seq(Cell) : cells = Code(i) \o w
      BY <2>2
    <3>2. i \in 1..n /\ i - 1 \in 0..n /\ i - 1 = n - j
      BY <1>1
    <3> HIDE DEF i
    <3>3. Code(i) = Code(i - 1) \o e /\ e \in Seq(Cell) /\ Code(i - 1) \in Seq(Cell)
      BY <1>2, <1>3, <3>2
    <3> HIDE DEF e
    <3>4. Regroups(Code(i - 1), e, w)
      BY <3>1, <3>3, Regroup
    <3>5. cells = Code(i - 1) \o (e \o w) /\ e \o w \in Seq(Cell)
      BY <3>1, <3>3, <3>4, ConcatProperties DEF Regroups
    <3> QED BY <3>2, <3>5
  <2> HIDE DEF Left
  <2>3. 0 \in G /\ \A j \in 1..n : j - 1 \in G => j \in G
    BY <1>1, <2>1, <2>2
  <2>4. n - k \in 0..n /\ n - (n - k) = k
    BY <1>1
  <2>5. n - k \in G
    <3> HIDE DEF G
    <3> QED BY <1>1, <2>3, <2>4, Climb
  <2> QED BY <2>4, <2>5 DEF Left
<1>6. PICK read \in [0..n -> Got(kind) \cup {Err}] :
          Reads(kind, n, cells, read) /\ ReadAll(kind, n, cells) = read[n]
  BY <1>1, <1>4, ReadAllRuns
<1>7. read[0] = [items |-> <<>>, rest |-> cells] /\ \A k \in 1..n : read[k] = ReadNext(kind, read[k - 1])
  BY <1>6 DEF Reads
<1> DEFINE Good(k) == \E w \in Seq(Cell) : cells = Code(k) \o w /\ read[k] = [items |-> First(k), rest |-> w]
           G == {k \in 0..n : Good(k)}
<1>8. Good(0)
  <2>1. Code(0) = <<>>
    BY <1>1, EncodeNone DEF Code
  <2>2. cells = Code(0) \o cells
    BY <1>4, <2>1, ConcatEmptySeq
  <2> QED BY <1>1, <1>4, <1>7, <2>2
<1>9. ASSUME NEW k \in 1..n, Good(k - 1) PROVE Good(k)
  <2> DEFINE e == EncodeItem(kind, items[k])
  <2>1. PICK w \in Seq(Cell) : cells = Code(k - 1) \o w /\ read[k - 1] = [items |-> First(k - 1), rest |-> w]
    BY <1>9
  <2>2. k \in 0..n /\ k - 1 \in 0..n
    BY <1>1
  <2>3. PICK v \in Seq(Cell) : cells = Code(k) \o v
    BY <1>5, <2>2
  <2>4. /\ Code(k) = Code(k - 1) \o e /\ e \in Seq(Cell) /\ Code(k - 1) \in Seq(Cell)
        /\ items[k] \in Item(kind) /\ First(k - 1) \in Seq(Item(kind))
        /\ First(k) = Append(First(k - 1), items[k])
    BY <1>2, <1>3, <2>2
  <2>5. ReadItem(kind, e \o v) = [item |-> items[k], rest |-> v]
    <3>1. ItemFits(kind, items[k])
      BY DEF n
    <3> QED BY <2>4, <3>1, ItemForward
  <2> HIDE DEF e
  <2>6. w = e \o v
    <3>1. Regroups(Code(k - 1), e, v)
      BY <2>4, Regroup
    <3>2. Code(k - 1) \o w = Code(k - 1) \o (e \o v) /\ e \o v \in Seq(Cell)
      BY <2>1, <2>3, <2>4, <3>1, ConcatProperties DEF Regroups
    <3> DEFINE ev == e \o v
               c0 == Code(k - 1)
    <3>3. c0 \o w = c0 \o ev /\ ev \in Seq(Cell) /\ c0 \in Seq(Cell)
      BY <2>4, <3>2
    <3> HIDE DEF ev, c0
    <3>4. w = ev
      BY <3>3, ConcatSimplifications
    <3> QED BY <3>4 DEF ev
  <2> DEFINE g == read[k - 1]
             r == [item |-> items[k], rest |-> v]
  <2>7. g # Err /\ g.items = First(k - 1) /\ g.rest = w
    <3>1. [items |-> First(k - 1), rest |-> w] \in Got(kind)
      BY <2>4 DEF Got
    <3>2. Err \notin Got(kind)
      BY GotNotErr
    <3> QED BY <2>1, <3>1, <3>2
  <2>8. ReadItem(kind, g.rest) = r /\ r # Err /\ r.item = items[k] /\ r.rest = v
    <3>1. r # Err
      BY <2>4, GotNotErr
    <3> QED BY <2>5, <2>6, <2>7, <3>1
  <2> HIDE DEF g, r
  <2>9. ReadNext(kind, g) = [items |-> Append(g.items, r.item), rest |-> r.rest]
    BY <2>7, <2>8 DEF ReadNext
  <2>10. read[k] = ReadNext(kind, g)
    BY <1>7 DEF g
  <2>11. read[k] = [items |-> First(k), rest |-> v]
    BY <2>4, <2>7, <2>8, <2>9, <2>10
  <2> QED BY <2>3, <2>11
<1> HIDE DEF Good
<1>10. 0 \in G /\ \A k \in 1..n : k - 1 \in G => k \in G
  BY <1>1, <1>8, <1>9
<1>11. Good(n)
  <2>1. n \in 0..n
    BY <1>1
  <2>2. n \in G
    <3> HIDE DEF G
    <3> QED BY <1>1, <1>10, <2>1, Climb
  <2> QED BY <2>2
<1>12. PICK w \in Seq(Cell) : cells = Code(n) \o w /\ read[n] = [items |-> First(n), rest |-> w]
  BY <1>11 DEF Good
<1>13. w = s
  <2> DEFINE c0 == Code(n)
  <2>1. c0 \in Seq(Cell) /\ c0 \o w = c0 \o s
    BY <1>1, <1>2, <1>4, <1>12
  <2> HIDE DEF c0
  <2> QED BY <2>1, ConcatSimplifications
<1>14. ReadAll(kind, n, cells) = [items |-> items, rest |-> s]
  BY <1>1, <1>6, <1>12, <1>13
<1> QED BY <1>14 DEF n, cells

(***************************************************************************)
(* The whole message.                                                      *)
(***************************************************************************)
\* The privileges the header gives are about keys there are.
HeaderFits(m) ==
    /\ m.num_writable_signers <= m.num_signers
    /\ m.num_signers + m.num_writable_non_signers <= Len(m.account_keys)

\* The parts of a message have their types, and fit when the message does.
LEMMA FitsEach ==
    ASSUME NEW m \in Message
    PROVE  /\ {m.num_signers, m.num_writable_signers, m.num_writable_non_signers} \subseteq Cell
           /\ m.account_keys \in Seq(Cell)
           /\ m.instructions \in Seq(Item("instruction"))
           /\ m.lookups \in Seq(Item("lookup"))
           /\ Fits(m) <=> /\ Len(m.account_keys) < BYTE
                          /\ Len(m.instructions) < BYTE
                          /\ Len(m.lookups) < BYTE
                          /\ \A i \in 1..Len(m.instructions) : ItemFits("instruction", m.instructions[i])
                          /\ \A i \in 1..Len(m.lookups) : ItemFits("lookup", m.lookups[i])
<1>1. /\ {m.num_signers, m.num_writable_signers, m.num_writable_non_signers} \subseteq Cell
      /\ m.account_keys \in Seq(Cell) /\ m.instructions \in Seq(Instruction)
      /\ m.lookups \in Seq(Lookup)
  BY DEF Message
<1>2. Item("instruction") = Instruction /\ Item("lookup") = Lookup
  BY DEF Item
<1>3. DOMAIN m.instructions = 1..Len(m.instructions) /\ DOMAIN m.lookups = 1..Len(m.lookups)
  BY <1>1, LenProperties
<1>4. \A x : /\ ItemFits("instruction", x) <=> Len(x.account_indexes) < BYTE /\ Len(x.data) < BYTE * BYTE
             /\ ItemFits("lookup", x) <=> Len(x.writable_indexes) < BYTE /\ Len(x.readonly_indexes) < BYTE
  BY DEF ItemFits
<1>5. Fits(m) <=> /\ Len(m.account_keys) < BYTE
                  /\ Len(m.instructions) < BYTE
                  /\ Len(m.lookups) < BYTE
                  /\ \A i \in 1..Len(m.instructions) : ItemFits("instruction", m.instructions[i])
                  /\ \A i \in 1..Len(m.lookups) : ItemFits("lookup", m.lookups[i])
  BY <1>3, <1>4, Zenon DEF Fits
<1> QED BY <1>1, <1>2, <1>5

\* The six cells of the header.
LEMMA SixAt ==
    ASSUME NEW S, NEW c \in Seq(S), Len(c) >= 6
    PROVE  /\ SubSeq(c, 1, 6) = <<c[1], c[2], c[3], c[4], c[5], c[6]>>
           /\ c[1] \in S /\ c[2] \in S /\ c[3] \in S /\ c[4] \in S /\ c[5] \in S /\ c[6] \in S
<1> DEFINE r == SubSeq(c, 1, 6)
           q == <<c[1], c[2], c[3], c[4], c[5], c[6]>>
<1>1. Len(c) \in Nat /\ \A k \in 1..Len(c) : c[k] \in S
  BY LenProperties, ElementOfSeq
<1>2. /\ \A k \in 1..6 : c[k] \in S
      /\ 1 \in 1..6 /\ 2 \in 1..6 /\ 3 \in 1..6 /\ 4 \in 1..6 /\ 5 \in 1..6 /\ 6 \in 1..6
  BY <1>1
<1>3. c[1] \in S /\ c[2] \in S /\ c[3] \in S /\ c[4] \in S /\ c[5] \in S /\ c[6] \in S
  BY <1>2
<1>4. r \in Seq(S) /\ Len(r) = 6 - 1 + 1 /\ \A k \in 1..(6 - 1 + 1) : r[k] = c[1 + k - 1]
  BY <1>2, SubSeqProperties
<1>5. /\ q \in Seq(S) /\ Len(q) = 6
      /\ q[1] = c[1] /\ q[2] = c[2] /\ q[3] = c[3] /\ q[4] = c[4] /\ q[5] = c[5] /\ q[6] = c[6]
  BY <1>3
<1> HIDE DEF r, q
<1>6. Len(r) = 6 /\ \A k \in 1..6 : r[k] = c[k]
  <2>1. 6 - 1 + 1 = 6 /\ \A k \in 1..6 : 1 + k - 1 = k
    OBVIOUS
  <2> QED BY <1>4, <2>1
<1>7. \A k \in 1..6 : k = 1 \/ k = 2 \/ k = 3 \/ k = 4 \/ k = 5 \/ k = 6
  OBVIOUS
<1>8. \A k \in 1..6 : r[k] = q[k]
  BY <1>5, <1>6, <1>7
<1>9. r = q
  BY <1>4, <1>5, <1>6, <1>8, SeqEqual
<1> QED BY <1>3, <1>9 DEF r, q

\* Cells cut at two places.
LEMMA CutInThree ==
    ASSUME NEW S, NEW c \in Seq(S), NEW h \in 0..Len(c), NEW i \in h..Len(c)
    PROVE  /\ SubSeq(c, 1, h) \o SubSeq(c, h + 1, i) \o SubSeq(c, i + 1, Len(c)) = c
           /\ SubSeq(c, 1, h) \in Seq(S)
           /\ SubSeq(c, h + 1, i) \in Seq(S) /\ Len(SubSeq(c, h + 1, i)) = i - h
           /\ SubSeq(c, i + 1, Len(c)) \in Seq(S)
<1> DEFINE n == Len(c)
<1>1. n \in Nat
  BY LenProperties
<1>2. SubSeq(c, 1, h) \o SubSeq(c, h + 1, i) = SubSeq(c, 1, i)
  <2>1. 1 \in 1..(n + 1) /\ h \in (1 - 1)..n /\ i \in h..n
    BY <1>1
  <2> QED BY <2>1, ConcatAdjacentSubSeq
<1>3. SubSeq(c, 1, i) \o SubSeq(c, i + 1, n) = SubSeq(c, 1, n)
  <2>1. 1 \in 1..(n + 1) /\ i \in (1 - 1)..n /\ n \in i..n
    BY <1>1
  <2> QED BY <2>1, ConcatAdjacentSubSeq
<1>4. SubSeq(c, 1, n) = c
  BY SubSeqFull
<1>5. ASSUME NEW x \in 0..n, NEW y \in x..n
      PROVE  SubSeq(c, x + 1, y) \in Seq(S) /\ Len(SubSeq(c, x + 1, y)) = y - x
  <2>1. x \in 0..n /\ y \in 0..n /\ x <= y /\ y \in y..n /\ 0 \in 0..n /\ x \in 0..n
    BY <1>1
  <2>2. \A x1, y1 \in 0..n : x1 <= y1 => /\ SubSeq(c, x1 + 1, y1) \in Seq(S)
                                         /\ Len(SubSeq(c, x1 + 1, y1)) = y1 - x1
    BY <2>1, CutInFive
  <2> QED BY <2>1, <2>2
<1>6. 0 \in 0..n /\ h \in 0..n /\ i \in 0..n /\ n \in i..n /\ i \in h..n /\ 0 + 1 = 1
  BY <1>1
<1>7. SubSeq(c, 1, h) \in Seq(S)
  <2>1. SubSeq(c, 0 + 1, h) \in Seq(S)
    BY <1>5, <1>6
  <2> QED BY <1>6, <2>1
<1> QED BY <1>2, <1>3, <1>4, <1>5, <1>6, <1>7

\* What parse lets in is a message that fits, is sound, and written out again
\* is the cells it was read from.
LEMMA ParseBack ==
    ASSUME NEW blob \in Seq(Cell), Parse(blob) # Err
    PROVE  LET m == Parse(blob)
           IN  m \in Message /\ Fits(m) /\ HeaderFits(m) /\ IndexesSound(m) /\ Encode(m) = blob
<1> DEFINE n == Len(blob)
           nk == blob[4]
           h == <<blob[1], blob[2], blob[3], blob[4], blob[5], blob[6]>>
           keys == SubSeq(blob, 7, 6 + nk)
           tail == SubSeq(blob, 7 + nk, n)
           ri == ReadAll("instruction", blob[5], tail)
           rl == ReadAll("lookup", blob[6], ri.rest)
           m == [num_signers |-> blob[1], num_writable_signers |-> blob[2],
                 num_writable_non_signers |-> blob[3], account_keys |-> keys,
                 instructions |-> ri.items, lookups |-> rl.items]
<1>1. n \in Nat /\ BYTE \in Nat \ {0}
  BY LenProperties, CellTypes
<1>2. /\ n >= 6 /\ blob[1] <= blob[4] /\ blob[2] <= blob[1] /\ blob[3] <= blob[4] - blob[1]
      /\ n >= 6 + nk
  BY DEF Parse, HeaderSound
<1>3. /\ SubSeq(blob, 1, 6) = h
      /\ blob[1] \in Cell /\ blob[2] \in Cell /\ blob[3] \in Cell
      /\ blob[4] \in Cell /\ blob[5] \in Cell /\ blob[6] \in Cell
  BY <1>2, SixAt
<1>4. \A x \in Cell : x \in Nat /\ x < BYTE
  BY <1>1 DEF Cell
<1>5. nk \in Nat /\ nk < BYTE /\ blob[5] \in Nat /\ blob[6] \in Nat
  BY <1>3, <1>4
<1>6. Take(blob, 7, blob[4]) = keys /\ After(blob, 6 + blob[4]) = tail
  <2>1. 7 + nk - 1 = 6 + nk /\ (6 + nk) + 1 = 7 + nk
    BY <1>5
  <2> QED BY <2>1 DEF Take, After
<1>7. /\ ri # Err /\ rl # Err
      /\ Consumed(rl) /\ IndexesSound(m) /\ Parse(blob) = m
  <2>1. Parse(blob) = IF ri = Err \/ rl = Err THEN Err
                      ELSE IF Consumed(rl) /\ IndexesSound(m) THEN m ELSE Err
    <3>1. HeaderSound(blob)
      BY <1>2 DEF HeaderSound
    <3> HIDE DEF keys, tail, nk, n
    <3> QED BY <1>6, <3>1, Zenon DEF Parse
  <2> HIDE DEF ri, rl, m
  <2> QED BY <2>1
<1>8. /\ h \o keys \o tail = blob
      /\ h \in Seq(Cell) /\ keys \in Seq(Cell) /\ Len(keys) = nk /\ tail \in Seq(Cell)
  <2>1. 6 \in 0..n /\ 6 + nk \in 6..n /\ 6 + 1 = 7 /\ (6 + nk) + 1 = 7 + nk /\ (6 + nk) - 6 = nk
    BY <1>1, <1>2, <1>5
  <2>2. /\ SubSeq(blob, 1, 6) \o SubSeq(blob, 6 + 1, 6 + nk) \o SubSeq(blob, (6 + nk) + 1, n) = blob
        /\ SubSeq(blob, 1, 6) \in Seq(Cell)
        /\ SubSeq(blob, 6 + 1, 6 + nk) \in Seq(Cell) /\ Len(SubSeq(blob, 6 + 1, 6 + nk)) = (6 + nk) - 6
        /\ SubSeq(blob, (6 + nk) + 1, n) \in Seq(Cell)
    BY <2>1, CutInThree
  <2> HIDE DEF h
  <2> QED BY <1>3, <2>1, <2>2
<1> HIDE DEF h, keys, tail, nk, n
<1>9. AllReadBack("instruction", blob[5], tail, ri)
  BY <1>5, <1>7, <1>8, ReadAllBack DEF Kind
<1> HIDE DEF ri
<1>10. /\ ri.items \in Seq(Item("instruction")) /\ Len(ri.items) = blob[5] /\ ri.rest \in Seq(Cell)
       /\ \A i \in 1..blob[5] : ItemFits("instruction", ri.items[i])
       /\ tail = EncodeAll("instruction", ri.items) \o ri.rest
  BY <1>9 DEF AllReadBack
<1>11. AllReadBack("lookup", blob[6], ri.rest, rl)
  BY <1>5, <1>7, <1>10, ReadAllBack DEF Kind
<1> HIDE DEF rl
<1>12. /\ rl.items \in Seq(Item("lookup")) /\ Len(rl.items) = blob[6]
       /\ \A i \in 1..blob[6] : ItemFits("lookup", rl.items[i])
       /\ ri.rest = EncodeAll("lookup", rl.items) \o <<>>
  BY <1>7, <1>11 DEF AllReadBack, Consumed
<1> DEFINE cI == EncodeAll("instruction", ri.items)
           cL == EncodeAll("lookup", rl.items)
<1>13. cI \in Seq(Cell) /\ cL \in Seq(Cell)
  BY <1>10, <1>12, PartsCells DEF Kind
<1> HIDE DEF cI, cL
<1>14. tail = cI \o cL
  <2>1. cL \o <<>> = cL
    BY <1>13, ConcatEmptySeq
  <2> QED BY <1>10, <1>12, <2>1 DEF cI, cL
<1>15. blob = h \o keys \o cI \o cL
  <2> DEFINE hk == h \o keys
  <2>1. hk \in Seq(Cell)
    BY <1>8, ConcatProperties
  <2>2. blob = hk \o (cI \o cL)
    BY <1>8, <1>14
  <2> HIDE DEF hk
  <2>3. Regroups(hk, cI, cL)
    BY <1>13, <2>1, Regroup
  <2> QED BY <2>2, <2>3 DEF Regroups, hk
<1>16. /\ m.num_signers = blob[1] /\ m.num_writable_signers = blob[2]
       /\ m.num_writable_non_signers = blob[3] /\ m.account_keys = keys
       /\ m.instructions = ri.items /\ m.lookups = rl.items
  OBVIOUS
<1>17. m \in Message
  <2>1. ri.items \in Seq(Instruction) /\ rl.items \in Seq(Lookup)
    BY <1>10, <1>12 DEF Item
  <2> QED BY <1>3, <1>8, <2>1 DEF Message
<1> HIDE DEF m
<1>18. Len(m.account_keys) = nk /\ Len(m.instructions) = blob[5] /\ Len(m.lookups) = blob[6]
  BY <1>8, <1>10, <1>12, <1>16
<1>19. Fits(m)
  <2>1. Len(m.account_keys) < BYTE /\ Len(m.instructions) < BYTE /\ Len(m.lookups) < BYTE
    BY <1>3, <1>4, <1>5, <1>18
  <2>2. \A i \in 1..Len(m.instructions) : ItemFits("instruction", m.instructions[i])
    BY <1>10, <1>16, <1>18
  <2>3. \A i \in 1..Len(m.lookups) : ItemFits("lookup", m.lookups[i])
    BY <1>12, <1>16, <1>18
  <2> QED BY <1>17, <2>1, <2>2, <2>3, FitsEach
<1>20. HeaderFits(m)
  <2>1. blob[1] \in Nat /\ blob[3] \in Nat
    BY <1>3, <1>4
  <2>2. blob[1] + blob[3] <= nk
    BY <1>2, <1>5, <2>1 DEF nk
  <2> QED BY <1>2, <1>16, <1>18, <2>2 DEF HeaderFits
<1>21. Encode(m) = blob
  <2>1. Length(m.account_keys) = blob[4] /\ Length(m.instructions) = blob[5] /\ Length(m.lookups) = blob[6]
    <3>1. \A s : Len(s) \in Nat /\ Len(s) < BYTE => Length(s) = Len(s)
      BY CellTypes
    <3>2. nk = blob[4]
      BY DEF nk
    <3> QED BY <1>3, <1>4, <1>5, <1>18, <3>1, <3>2
  <2>2. h = <<m.num_signers, m.num_writable_signers, m.num_writable_non_signers,
              Length(m.account_keys), Length(m.instructions), Length(m.lookups)>>
    BY <1>16, <2>1 DEF h
  <2>3. Encode(m) = h \o m.account_keys \o EncodeAll("instruction", m.instructions)
                      \o EncodeAll("lookup", m.lookups)
    BY <2>2, Zenon DEF Encode
  <2> QED BY <1>15, <1>16, <2>3 DEF cI, cL
<1> QED BY <1>7, <1>17, <1>19, <1>20, <1>21

\* What the client writes of a message that fits is read as it was meant, when
\* it is sound, and refused otherwise.
LEMMA ParseForward ==
    ASSUME NEW m \in Message, Fits(m)
    PROVE  /\ Encode(m) \in Seq(Cell)
           /\ Parse(Encode(m)) = IF HeaderFits(m) /\ IndexesSound(m) THEN m ELSE Err
<1> DEFINE keys == m.account_keys
           h == <<m.num_signers, m.num_writable_signers, m.num_writable_non_signers,
                  Length(keys), Length(m.instructions), Length(m.lookups)>>
           cI == EncodeAll("instruction", m.instructions)
           cL == EncodeAll("lookup", m.lookups)
           c == h \o keys \o cI \o cL
           nk == Len(keys)
<1>1. /\ m.num_signers \in Cell /\ m.num_writable_signers \in Cell /\ m.num_writable_non_signers \in Cell
      /\ keys \in Seq(Cell) /\ m.instructions \in Seq(Item("instruction"))
      /\ m.lookups \in Seq(Item("lookup"))
  BY FitsEach
<1>2. /\ Len(keys) < BYTE /\ Len(m.instructions) < BYTE /\ Len(m.lookups) < BYTE
      /\ \A i \in 1..Len(m.instructions) : ItemFits("instruction", m.instructions[i])
      /\ \A i \in 1..Len(m.lookups) : ItemFits("lookup", m.lookups[i])
  BY FitsEach
<1>3. nk \in Nat /\ Len(m.instructions) \in Nat /\ Len(m.lookups) \in Nat
  BY <1>1, LenProperties
<1>4. /\ Length(keys) = nk /\ Length(m.instructions) = Len(m.instructions)
      /\ Length(m.lookups) = Len(m.lookups)
      /\ Length(keys) \in Cell /\ Length(m.instructions) \in Cell /\ Length(m.lookups) \in Cell
  BY <1>2, <1>3, CellTypes
<1>5. /\ h \in Seq(Cell) /\ Len(h) = 6
      /\ h[1] = m.num_signers /\ h[2] = m.num_writable_signers /\ h[3] = m.num_writable_non_signers
      /\ h[4] = nk /\ h[5] = Len(m.instructions) /\ h[6] = Len(m.lookups)
  BY <1>1, <1>4
<1>6. cI \in Seq(Cell) /\ cL \in Seq(Cell)
  BY <1>1, PartsCells DEF Kind
<1>7. Encode(m) = c
  BY Zenon DEF Encode
<1> HIDE DEF h, cI, cL, keys
<1> DEFINE hk == h \o keys
           t == cI \o cL
<1>8. hk \in Seq(Cell) /\ Len(hk) = 6 + nk /\ t \in Seq(Cell)
  <2>1. hk \in Seq(Cell) /\ Len(hk) = Len(h) + Len(keys)
    BY <1>1, <1>5, ConcatProperties
  <2>2. t \in Seq(Cell)
    BY <1>6, ConcatProperties
  <2> HIDE DEF hk, t
  <2> QED BY <1>5, <2>1, <2>2
<1>9. \A k \in 1..6 : hk[k] = h[k]
  <2>1. \A k \in 1..Len(h) : hk[k] = h[k]
    BY <1>1, <1>5, CellOfFirst
  <2> HIDE DEF hk
  <2> QED BY <1>5, <2>1
<1>10. c = hk \o t
  <2>1. c = (hk \o cI) \o cL
    OBVIOUS
  <2> HIDE DEF hk
  <2>2. Regroups(hk, cI, cL)
    BY <1>6, <1>8, Regroup
  <2> QED BY <2>1, <2>2 DEF Regroups
<1>11. SubSeq(c, 7, 6 + nk) = keys
  <2> HIDE DEF c, t
  <2>1. SubSeq(h \o keys \o t, Len(h) + 1, Len(h) + Len(keys)) = keys
    <3> HIDE DEF hk
    <3> QED BY <1>1, <1>5, <1>8, SliceOfThree
  <2> QED BY <1>5, <1>10, <2>1, 6 + 1 = 7
<1> HIDE DEF hk, t, c
<1>12. c \in Seq(Cell) /\ Len(c) = (6 + nk) + Len(t) /\ Len(t) \in Nat
  <2>1. c \in Seq(Cell) /\ Len(c) = Len(hk) + Len(t)
    BY <1>8, <1>10, ConcatProperties
  <2>2. Len(t) \in Nat
    BY <1>8, LenProperties
  <2> QED BY <1>8, <2>1, <2>2
<1>13. SubSeq(c, (6 + nk) + 1, Len(c)) = t
  <2>1. SubSeq(hk \o t, Len(hk) + 1, Len(hk) + Len(t)) = t
    BY <1>8, SliceOfTwo
  <2> QED BY <1>8, <1>10, <1>12, <2>1
<1>14. \A k \in 1..6 : c[k] = h[k]
  <2> SUFFICES ASSUME NEW k \in 1..6 PROVE c[k] = h[k]
    OBVIOUS
  <2>1. k \in 1..Len(hk)
    BY <1>3, <1>8
  <2>2. (hk \o t)[k] = hk[k]
    BY <1>8, <2>1, CellOfFirst
  <2> QED BY <1>9, <1>10, <2>2
<1>15. /\ c[1] = m.num_signers /\ c[2] = m.num_writable_signers /\ c[3] = m.num_writable_non_signers
       /\ c[4] = nk /\ c[5] = Len(m.instructions) /\ c[6] = Len(m.lookups)
  <2>1. 1 \in 1..6 /\ 2 \in 1..6 /\ 3 \in 1..6 /\ 4 \in 1..6 /\ 5 \in 1..6 /\ 6 \in 1..6
    OBVIOUS
  <2> QED BY <1>5, <1>14, <2>1
<1>16. HeaderSound(c) <=> HeaderFits(m)
  <2>1. \A x \in Cell : x \in Nat
    BY CellTypes DEF Cell
  <2> DEFINE n1 == m.num_signers
             n2 == m.num_writable_signers
             n3 == m.num_writable_non_signers
  <2>2. n1 \in Nat /\ n2 \in Nat /\ n3 \in Nat
    BY <1>1, <2>1
  <2>3. HeaderSound(c) <=> Len(c) >= 6 /\ n1 <= nk /\ n2 <= n1 /\ n3 <= nk - n1 /\ Len(c) >= 6 + nk
    BY <1>15 DEF HeaderSound
  <2>4. HeaderFits(m) <=> n2 <= n1 /\ n1 + n3 <= nk
    BY DEF HeaderFits, keys
  <2> HIDE DEF n1, n2, n3, nk
  <2>5. Len(c) >= 6 /\ Len(c) >= 6 + nk
    BY <1>3, <1>12
  <2> QED BY <1>3, <2>2, <2>3, <2>4, <2>5
<1> DEFINE ri == ReadAll("instruction", c[5], After(c, 6 + c[4]))
           rl == ReadAll("lookup", c[6], ri.rest)
<1>17. ri = [items |-> m.instructions, rest |-> cL] /\ ri # Err
  <2>1. After(c, 6 + c[4]) = cI \o cL
    BY <1>13, <1>15 DEF After, t
  <2>2. ReadAll("instruction", Len(m.instructions), cI \o cL) = [items |-> m.instructions, rest |-> cL]
    BY <1>1, <1>2, <1>6, ReadAllForward DEF Kind, cI
  <2>3. [items |-> m.instructions, rest |-> cL] \in Got("instruction")
    BY <1>1, <1>6 DEF Got
  <2>4. [items |-> m.instructions, rest |-> cL] # Err
    BY <2>3, GotNotErr DEF Kind
  <2> QED BY <1>15, <2>1, <2>2, <2>4
<1> HIDE DEF ri
<1>18. rl = [items |-> m.lookups, rest |-> <<>>] /\ rl # Err
  <2>1. cL \o <<>> = cL /\ <<>> \in Seq(Cell)
    BY <1>6, ConcatEmptySeq, EmptySeq
  <2>2. ReadAll("lookup", Len(m.lookups), cL \o <<>>) = [items |-> m.lookups, rest |-> <<>>]
    BY <1>1, <1>2, <2>1, ReadAllForward DEF Kind, cL
  <2>3. [items |-> m.lookups, rest |-> <<>>] \in Got("lookup")
    BY <1>1, <2>1 DEF Got
  <2>4. [items |-> m.lookups, rest |-> <<>>] # Err
    BY <2>3, GotNotErr DEF Kind
  <2> QED BY <1>15, <1>17, <2>1, <2>2, <2>4
<1> HIDE DEF rl
<1> DEFINE x == [num_signers |-> c[1], num_writable_signers |-> c[2],
                 num_writable_non_signers |-> c[3],
                 account_keys |-> Take(c, 7, c[4]),
                 instructions |-> ri.items, lookups |-> rl.items]
<1>19. x = m
  <2>1. Take(c, 7, c[4]) = keys
    <3>1. 7 + nk - 1 = 6 + nk
      BY <1>3
    <3> QED BY <1>11, <1>15, <3>1 DEF Take
  <2>2. m = [num_signers |-> m.num_signers, num_writable_signers |-> m.num_writable_signers,
             num_writable_non_signers |-> m.num_writable_non_signers,
             account_keys |-> keys, instructions |-> m.instructions, lookups |-> m.lookups]
    BY DEF Message, keys
  <2> QED BY <1>15, <1>17, <1>18, <2>1, <2>2
<1>20. Parse(c) = IF ~HeaderSound(c) THEN Err
                  ELSE IF ri = Err \/ rl = Err THEN Err
                  ELSE IF Consumed(rl) /\ IndexesSound(x) THEN x ELSE Err
  BY Zenon DEF Parse, ri, rl
<1> HIDE DEF x
<1>21. Consumed(rl)
  BY <1>18 DEF Consumed
<1>22. Parse(c) = IF HeaderFits(m) /\ IndexesSound(m) THEN m ELSE Err
  BY <1>16, <1>17, <1>18, <1>19, <1>20, <1>21
<1> QED BY <1>7, <1>12, <1>22

(***************************************************************************)
(* The accounts a message names.                                           *)
(***************************************************************************)
\* What the tables hold is a sequence of cells for each.
Addresses == [Tables -> Seq(Cell)]

\* What the lookups ask for, as two lists of groups.
LEMMA Groups ==
    ASSUME NEW m \in Message
    PROVE  /\ Len(m.lookups) \in Nat /\ DOMAIN m.lookups = 1..Len(m.lookups)
           /\ Writables(m) \in Seq(Seq(Cell)) /\ Len(Writables(m)) = Len(m.lookups)
           /\ Readonlys(m) \in Seq(Seq(Cell)) /\ Len(Readonlys(m)) = Len(m.lookups)
           /\ \A i \in 1..Len(m.lookups) :
                 /\ m.lookups[i].account_key \in Cell
                 /\ Writables(m)[i] = m.lookups[i].writable_indexes
                 /\ Readonlys(m)[i] = m.lookups[i].readonly_indexes
                 /\ Writables(m)[i] \in Seq(Cell) /\ Readonlys(m)[i] \in Seq(Cell)
<1> DEFINE n == Len(m.lookups)
<1>1. m.lookups \in Seq(Lookup)
  BY DEF Message
<1>2. n \in Nat /\ DOMAIN m.lookups = 1..n /\ \A i \in 1..n : m.lookups[i] \in Lookup
  BY <1>1, LenProperties, ElementOfSeq
<1> HIDE DEF n
<1>3. \A i \in 1..n : /\ m.lookups[i].account_key \in Cell
                      /\ m.lookups[i].writable_indexes \in Seq(Cell)
                      /\ m.lookups[i].readonly_indexes \in Seq(Cell)
  BY <1>2 DEF Lookup
<1>4. /\ Writables(m) = [i \in 1..n |-> m.lookups[i].writable_indexes]
      /\ Readonlys(m) = [i \in 1..n |-> m.lookups[i].readonly_indexes]
  BY <1>2 DEF Writables, Readonlys
<1>5. Writables(m) \in [1..n -> Seq(Cell)] /\ Readonlys(m) \in [1..n -> Seq(Cell)]
  BY <1>3, <1>4
<1> DEFINE W == Writables(m)
           R == Readonlys(m)
<1>6. /\ \A i \in 1..n : W[i] = m.lookups[i].writable_indexes
      /\ \A i \in 1..n : R[i] = m.lookups[i].readonly_indexes
  BY <1>4
<1> HIDE DEF W, R
<1>7. W \in Seq(Seq(Cell)) /\ Len(W) = n /\ R \in Seq(Seq(Cell)) /\ Len(R) = n
  BY <1>2, <1>5, IsASeq DEF W, R
<1> QED BY <1>2, <1>3, <1>6, <1>7 DEF W, R, n

\* The entries of either kind, as many as the lookups ask for, in their places.
EntriesPlaced(m, groups, addresses) ==
    LET all == FlattenSeq(EntriesOf(m, groups, addresses))
        n == Len(m.lookups)
    IN  /\ all \in Seq(Cell) /\ Len(all) = Total(groups)[n]
        /\ \A i \in 1..n : \A k \in 1..Len(groups[i]) :
              all[Total(groups)[i - 1] + k] = Entry(addresses, m.lookups[i].account_key, groups[i][k])

\* Where the entries of each table are among those of all tables.
LEMMA EntriesPlace ==
    ASSUME NEW m \in Message, NEW addresses \in Addresses,
           NEW groups \in Seq(Seq(Cell)), Len(groups) = Len(m.lookups)
    PROVE  EntriesPlaced(m, groups, addresses)
<1> DEFINE n == Len(m.lookups)
           Key(i) == m.lookups[i].account_key
           e == EntriesOf(m, groups, addresses)
<1>1. n \in Nat /\ DOMAIN m.lookups = 1..n
  BY Groups
<1>2. \A i \in 1..n : groups[i] \in Seq(Cell)
  BY ElementOfSeq
<1>3. \A i \in 1..n : Len(groups[i]) \in Nat /\ DOMAIN groups[i] = 1..Len(groups[i])
  BY <1>2, LenProperties
<1> HIDE DEF n
<1>4. \A t, x \in Cell : Entry(addresses, t, x) \in Cell
  <2> SUFFICES ASSUME NEW t \in Cell, NEW x \in Cell PROVE Entry(addresses, t, x) \in Cell
    OBVIOUS
  <2>1. SYSTEM \in Cell /\ x \in Nat
    BY CellAssumption, CellTypes DEF Cell
  <2>2. CASE t \in Tables /\ x < Len(addresses[t])
    <3>1. addresses[t] \in Seq(Cell) /\ Len(addresses[t]) \in Nat
      BY <2>2, LenProperties DEF Addresses
    <3>2. x + 1 \in 1..Len(addresses[t])
      BY <2>1, <2>2, <3>1
    <3>3. addresses[t][x + 1] \in Cell
      BY <3>1, <3>2, ElementOfSeq
    <3> QED BY <2>2, <3>3 DEF Entry
  <2>3. CASE ~(t \in Tables /\ x < Len(addresses[t]))
    BY <2>1, <2>3 DEF Entry
  <2> QED BY <2>2, <2>3
<1> DEFINE Of(i) == [k \in 1..Len(groups[i]) |-> Entry(addresses, Key(i), groups[i][k])]
<1>5. e = [i \in 1..n |-> Of(i)]
  BY <1>1, <1>3 DEF EntriesOf
<1>6. ASSUME NEW i \in 1..n PROVE Of(i) \in Seq(Cell) /\ Len(Of(i)) = Len(groups[i])
  <2>1. Key(i) \in Cell
    BY Groups DEF n
  <2>2. \A k \in 1..Len(groups[i]) : groups[i][k] \in Cell
    BY <1>2, ElementOfSeq
  <2>3. Of(i) \in [1..Len(groups[i]) -> Cell]
    <3> HIDE DEF Key
    <3> QED BY <1>4, <2>1, <2>2
  <2> DEFINE f == Of(i)
             n1 == Len(groups[i])
  <2>4. f \in [1..n1 -> Cell] /\ n1 \in Nat
    BY <1>3, <2>3
  <2> HIDE DEF f, n1, Of
  <2>5. f \in Seq(Cell) /\ Len(f) = n1
    BY <2>4, IsASeq
  <2> QED BY <2>5 DEF f, n1
<1>7. \A i \in 1..n : \A k \in 1..Len(groups[i]) : Of(i)[k] = Entry(addresses, Key(i), groups[i][k])
  OBVIOUS
<1> HIDE DEF e, Of
<1>8. e \in Seq(Seq(Cell)) /\ Len(e) = n /\ \A i \in 1..n : e[i] = Of(i)
  <2>1. e \in [1..n -> Seq(Cell)] /\ \A i \in 1..n : e[i] = Of(i)
    BY <1>5, <1>6
  <2> QED BY <1>1, <2>1, IsASeq
<1>9. Total(e) = Total(groups)
  <2>1. Len(e) = Len(groups) /\ \A i \in 1..Len(e) : Len(e[i]) = Len(groups[i])
    BY <1>6, <1>8 DEF n
  <2> QED BY <1>8, <2>1, TotalOfLengths
<1>10. /\ FlattenSeq(e) \in Seq(Cell) /\ Len(FlattenSeq(e)) = Total(e)[n]
       /\ \A i \in 1..n : \A k \in 1..Len(e[i]) : FlattenSeq(e)[Total(e)[i - 1] + k] = e[i][k]
  BY <1>8, FlattenAt
<1> DEFINE all == FlattenSeq(e)
<1> HIDE DEF all
<1>11. /\ all \in Seq(Cell) /\ Len(all) = Total(groups)[n]
       /\ \A i \in 1..n : \A k \in 1..Len(groups[i]) :
             all[Total(groups)[i - 1] + k] = Entry(addresses, Key(i), groups[i][k])
  BY <1>6, <1>7, <1>8, <1>9, <1>10 DEF all
<1> QED BY <1>11 DEF all, e, n, EntriesPlaced

\* Where writable and readonly entries are among the accounts loaded.
LEMMA ResolvedPlace ==
    ASSUME NEW m \in Message, NEW addresses \in Addresses
    PROVE  LET all == Resolved(m, addresses)
               w == NumWritableLookupKeys(m)
               r == Total(Readonlys(m))[Len(m.lookups)]
               wr == FlattenSeq(EntriesOf(m, Writables(m), addresses))
               ro == FlattenSeq(EntriesOf(m, Readonlys(m), addresses))
           IN  /\ w \in Nat /\ r \in Nat /\ Len(m.account_keys) \in Nat
               /\ NumAllKeys(m) = Len(m.account_keys) + w + r
               /\ wr \in Seq(Cell) /\ Len(wr) = w /\ ro \in Seq(Cell) /\ Len(ro) = r
               /\ all \in Seq(Cell) /\ Len(all) = w + r
               /\ \A j \in 1..w : all[j] = wr[j]
               /\ \A j \in 1..r : all[w + j] = ro[j]
<1> DEFINE all == Resolved(m, addresses)
           n == Len(m.lookups)
           w == Total(Writables(m))[n]
           r == Total(Readonlys(m))[n]
           wr == FlattenSeq(EntriesOf(m, Writables(m), addresses))
           ro == FlattenSeq(EntriesOf(m, Readonlys(m), addresses))
<1>1. n \in Nat /\ n \in 0..n
  BY Groups
<1>2. w \in Nat /\ r \in Nat
  <2>1. Total(Writables(m)) \in [0..n -> Nat] /\ Total(Readonlys(m)) \in [0..n -> Nat]
    BY Groups, TotalSteps
  <2> QED BY <1>1, <2>1
<1>3. Len(m.account_keys) \in Nat
  BY FitsEach, LenProperties
<1>4. EntriesPlaced(m, Writables(m), addresses) /\ EntriesPlaced(m, Readonlys(m), addresses)
  BY Groups, EntriesPlace
<1>5. wr \in Seq(Cell) /\ Len(wr) = w /\ ro \in Seq(Cell) /\ Len(ro) = r
  BY <1>4 DEF EntriesPlaced
<1>6. all = wr \o ro /\ NumWritableLookupKeys(m) = w /\ NumAllKeys(m) = Len(m.account_keys) + w + r
  BY DEF Resolved, NumWritableLookupKeys, NumAllKeys
<1> HIDE DEF all, wr, ro, w, r, n
<1>7. all \in Seq(Cell) /\ Len(all) = w + r
  BY <1>5, <1>6, ConcatProperties
<1>8. \A j \in 1..w : all[j] = wr[j]
  BY <1>5, <1>6, CellOfFirst
<1>9. \A j \in 1..r : all[w + j] = ro[j]
  BY <1>5, <1>6, CellOfTwo
<1> QED BY <1>2, <1>3, <1>5, <1>6, <1>7, <1>8, <1>9 DEF all, wr, ro, w, r, n

\* The two ways to say that an index names an account agree.
LEMMA SoundIsInRange ==
    ASSUME NEW m \in Message, AddressesNow \in Addresses
    PROVE  InRange(m) <=> IndexesSound(m)
<1> DEFINE n == NumAllKeys(m)
           Is(i) == m.instructions[i].account_indexes
           p(i) == m.instructions[i].program_id_index
<1>1. Len(m.account_keys) + Len(Resolved(m, AddressesNow)) = n /\ n \in Nat
  <2> DEFINE k == Len(m.account_keys)
             l == Len(Resolved(m, AddressesNow))
             w == NumWritableLookupKeys(m)
             r == Total(Readonlys(m))[Len(m.lookups)]
  <2>1. k \in Nat /\ w \in Nat /\ r \in Nat /\ l = w + r /\ n = k + w + r
    BY ResolvedPlace
  <2> HIDE DEF k, l, w, r, n
  <2>2. k + l = n /\ n \in Nat
    BY <2>1
  <2> QED BY <2>2 DEF k, l
<1>2. \A i \in DOMAIN m.instructions : p(i) \in Nat /\ ToSet(Is(i)) \subseteq Nat
  <2> SUFFICES ASSUME NEW i \in DOMAIN m.instructions PROVE p(i) \in Nat /\ ToSet(Is(i)) \subseteq Nat
    OBVIOUS
  <2>1. m.instructions \in Seq(Instruction)
    BY DEF Message
  <2>2. m.instructions[i] \in Instruction
    BY <2>1, ElementOfSeq, LenProperties
  <2>3. p(i) \in Cell /\ Is(i) \in Seq(Cell)
    BY <2>2 DEF Instruction
  <2>4. \A x \in Cell : x \in Nat
    BY CellTypes DEF Cell
  <2>5. \A k \in DOMAIN Is(i) : Is(i)[k] \in Cell
    BY <2>3, ElementOfSeq, LenProperties
  <2> HIDE DEF Is, p
  <2> QED BY <2>3, <2>4, <2>5 DEF ToSet
<1>3. InRange(m) <=> \A i \in DOMAIN m.instructions : p(i) < n /\ ToSet(Is(i)) \subseteq 0..(n - 1)
  BY <1>1 DEF InRange
<1>4. IndexesSound(m) <=> \A i \in DOMAIN m.instructions : \A x \in {p(i)} \cup ToSet(Is(i)) : x < n
  BY Zenon DEF IndexesSound
<1> HIDE DEF p, Is, n
<1>5. ASSUME NEW i \in DOMAIN m.instructions
      PROVE  p(i) < n /\ ToSet(Is(i)) \subseteq 0..(n - 1)
               <=> \A x \in {p(i)} \cup ToSet(Is(i)) : x < n
  <2> DEFINE A == ToSet(Is(i))
             q == p(i)
  <2>1. q \in Nat /\ A \subseteq Nat
    BY <1>2
  <2> HIDE DEF A, q
  <2>2. A \subseteq 0..(n - 1) <=> \A x \in A : x < n
    BY <1>1, <2>1
  <2>3. q < n /\ A \subseteq 0..(n - 1) <=> \A x \in {q} \cup A : x < n
    BY <2>2
  <2> QED BY <2>3 DEF A, q
<1> QED BY <1>3, <1>4, <1>5

(***************************************************************************)
(* What holds throughout.                                                  *)
(***************************************************************************)
\* The tables hold cells.
TablesTyped == table \in [Tables -> [addresses : Seq(Cell), state : {"active", "retired"}]]

\* Cells were submitted, and what is stored is what they were read as; a
\* message that was meant is one of the client's, and was encoded.
Submitted ==
    proposal # None =>
        /\ proposal.blob \in Seq(Cell)
        /\ proposal.message = Parse(proposal.blob)
        /\ proposal.meant # None =>
              proposal.meant \in ClientMessages /\ proposal.blob = Encode(proposal.meant)

\* What was shown is still there: tables only grow.
StillShown ==
    proposal # None =>
        /\ proposal.seen \in Addresses
        /\ \A t \in Tables :
              /\ Len(proposal.seen[t]) <= Len(table[t].addresses)
              /\ SubSeq(table[t].addresses, 1, Len(proposal.seen[t])) = proposal.seen[t]

\* What ran was stored.
RanStored == calls # None => Stored

MInv == TablesTyped /\ Submitted /\ StillShown /\ RanStored

\* What the client writes are cells, counts that do not fit included.
LEMMA EncodeCells ==
    ASSUME NEW m \in Message
    PROVE  Encode(m) \in Seq(Cell)
<1> DEFINE keys == m.account_keys
           h == <<m.num_signers, m.num_writable_signers, m.num_writable_non_signers,
                  Length(keys), Length(m.instructions), Length(m.lookups)>>
           cI == EncodeAll("instruction", m.instructions)
           cL == EncodeAll("lookup", m.lookups)
<1>1. /\ m.num_signers \in Cell /\ m.num_writable_signers \in Cell /\ m.num_writable_non_signers \in Cell
      /\ keys \in Seq(Cell) /\ m.instructions \in Seq(Item("instruction"))
      /\ m.lookups \in Seq(Item("lookup"))
  BY FitsEach
<1>2. Len(keys) \in Nat /\ Len(m.instructions) \in Nat /\ Len(m.lookups) \in Nat
  BY <1>1, LenProperties
<1>3. Length(keys) \in Cell /\ Length(m.instructions) \in Cell /\ Length(m.lookups) \in Cell
  BY <1>2, CellTypes
<1>4. h \in Seq(Cell)
  BY <1>1, <1>3
<1>5. cI \in Seq(Cell) /\ cL \in Seq(Cell)
  BY <1>1, PartsCells DEF Kind
<1>6. Encode(m) = h \o keys \o cI \o cL
  BY Zenon DEF Encode
<1> HIDE DEF h, keys, cI, cL
<1>7. h \o keys \o cI \o cL \in Seq(Cell)
  BY <1>1, <1>4, <1>5, ConcatProperties
<1> QED BY <1>6, <1>7

\* So is what damage makes of it.
LEMMA DamagedCells ==
    ASSUME NEW blob \in Seq(Cell), NEW b \in Damaged(blob)
    PROVE  b \in Seq(Cell)
<1>1. Len(blob) \in Nat /\ BYTE \in Nat \ {0} /\ \A i \in 1..Len(blob) : blob[i] \in Cell
  BY LenProperties, ElementOfSeq, CellTypes
<1>2. ASSUME NEW i \in DOMAIN blob, NEW d \in {1, BYTE - 1}
      PROVE  [blob EXCEPT ![i] = (@ + d) % BYTE] \in Seq(Cell)
  <2>1. i \in 1..Len(blob) /\ blob[i] \in Cell
    BY <1>1, LenProperties
  <2>2. (blob[i] + d) % BYTE \in Cell
    BY <1>1, <2>1 DEF Cell
  <2> DEFINE v == (blob[i] + d) % BYTE
  <2> HIDE DEF v
  <2>3. [blob EXCEPT ![i] = v] \in Seq(Cell)
    BY <2>1, <2>2, ExceptSeq DEF v
  <2> QED BY <2>3 DEF v
<1>3. ASSUME NEW n \in 0..(Len(blob) - 1) PROVE SubSeq(blob, 1, n) \in Seq(Cell)
  <2>1. n \in Int /\ 1 \in Int /\ \A i \in 1..n : blob[i] \in Cell
    BY <1>1
  <2> QED BY <2>1, SubSeqProperties
<1>4. ASSUME NEW v \in 0..(BYTE - 1) PROVE Append(blob, v) \in Seq(Cell)
  BY AppendProperties DEF Cell
<1> QED BY <1>2, <1>3, <1>4 DEF Damaged

\* The addresses of the tables have their type.
LEMMA NowTyped ==
    ASSUME TablesTyped
    PROVE  /\ AddressesNow \in Addresses
           /\ \A t \in Tables : AddressesNow[t] = table[t].addresses /\ table[t].addresses \in Seq(Cell)
BY DEF TablesTyped, AddressesNow, Addresses

\* What is shown is what the tables hold now.
LEMMA ShownIsNow ==
    ASSUME MInv, proposal # None
    PROVE  AddressesShown = AddressesNow
<1>1. ASSUME NEW t \in Tables
      PROVE  proposal.seen[t] \o SubSeq(table[t].addresses, Len(proposal.seen[t]) + 1, Len(table[t].addresses))
               = table[t].addresses
  <2> DEFINE a == table[t].addresses
             s == proposal.seen[t]
             k == Len(s)
             n == Len(a)
  <2>1. a \in Seq(Cell) /\ s \in Seq(Cell) /\ k <= n /\ SubSeq(a, 1, k) = s
    BY NowTyped DEF MInv, StillShown, Addresses
  <2> HIDE DEF a, s
  <2>2. k \in Nat /\ n \in Nat
    BY <2>1, LenProperties
  <2>3. 1 \in 1..(n + 1) /\ k \in (1 - 1)..n /\ n \in k..n
    BY <2>1, <2>2
  <2>4. SubSeq(a, 1, k) \o SubSeq(a, k + 1, n) = SubSeq(a, 1, n)
    BY <2>1, <2>3, ConcatAdjacentSubSeq
  <2>5. SubSeq(a, 1, n) = a
    BY <2>1, SubSeqFull
  <2> QED BY <2>1, <2>4, <2>5 DEF a, s
<1> QED BY <1>1, Zenon DEF AddressesShown, AddressesNow

\* The invariant holds at first and is kept by every step.
LEMMA InitMInv ==
    ASSUME Init
    PROVE  MInv
<1>1. TablesTyped
  <2>1. <<>> \in Seq(Cell)
    BY EmptySeq
  <2> QED BY <2>1 DEF Init, TablesTyped
<1> QED BY <1>1 DEF Init, MInv, Submitted, StillShown, RanStored

\* Proposing: what is stored is what was read.
LEMMA SubmitKeeps ==
    ASSUME MInv, NEW blob \in Seq(Cell), NEW meant, Submit(blob, meant),
           meant # None => meant \in ClientMessages /\ blob = Encode(meant)
    PROVE  MInv'
<1>1. /\ proposal = None /\ table' = table /\ calls' = calls
      /\ proposal'.blob = blob /\ proposal'.meant = meant /\ proposal'.message = Parse(blob)
      /\ proposal'.seen = AddressesNow
  BY DEF Submit
<1>2. TablesTyped'
  BY <1>1 DEF MInv, TablesTyped
<1>3. Submitted'
  BY <1>1 DEF Submitted
<1>4. StillShown'
  <2>1. AddressesNow \in Addresses
    BY NowTyped DEF MInv
  <2>2. ASSUME NEW t \in Tables
        PROVE  /\ Len(AddressesNow[t]) <= Len(table[t].addresses)
               /\ SubSeq(table[t].addresses, 1, Len(AddressesNow[t])) = AddressesNow[t]
    <3> DEFINE a == table[t].addresses
    <3>1. AddressesNow[t] = a /\ a \in Seq(Cell)
      BY NowTyped DEF MInv
    <3> HIDE DEF a
    <3>2. Len(a) \in Nat /\ SubSeq(a, 1, Len(a)) = a
      BY <3>1, LenProperties, SubSeqFull
    <3>3. Len(a) <= Len(a)
      BY <3>2
    <3> QED BY <3>1, <3>2, <3>3 DEF a
  <2> QED BY <1>1, <2>1, <2>2 DEF StillShown
<1>5. RanStored'
  <2>1. calls = None
    BY <1>1 DEF MInv, RanStored, Stored
  <2> QED BY <1>1, <2>1 DEF RanStored
<1> QED BY <1>2, <1>3, <1>4, <1>5 DEF MInv

\* Executing: only a stored proposal runs.
LEMMA ExecuteKeeps ==
    ASSUME MInv, NEW views, Execute(views)
    PROVE  MInv'
<1>1. Stored /\ table' = table /\ proposal' = proposal
  BY DEF Execute
<1> QED BY <1>1 DEF MInv, TablesTyped, Submitted, StillShown, RanStored, Stored

\* Extending a table: what was shown of it is still in front.
LEMMA ExtendKeeps ==
    ASSUME MInv, NEW t \in Tables, NEW a \in Listed, ExtendTable(t, a)
    PROVE  MInv'
<1> DEFINE b == table[t].addresses
<1>1. /\ proposal' = proposal /\ calls' = calls
      /\ table' = [table EXCEPT ![t].addresses = Append(b, a)]
  BY DEF ExtendTable
<1>2. b \in Seq(Cell) /\ a \in Cell /\ table[t].state \in {"active", "retired"}
  BY CellAssumption DEF MInv, TablesTyped
<1>3. /\ Append(b, a) \in Seq(Cell) /\ Len(Append(b, a)) = Len(b) + 1
      /\ Len(b) \in Nat
  BY <1>2, AppendProperties, LenProperties
<1> DEFINE c == Append(b, a)
<1>4. /\ table'[t].addresses = c
      /\ \A u \in Tables : u # t => table'[u] = table[u]
  <2>1. table \in [Tables -> [addresses : Seq(Cell), state : {"active", "retired"}]]
    BY DEF MInv, TablesTyped
  <2> HIDE DEF c
  <2> QED BY <1>1, <2>1 DEF c
<1>5. TablesTyped'
  <2>1. table \in [Tables -> [addresses : Seq(Cell), state : {"active", "retired"}]]
    BY DEF MInv, TablesTyped
  <2> HIDE DEF b
  <2> QED BY <1>1, <1>3, <2>1 DEF TablesTyped
<1>6. StillShown'
  <2> SUFFICES ASSUME proposal # None
               PROVE  /\ proposal.seen \in Addresses
                      /\ \A u \in Tables :
                            /\ Len(proposal.seen[u]) <= Len(table'[u].addresses)
                            /\ SubSeq(table'[u].addresses, 1, Len(proposal.seen[u])) = proposal.seen[u]
    BY <1>1 DEF StillShown
  <2>1. /\ proposal.seen \in Addresses
        /\ \A u \in Tables :
              /\ Len(proposal.seen[u]) <= Len(table[u].addresses)
              /\ SubSeq(table[u].addresses, 1, Len(proposal.seen[u])) = proposal.seen[u]
    BY DEF MInv, StillShown
  <2>2. /\ Len(proposal.seen[t]) <= Len(c)
        /\ SubSeq(c, 1, Len(proposal.seen[t])) = proposal.seen[t]
    <3> DEFINE s == proposal.seen[t]
               k == Len(s)
    <3>1. s \in Seq(Cell) /\ k <= Len(b) /\ SubSeq(b, 1, k) = s
      BY <2>1 DEF Addresses
    <3>2. k \in Nat
      BY <3>1, LenProperties
    <3>3. c = b \o <<a>> /\ <<a>> \in Seq(Cell) /\ \A i \in 1..Len(b) : c[i] = b[i]
      BY <1>2, AppendIsConcat, AppendProperties
    <3>4. c \in Seq(Cell) /\ Len(c) = Len(b) + 1
      BY <1>3
    <3> HIDE DEF s, c, b
    <3>5. /\ \A i \in 1..k : c[i] \in Cell /\ b[i] \in Cell /\ c[i] = b[i]
          /\ 1 \in Int /\ k \in Int /\ k <= Len(c)
      <4>1. \A i \in 1..k : i \in 1..Len(b) /\ i \in 1..Len(c)
        BY <1>3, <3>1, <3>2, <3>4
      <4>2. \A i \in 1..k : c[i] \in Cell /\ b[i] \in Cell
        BY <1>2, <3>4, <4>1, ElementOfSeq
      <4> QED BY <1>3, <3>1, <3>2, <3>3, <3>4, <4>1, <4>2
    <3> DEFINE x == SubSeq(c, 1, k)
               y == SubSeq(b, 1, k)
    <3>6. /\ x \in Seq(Cell) /\ Len(x) = (IF 1 <= k THEN k - 1 + 1 ELSE 0)
          /\ \A i \in 1..(k - 1 + 1) : x[i] = c[1 + i - 1]
      BY <3>5, SubSeqProperties
    <3>7. /\ y \in Seq(Cell) /\ Len(y) = (IF 1 <= k THEN k - 1 + 1 ELSE 0)
          /\ \A i \in 1..(k - 1 + 1) : y[i] = b[1 + i - 1]
      BY <3>5, SubSeqProperties
    <3> HIDE DEF x, y
    <3>8. Len(x) = k /\ Len(y) = k /\ k - 1 + 1 = k /\ \A i \in 1..k : 1 + i - 1 = i
      BY <3>2, <3>6, <3>7
    <3>9. \A i \in 1..k : x[i] = y[i]
      BY <3>5, <3>6, <3>7, <3>8
    <3>10. x = y
      BY <3>6, <3>7, <3>8, <3>9, SeqEqual
    <3> QED BY <3>1, <3>5, <3>10 DEF x, y, s
  <2> HIDE DEF c
  <2> QED BY <1>4, <2>1, <2>2
<1>7. Submitted' /\ RanStored'
  BY <1>1 DEF MInv, Submitted, RanStored, Stored
<1> QED BY <1>5, <1>6, <1>7 DEF MInv

\* Retiring a table leaves its entries.
LEMMA RetireKeeps ==
    ASSUME MInv, NEW t \in Tables, RetireTable(t)
    PROVE  MInv'
<1>1. /\ proposal' = proposal /\ calls' = calls
      /\ table' = [table EXCEPT ![t].state = "retired"]
  BY DEF RetireTable
<1>2. table \in [Tables -> [addresses : Seq(Cell), state : {"active", "retired"}]]
  BY DEF MInv, TablesTyped
<1>3. TablesTyped' /\ \A u \in Tables : table'[u].addresses = table[u].addresses
  BY <1>1, <1>2 DEF TablesTyped
<1>4. StillShown'
  BY <1>1, <1>3 DEF MInv, StillShown
<1>5. Submitted' /\ RanStored'
  BY <1>1 DEF MInv, Submitted, RanStored, Stored
<1> QED BY <1>3, <1>4, <1>5 DEF MInv

\* Every step keeps the invariant.
LEMMA NextMInv ==
    ASSUME MInv, [Next]_vars
    PROVE  MInv'
<1>1. ASSUME NEW m \in ClientMessages, Submit(Encode(m), m) PROVE MInv'
  <2>1. Encode(m) \in Seq(Cell)
    BY CellAssumption, EncodeCells
  <2> QED BY <1>1, <2>1, SubmitKeeps
<1>2. ASSUME NEW m \in ClientMessages, NEW blob \in Damaged(Encode(m)), Submit(blob, None) PROVE MInv'
  <2>1. blob \in Seq(Cell)
    BY CellAssumption, EncodeCells, DamagedCells
  <2> QED BY <1>2, <2>1, SubmitKeeps
<1>3. ASSUME NEW views, Execute(views) PROVE MInv'
  BY <1>3, ExecuteKeeps
<1>4. ASSUME NEW t \in Tables, NEW a \in Listed, ExtendTable(t, a) PROVE MInv'
  BY <1>4, ExtendKeeps
<1>5. ASSUME NEW t \in Tables, RetireTable(t) PROVE MInv'
  BY <1>5, RetireKeeps
<1>6. CASE UNCHANGED vars
  BY <1>6 DEF vars, MInv, TablesTyped, Submitted, StillShown, RanStored, Stored
<1> QED BY <1>1, <1>2, <1>3, <1>4, <1>5, <1>6 DEF Next

\* In every reachable state what is stored is what the submitted cells were
\* read as, and the tables still hold what they showed (instruction/execute.rs).
THEOREM MessageInvariant == Spec => []MInv
<1>1. Init => MInv
  BY InitMInv
<1>2. MInv /\ [Next]_vars => MInv'
  BY NextMInv
<1> QED BY <1>1, <1>2, PTL DEF Spec

\* A blob that is let in says nothing beyond what it is read as, whatever the
\* size of a cell, the messages and the tables (state/message.rs).
THEOREM ParseTotal == Spec => []ParseIsTotal
<1>1. MInv => ParseIsTotal
  <2> SUFFICES ASSUME MInv, Stored
               PROVE  Encode(proposal.message) = proposal.blob /\ InRange(proposal.message)
    BY DEF ParseIsTotal
  <2> DEFINE blob == proposal.blob
             m == proposal.message
  <2>1. blob \in Seq(Cell) /\ m = Parse(blob) /\ m # Err
    BY DEF MInv, Submitted, Stored
  <2> HIDE DEF blob, m
  <2>2. m \in Message /\ IndexesSound(m) /\ Encode(m) = blob
    BY <2>1, ParseBack
  <2>3. InRange(m)
    BY <2>2, NowTyped, SoundIsInRange DEF MInv
  <2> QED BY <2>2, <2>3 DEF blob, m
<1> QED BY <1>1, MessageInvariant, PTL

\* The client's encoding and the program's parser agree on every message whose
\* counts fit (client.rs and state/message.rs).
THEOREM EndsAgree == Spec => []ClientAndProgramAgree
<1>1. MInv => ClientAndProgramAgree
  <2> SUFFICES ASSUME MInv, proposal # None, proposal.meant # None, Fits(proposal.meant)
               PROVE  proposal.message = IF Sound(proposal.meant) THEN proposal.meant ELSE Err
    BY DEF ClientAndProgramAgree
  <2> DEFINE m == proposal.meant
  <2>1. m \in ClientMessages /\ proposal.message = Parse(Encode(m)) /\ Fits(m)
    BY DEF MInv, Submitted
  <2> HIDE DEF m
  <2>2. m \in Message
    BY <2>1, CellAssumption
  <2>3. Parse(Encode(m)) = IF HeaderFits(m) /\ IndexesSound(m) THEN m ELSE Err
    BY <2>1, <2>2, ParseForward
  <2>4. InRange(m) <=> IndexesSound(m)
    BY <2>2, NowTyped, SoundIsInRange DEF MInv
  <2>5. Sound(m) <=> HeaderFits(m) /\ IndexesSound(m)
    BY <2>4, Zenon DEF Sound, HeaderFits
  <2> QED BY <2>1, <2>3, <2>5 DEF m
<1> QED BY <1>1, MessageInvariant, PTL

\* A stored message is one that parse let in.
LEMMA StoredMessage ==
    ASSUME MInv, Stored
    PROVE  /\ proposal.message = Parse(proposal.blob) /\ proposal.message \in Message
           /\ HeaderFits(proposal.message) /\ IndexesSound(proposal.message)
<1>1. proposal.blob \in Seq(Cell) /\ proposal.message = Parse(proposal.blob) /\ proposal.message # Err
  BY DEF MInv, Submitted, Stored
<1>2. LET m == Parse(proposal.blob)
      IN  m \in Message /\ Fits(m) /\ HeaderFits(m) /\ IndexesSound(m) /\ Encode(m) = proposal.blob
  BY <1>1, ParseBack
<1> QED BY <1>1, <1>2

(***************************************************************************)
(* The accounts passed are the accounts named.                             *)
(***************************************************************************)
\* The accounts of a message in the order of its indexes.
Named(m, addresses) == m.account_keys \o Resolved(m, addresses)

\* Where each is.
LEMMA NamedPlace ==
    ASSUME NEW m \in Message, NEW addresses \in Addresses
    PROVE  LET all == Named(m, addresses)
               nk == Len(m.account_keys)
               w == NumWritableLookupKeys(m)
           IN  /\ all \in Seq(Cell) /\ Len(all) = NumAllKeys(m)
               /\ \A j \in 1..nk : all[j] = m.account_keys[j]
               /\ \A j \in 1..Len(Resolved(m, addresses)) : all[nk + j] = Resolved(m, addresses)[j]
               /\ \A i \in 1..Len(m.lookups) :
                     /\ \A k \in 1..Len(Writables(m)[i]) :
                           /\ nk + Total(Writables(m))[i - 1] + k \in 1..NumAllKeys(m)
                           /\ all[nk + Total(Writables(m))[i - 1] + k]
                                = Entry(addresses, m.lookups[i].account_key, Writables(m)[i][k])
                     /\ \A k \in 1..Len(Readonlys(m)[i]) :
                           /\ nk + w + Total(Readonlys(m))[i - 1] + k \in 1..NumAllKeys(m)
                           /\ all[nk + w + Total(Readonlys(m))[i - 1] + k]
                                = Entry(addresses, m.lookups[i].account_key, Readonlys(m)[i][k])
<1> DEFINE all == Named(m, addresses)
           keys == m.account_keys
           nk == Len(keys)
           n == Len(m.lookups)
           W == Writables(m)
           R == Readonlys(m)
           tW == Total(W)
           tR == Total(R)
           w == NumWritableLookupKeys(m)
           r == tR[n]
           wr == FlattenSeq(EntriesOf(m, W, addresses))
           ro == FlattenSeq(EntriesOf(m, R, addresses))
           res == Resolved(m, addresses)
           Key(i) == m.lookups[i].account_key
<1>1. /\ w \in Nat /\ r \in Nat /\ nk \in Nat /\ NumAllKeys(m) = nk + w + r
      /\ Len(wr) = w /\ Len(ro) = r
      /\ res \in Seq(Cell) /\ Len(res) = w + r
      /\ \A j \in 1..w : res[j] = wr[j]
      /\ \A j \in 1..r : res[w + j] = ro[j]
  BY ResolvedPlace
<1>2. keys \in Seq(Cell) /\ all = keys \o res
  BY FitsEach DEF Named
<1>3. /\ \A i \in 1..n : \A k \in 1..Len(W[i]) : wr[tW[i - 1] + k] = Entry(addresses, Key(i), W[i][k])
      /\ \A i \in 1..n : \A k \in 1..Len(R[i]) : ro[tR[i - 1] + k] = Entry(addresses, Key(i), R[i][k])
  <2>1. EntriesPlaced(m, W, addresses) /\ EntriesPlaced(m, R, addresses)
    BY Groups, EntriesPlace
  <2> QED BY <2>1, Zenon DEF EntriesPlaced
<1>4. /\ n \in Nat /\ W \in Seq(Seq(Cell)) /\ Len(W) = n /\ R \in Seq(Seq(Cell)) /\ Len(R) = n
      /\ \A i \in 1..n : W[i] \in Seq(Cell) /\ R[i] \in Seq(Cell)
  BY Groups
<1>5. w = tW[n]
  BY DEF NumWritableLookupKeys
<1> HIDE DEF all, res, keys, n, W, R, w, wr, ro, Key
<1>6. all \in Seq(Cell) /\ Len(all) = nk + (w + r)
  BY <1>1, <1>2, ConcatProperties
<1>7. \A j \in 1..nk : all[j] = keys[j]
  BY <1>1, <1>2, CellOfFirst
<1>8. \A j \in 1..Len(res) : all[nk + j] = res[j]
  BY <1>1, <1>2, CellOfTwo
<1>9. ASSUME NEW i \in 1..n, NEW k \in 1..Len(W[i])
      PROVE  tW[i - 1] + k \in 1..w /\ tW[i - 1] \in Nat
  <2>1. /\ tW \in [0..n -> Nat] /\ tW[i] = tW[i - 1] + Len(W[i])
    BY <1>4, TotalSteps
  <2>2. tW[i] <= tW[n]
    <3>1. n \in 0..n /\ i \in 0..n
      BY <1>4
    <3> QED BY <1>4, <3>1, TotalGrows
  <2>3. i - 1 \in 0..n /\ i \in 0..n /\ n \in 0..n
    BY <1>4
  <2>4. Len(W[i]) \in Nat
    BY <1>4, LenProperties
  <2> HIDE DEF tW
  <2>5. tW[i - 1] \in Nat /\ tW[i] \in Nat /\ tW[n] \in Nat
    BY <2>1, <2>3
  <2> QED BY <1>5, <2>1, <2>2, <2>4, <2>5
<1>10. ASSUME NEW i \in 1..n, NEW k \in 1..Len(R[i])
       PROVE  tR[i - 1] + k \in 1..r /\ tR[i - 1] \in Nat
  <2>1. /\ tR \in [0..n -> Nat] /\ tR[i] = tR[i - 1] + Len(R[i])
    BY <1>4, TotalSteps
  <2>2. tR[i] <= tR[n]
    <3>1. n \in 0..n /\ i \in 0..n
      BY <1>4
    <3> QED BY <1>4, <3>1, TotalGrows
  <2>3. i - 1 \in 0..n /\ i \in 0..n /\ n \in 0..n
    BY <1>4
  <2>4. Len(R[i]) \in Nat
    BY <1>4, LenProperties
  <2> HIDE DEF tR
  <2>5. tR[i - 1] \in Nat /\ tR[i] \in Nat /\ tR[n] \in Nat
    BY <2>1, <2>3
  <2> QED BY <2>1, <2>2, <2>4, <2>5
<1> HIDE DEF tW, tR, r, nk
<1>11. ASSUME NEW i \in 1..n, NEW k \in 1..Len(W[i])
       PROVE  /\ nk + tW[i - 1] + k \in 1..NumAllKeys(m)
              /\ all[nk + tW[i - 1] + k] = Entry(addresses, Key(i), W[i][k])
  <2> DEFINE x == tW[i - 1]
             j == x + k
  <2>1. j \in 1..w /\ x \in Nat /\ k \in Nat
    BY <1>4, <1>9
  <2>2. wr[j] = Entry(addresses, Key(i), W[i][k])
    BY <1>3
  <2> HIDE DEF x
  <2>3. nk + x + k = nk + j
    <3>1. nk \in Nat
      BY <1>1
    <3> QED BY <2>1, <3>1
  <2> HIDE DEF j
  <2>4. j \in 1..Len(res)
    BY <1>1, <2>1
  <2>5. all[nk + j] = res[j] /\ res[j] = wr[j]
    BY <1>1, <1>8, <2>1, <2>4
  <2>6. nk + j \in 1..NumAllKeys(m)
    BY <1>1, <2>1
  <2> QED BY <2>2, <2>3, <2>5, <2>6 DEF x
<1>12. ASSUME NEW i \in 1..n, NEW k \in 1..Len(R[i])
       PROVE  /\ nk + w + tR[i - 1] + k \in 1..NumAllKeys(m)
              /\ all[nk + w + tR[i - 1] + k] = Entry(addresses, Key(i), R[i][k])
  <2> DEFINE x == tR[i - 1]
             j == x + k
  <2>1. j \in 1..r /\ x \in Nat /\ k \in Nat
    BY <1>4, <1>10
  <2>2. ro[j] = Entry(addresses, Key(i), R[i][k])
    BY <1>3
  <2> HIDE DEF x
  <2>3. nk + w + x + k = nk + (w + j)
    <3>1. nk \in Nat /\ w \in Nat
      BY <1>1
    <3> QED BY <2>1, <3>1
  <2> HIDE DEF j
  <2>4. w + j \in 1..Len(res)
    BY <1>1, <2>1
  <2>5. all[nk + (w + j)] = res[w + j] /\ res[w + j] = ro[j]
    BY <1>1, <1>8, <2>1, <2>4
  <2>6. nk + (w + j) \in 1..NumAllKeys(m)
    BY <1>1, <2>1
  <2> QED BY <2>2, <2>3, <2>5, <2>6 DEF x
<1>13. Len(all) = NumAllKeys(m)
  BY <1>1, <1>6
<1> QED BY <1>6, <1>7, <1>8, <1>11, <1>12, <1>13 DEF all, keys, nk, n, W, R, tW, tR, w, res, Key

\* What execute checks of the accounts passed for one list of table indexes.
Passed(views, t, indexes, at) ==
    \A k \in 1..Len(indexes) :
        /\ indexes[k] < Len(table[t].addresses)
        /\ views[at + k] = table[t].addresses[indexes[k] + 1]

\* The comparison of execute, table by table.
LEMMA MatchSplits ==
    ASSUME NEW m \in Message, NEW views
    PROVE  AccountsMatch(m, views) <=>
             /\ Len(views) >= NumAllKeys(m) + Len(m.lookups)
             /\ \A i \in 1..Len(m.account_keys) : views[i] = m.account_keys[i]
             /\ \A i \in 1..Len(m.lookups) :
                   /\ views[NumAllKeys(m) + i] = m.lookups[i].account_key
                   /\ Usable(m.lookups[i].account_key)
                   /\ Passed(views, m.lookups[i].account_key, Writables(m)[i],
                             Len(m.account_keys) + Total(Writables(m))[i - 1])
                   /\ Passed(views, m.lookups[i].account_key, Readonlys(m)[i],
                             Len(m.account_keys) + NumWritableLookupKeys(m) + Total(Readonlys(m))[i - 1])
<1>1. DOMAIN m.account_keys = 1..Len(m.account_keys) /\ DOMAIN m.lookups = 1..Len(m.lookups)
  BY FitsEach, Groups, LenProperties
<1>2. \A i \in 1..Len(m.lookups) : /\ DOMAIN (Writables(m)[i]) = 1..Len(Writables(m)[i])
                                   /\ DOMAIN (Readonlys(m)[i]) = 1..Len(Readonlys(m)[i])
  BY Groups, LenProperties
<1> DEFINE At(i) == Len(m.account_keys) + Total(Writables(m))[i - 1]
           RoAt(i) == Len(m.account_keys) + NumWritableLookupKeys(m) + Total(Readonlys(m))[i - 1]
           Key(i) == m.lookups[i].account_key
           Over(t, indexes, at) ==
               \A k \in DOMAIN indexes :
                   /\ indexes[k] < Len(table[t].addresses)
                   /\ views[at + k] = table[t].addresses[indexes[k] + 1]
<1>3. AccountsMatch(m, views) <=>
        /\ Len(views) >= NumAllKeys(m) + Len(m.lookups)
        /\ \A i \in DOMAIN m.account_keys : views[i] = m.account_keys[i]
        /\ \A i \in DOMAIN m.lookups :
              /\ views[NumAllKeys(m) + i] = Key(i)
              /\ Usable(Key(i))
              /\ Over(Key(i), Writables(m)[i], At(i))
              /\ Over(Key(i), Readonlys(m)[i], RoAt(i))
  BY Zenon DEF AccountsMatch
<1>4. ASSUME NEW i \in 1..Len(m.lookups)
      PROVE  /\ Over(Key(i), Writables(m)[i], At(i)) <=> Passed(views, Key(i), Writables(m)[i], At(i))
             /\ Over(Key(i), Readonlys(m)[i], RoAt(i)) <=> Passed(views, Key(i), Readonlys(m)[i], RoAt(i))
  <2> HIDE DEF At, RoAt, Key
  <2> QED BY <1>2, Zenon DEF Passed
<1> HIDE DEF Over
<1> QED BY <1>1, <1>3, <1>4

\* Accounts that pass the comparison are the ones the message names.
LEMMA ViewsAreNamed ==
    ASSUME TablesTyped, NEW m \in Message, NEW views, AccountsMatch(m, views),
           NEW x \in 1..NumAllKeys(m)
    PROVE  views[x] = Named(m, AddressesNow)[x]
<1> DEFINE all == Named(m, AddressesNow)
           nk == Len(m.account_keys)
           n == Len(m.lookups)
           W == Writables(m)
           R == Readonlys(m)
           tW == Total(W)
           tR == Total(R)
           w == NumWritableLookupKeys(m)
           r == tR[n]
           Key(i) == m.lookups[i].account_key
<1>1. AddressesNow \in Addresses /\ \A t \in Tables : AddressesNow[t] = table[t].addresses
  BY NowTyped
<1>2. w \in Nat /\ r \in Nat /\ nk \in Nat /\ NumAllKeys(m) = nk + w + r
  BY <1>1, ResolvedPlace
<1>3. /\ \A j \in 1..nk : all[j] = m.account_keys[j]
      /\ \A i \in 1..n : \A k \in 1..Len(W[i]) :
            all[nk + tW[i - 1] + k] = Entry(AddressesNow, Key(i), W[i][k])
      /\ \A i \in 1..n : \A k \in 1..Len(R[i]) :
            all[nk + w + tR[i - 1] + k] = Entry(AddressesNow, Key(i), R[i][k])
  BY <1>1, NamedPlace
<1>4. /\ \A i \in 1..nk : views[i] = m.account_keys[i]
      /\ \A i \in 1..n : /\ Usable(Key(i))
                         /\ Passed(views, Key(i), W[i], nk + tW[i - 1])
                         /\ Passed(views, Key(i), R[i], nk + w + tR[i - 1])
  BY MatchSplits
<1>5. /\ n \in Nat /\ W \in Seq(Seq(Cell)) /\ Len(W) = n /\ R \in Seq(Seq(Cell)) /\ Len(R) = n
  BY Groups
<1>6. w = tW[n]
  BY DEF NumWritableLookupKeys
<1>7. ASSUME NEW i \in 1..n, NEW ix, ix < Len(table[Key(i)].addresses)
      PROVE  Entry(AddressesNow, Key(i), ix) = table[Key(i)].addresses[ix + 1]
  <2>1. Key(i) \in Tables
    BY <1>4 DEF Usable
  <2> QED BY <1>1, <1>7, <2>1 DEF Entry
<1>8. CASE x \in 1..nk
  BY <1>3, <1>4, <1>8
<1>9. CASE x - nk \in 1..w
  <2> DEFINE y == x - nk
  <2>1. PICK i \in 1..n : \E k \in 1..Len(W[i]) : y = tW[i - 1] + k
    <3>1. y \in 1..Total(W)[Len(W)]
      BY <1>5, <1>6, <1>9
    <3> HIDE DEF y, W
    <3>2. \E i \in 1..Len(W) : \E k \in 1..Len(W[i]) : y = Total(W)[i - 1] + k
      BY <1>5, <3>1, TotalSplits
    <3> QED BY <1>5, <3>2
  <2>2. PICK k \in 1..Len(W[i]) : y = tW[i - 1] + k
    BY <2>1
  <2>3. tW[i - 1] \in Nat
    <3>1. tW \in [0..n -> Nat]
      BY <1>5, TotalSteps
    <3>2. i - 1 \in 0..n
      BY <1>5
    <3> HIDE DEF tW
    <3> QED BY <3>1, <3>2
  <2>4. x = nk + tW[i - 1] + k
    <3>1. k \in Int /\ x \in Int
      BY <1>2
    <3> HIDE DEF tW, nk
    <3> QED BY <1>2, <2>2, <2>3, <3>1
  <2>5. all[nk + tW[i - 1] + k] = Entry(AddressesNow, Key(i), W[i][k])
    BY <1>3
  <2>6. /\ W[i][k] < Len(table[Key(i)].addresses)
        /\ views[nk + tW[i - 1] + k] = table[Key(i)].addresses[W[i][k] + 1]
    BY <1>4 DEF Passed
  <2> HIDE DEF all, nk, tW, W, Key
  <2> QED BY <1>7, <2>4, <2>5, <2>6 DEF all
<1>10. CASE x - (nk + w) \in 1..r
  <2> DEFINE y == x - (nk + w)
  <2>1. PICK i \in 1..n : \E k \in 1..Len(R[i]) : y = tR[i - 1] + k
    <3>1. y \in 1..Total(R)[Len(R)]
      BY <1>5, <1>10
    <3> HIDE DEF y, R
    <3>2. \E i \in 1..Len(R) : \E k \in 1..Len(R[i]) : y = Total(R)[i - 1] + k
      BY <1>5, <3>1, TotalSplits
    <3> QED BY <1>5, <3>2
  <2>2. PICK k \in 1..Len(R[i]) : y = tR[i - 1] + k
    BY <2>1
  <2>3. tR[i - 1] \in Nat
    <3>1. tR \in [0..n -> Nat]
      BY <1>5, TotalSteps
    <3>2. i - 1 \in 0..n
      BY <1>5
    <3> HIDE DEF tR
    <3> QED BY <3>1, <3>2
  <2>4. x = nk + w + tR[i - 1] + k
    <3>1. k \in Int /\ x \in Int
      BY <1>2
    <3> DEFINE z == tR[i - 1]
    <3>2. x - (nk + w) = z + k /\ z \in Nat
      BY <2>2, <2>3
    <3> HIDE DEF z, nk, w
    <3>3. x = nk + w + z + k
      BY <1>2, <3>1, <3>2
    <3> QED BY <3>3 DEF z
  <2>5. all[nk + w + tR[i - 1] + k] = Entry(AddressesNow, Key(i), R[i][k])
    BY <1>3
  <2>6. /\ R[i][k] < Len(table[Key(i)].addresses)
        /\ views[nk + w + tR[i - 1] + k] = table[Key(i)].addresses[R[i][k] + 1]
    BY <1>4 DEF Passed
  <2> HIDE DEF all, nk, tR, R, Key, w
  <2> QED BY <1>7, <2>4, <2>5, <2>6 DEF all
<1>11. x \in 1..nk \/ x - nk \in 1..w \/ x - (nk + w) \in 1..r
  <2> HIDE DEF nk, w, r
  <2> QED BY <1>2
<1> QED BY <1>8, <1>9, <1>10, <1>11

(***************************************************************************)
(* The client's list of accounts.                                          *)
(***************************************************************************)
Meta == [address : Cell, writable : BOOLEAN]

\* What the client passes, and with which privilege.
LEMMA ClientPlace ==
    ASSUME TablesTyped, NEW m \in Message
    PROVE  LET accounts == ClientAccounts(m)
               all == Named(m, AddressesNow)
               nk == Len(m.account_keys)
               n == NumAllKeys(m)
           IN  /\ DOMAIN accounts = 1..(n + Len(m.lookups)) /\ n \in Nat
               /\ \A x \in 1..n : /\ accounts[x].address = all[x]
                                  /\ accounts[x].writable = IsWritable(m, x - 1)
               /\ \A i \in 1..Len(m.lookups) : accounts[n + i].address = m.lookups[i].account_key
<1> DEFINE accounts == ClientAccounts(m)
           all == Named(m, AddressesNow)
           keys == m.account_keys
           nk == Len(keys)
           res == Resolved(m, AddressesNow)
           nr == Len(res)
           nl == Len(m.lookups)
           n == NumAllKeys(m)
           w == NumWritableLookupKeys(m)
           A == [i \in 1..nk |-> [address |-> keys[i], writable |-> ClientIsWritable(m, i - 1)]]
           B == [i \in 1..nr |-> [address |-> res[i], writable |-> i - 1 < w]]
           C == [i \in 1..nl |-> [address |-> m.lookups[i].account_key, writable |-> FALSE]]
<1>1. AddressesNow \in Addresses
  BY NowTyped
<1>2. /\ nk \in Nat /\ res \in Seq(Cell) /\ keys \in Seq(Cell) /\ nr \in Nat
      /\ n = nk + nr /\ n \in Nat /\ w \in Nat
  <2> DEFINE r == Total(Readonlys(m))[nl]
  <2>1. /\ w \in Nat /\ r \in Nat /\ nk \in Nat /\ n = nk + w + r /\ res \in Seq(Cell) /\ nr = w + r
    BY <1>1, ResolvedPlace
  <2>2. keys \in Seq(Cell)
    BY FitsEach
  <2> HIDE DEF nk, w, r, n, nr, res, keys
  <2>3. n = nk + nr /\ n \in Nat /\ nr \in Nat
    BY <2>1
  <2> QED BY <2>1, <2>2, <2>3
<1>3. nl \in Nat /\ \A i \in 1..nl : m.lookups[i].account_key \in Cell
  BY Groups
<1>4. accounts = A \o B \o C
  <2>1. DOMAIN keys = 1..nk /\ DOMAIN res = 1..nr /\ DOMAIN m.lookups = 1..nl
    BY <1>2, Groups, LenProperties
  <2>2. Total(Writables(m))[Len(m.lookups)] = w
    BY DEF NumWritableLookupKeys
  <2> HIDE DEF w
  <2> QED BY <2>1, <2>2, Zenon DEF ClientAccounts, ExecuteAccounts
<1>5. \A j \in 1..nk : all[j] = keys[j]
  BY <1>1, NamedPlace
<1>6. \A j \in 1..nr : all[nk + j] = res[j]
  BY <1>1, NamedPlace
<1>7. A \in Seq(Meta) /\ Len(A) = nk
  <2>1. \A i \in 1..nk : keys[i] \in Cell /\ ClientIsWritable(m, i - 1) \in BOOLEAN
    BY <1>2, ElementOfSeq DEF ClientIsWritable
  <2>2. A \in [1..nk -> Meta]
    <3> HIDE DEF keys, nk
    <3> QED BY <2>1 DEF Meta
  <2> HIDE DEF A
  <2> QED BY <1>2, <2>2, IsASeq
<1>8. B \in Seq(Meta) /\ Len(B) = nr
  <2>1. \A i \in 1..nr : res[i] \in Cell
    BY <1>2, ElementOfSeq
  <2>2. B \in [1..nr -> Meta]
    <3> HIDE DEF res, nr
    <3> QED BY <2>1 DEF Meta
  <2> HIDE DEF B
  <2> QED BY <1>2, <2>2, IsASeq
<1>9. C \in Seq(Meta) /\ Len(C) = nl
  <2>1. C \in [1..nl -> Meta]
    BY <1>3 DEF Meta
  <2> HIDE DEF C
  <2> QED BY <1>3, <2>1, IsASeq
<1>10. /\ \A i \in 1..nk : A[i].address = keys[i] /\ A[i].writable = ClientIsWritable(m, i - 1)
       /\ \A i \in 1..nr : B[i].address = res[i] /\ B[i].writable = (i - 1 < w)
       /\ \A i \in 1..nl : C[i].address = m.lookups[i].account_key
  OBVIOUS
<1> HIDE DEF A, B, C, accounts, all, keys, nk, res, nr, nl, n, w
<1> DEFINE AB == A \o B
<1>11. AB \in Seq(Meta) /\ Len(AB) = nk + nr
  BY <1>7, <1>8, ConcatProperties
<1>12. /\ \A i \in 1..nk : AB[i] = A[i]
       /\ \A i \in 1..nr : AB[nk + i] = B[i]
  BY <1>7, <1>8, CellOfFirst, CellOfTwo
<1>13. accounts = AB \o C
  BY <1>4
<1> HIDE DEF AB
<1>14. accounts \in Seq(Meta) /\ Len(accounts) = n + nl
  BY <1>2, <1>9, <1>11, <1>13, ConcatProperties
<1>15. /\ \A i \in 1..n : accounts[i] = AB[i]
       /\ \A i \in 1..nl : accounts[n + i] = C[i]
  <2>1. Len(AB) = n
    BY <1>2, <1>11
  <2> QED BY <1>9, <1>11, <1>13, <2>1, CellOfFirst, CellOfTwo
<1>16. ASSUME NEW x \in 1..n
       PROVE  accounts[x].address = all[x] /\ accounts[x].writable = IsWritable(m, x - 1)
  <2>1. CASE x \in 1..nk
    <3>1. accounts[x] = A[x]
      BY <1>12, <1>15, <2>1
    <3>2. accounts[x].address = all[x]
      BY <1>5, <1>10, <2>1, <3>1
    <3>3. ~(x - 1 >= nk)
      BY <1>2, <2>1
    <3>4. IsWritable(m, x - 1) = ClientIsWritable(m, x - 1)
      BY <3>3, Zenon DEF IsWritable, ClientIsWritable, nk, keys
    <3> QED BY <1>10, <2>1, <3>1, <3>2, <3>4
  <2>2. CASE x \notin 1..nk
    <3> DEFINE j == x - nk
    <3>1. j \in 1..nr /\ x = nk + j
      BY <1>2, <2>2
    <3> HIDE DEF j
    <3>2. accounts[x] = B[j] /\ all[x] = res[j]
      BY <1>6, <1>12, <1>15, <3>1
    <3>3. x - 1 >= nk /\ (x - 1) - nk = j - 1
      BY <1>2, <3>1
    <3>4. IsWritable(m, x - 1) = ((x - 1) - nk < w)
      BY <3>3, Zenon DEF IsWritable, nk, keys, w
    <3> QED BY <1>10, <3>1, <3>2, <3>3, <3>4
  <2> QED BY <2>1, <2>2
<1>17. \A i \in 1..nl : accounts[n + i].address = m.lookups[i].account_key
  BY <1>10, <1>15
<1>18. DOMAIN accounts = 1..(n + nl)
  BY <1>14, LenProperties
<1> QED BY <1>2, <1>16, <1>17, <1>18 DEF accounts, all, nl, n

\* While the tables of a message are active and hold its entries.
Loadable(m) ==
    \A i \in DOMAIN m.lookups :
        LET l == m.lookups[i]
        IN  /\ l.account_key \in Tables
            /\ table[l.account_key].state = "active"
            /\ \A x \in ToSet(l.writable_indexes) \cup ToSet(l.readonly_indexes) :
                   x < Len(table[l.account_key].addresses)

\* The client's accounts pass the comparison.
LEMMA ClientServes ==
    ASSUME TablesTyped, NEW m \in Message, Loadable(m)
    PROVE  AccountsMatch(m, ClientViews(m))
<1> DEFINE views == ClientViews(m)
           accounts == ClientAccounts(m)
           all == Named(m, AddressesNow)
           nk == Len(m.account_keys)
           nl == Len(m.lookups)
           n == NumAllKeys(m)
           W == Writables(m)
           R == Readonlys(m)
           Key(i) == m.lookups[i].account_key
           At(i) == nk + Total(W)[i - 1]
           RoAt(i) == nk + NumWritableLookupKeys(m) + Total(R)[i - 1]
<1>1. AddressesNow \in Addresses /\ \A t \in Tables : AddressesNow[t] = table[t].addresses
  BY NowTyped
<1>2. nk \in Nat /\ nl \in Nat /\ n \in Nat /\ nk <= n
  <2> DEFINE w == NumWritableLookupKeys(m)
             r == Total(Readonlys(m))[Len(m.lookups)]
  <2>1. w \in Nat /\ r \in Nat /\ nk \in Nat /\ n = nk + w + r
    BY <1>1, ResolvedPlace
  <2>2. nl \in Nat
    BY Groups
  <2> HIDE DEF nk, n, w, r
  <2> QED BY <2>1, <2>2
<1>3. /\ DOMAIN accounts = 1..(n + nl)
      /\ \A x \in 1..n : accounts[x].address = all[x]
      /\ \A i \in 1..nl : accounts[n + i].address = Key(i)
  BY ClientPlace
<1>4. /\ \A j \in 1..nk : all[j] = m.account_keys[j]
      /\ \A i \in 1..nl : \A k \in 1..Len(W[i]) :
            At(i) + k \in 1..n /\ all[At(i) + k] = Entry(AddressesNow, Key(i), W[i][k])
      /\ \A i \in 1..nl : \A k \in 1..Len(R[i]) :
            RoAt(i) + k \in 1..n /\ all[RoAt(i) + k] = Entry(AddressesNow, Key(i), R[i][k])
  BY <1>1, NamedPlace
<1>5. /\ DOMAIN m.lookups = 1..nl
      /\ \A i \in 1..nl : /\ W[i] = m.lookups[i].writable_indexes
                          /\ R[i] = m.lookups[i].readonly_indexes
                          /\ W[i] \in Seq(Cell) /\ R[i] \in Seq(Cell)
  BY Groups
<1>6. \A i \in 1..nl : /\ Key(i) \in Tables /\ Usable(Key(i))
                       /\ \A k \in 1..Len(W[i]) : W[i][k] < Len(table[Key(i)].addresses)
                       /\ \A k \in 1..Len(R[i]) : R[i][k] < Len(table[Key(i)].addresses)
  <2> SUFFICES ASSUME NEW i \in 1..nl
               PROVE  /\ Key(i) \in Tables /\ Usable(Key(i))
                      /\ \A k \in 1..Len(W[i]) : W[i][k] < Len(table[Key(i)].addresses)
                      /\ \A k \in 1..Len(R[i]) : R[i][k] < Len(table[Key(i)].addresses)
    OBVIOUS
  <2>1. /\ Key(i) \in Tables /\ table[Key(i)].state = "active"
        /\ \A x \in ToSet(W[i]) \cup ToSet(R[i]) : x < Len(table[Key(i)].addresses)
    BY <1>5 DEF Loadable
  <2>2. DOMAIN (W[i]) = 1..Len(W[i]) /\ DOMAIN (R[i]) = 1..Len(R[i])
    BY <1>5, LenProperties
  <2> HIDE DEF W, R, Key
  <2>3. (\A k \in 1..Len(W[i]) : W[i][k] \in ToSet(W[i])) /\ (\A k \in 1..Len(R[i]) : R[i][k] \in ToSet(R[i]))
    BY <2>2 DEF ToSet
  <2> QED BY <2>1, <2>3 DEF Usable
<1>7. views = [i \in 1..(n + nl) |-> accounts[i].address]
  <2> HIDE DEF n, nl
  <2> QED BY <1>3 DEF ClientViews
<1> HIDE DEF views, accounts, all, nk, nl, n, W, R, Key, At, RoAt
<1>8. Len(views) = n + nl
  <2> DEFINE S == {views[i] : i \in 1..(n + nl)}
  <2>1. views \in [1..(n + nl) -> S] /\ n + nl \in Nat
    BY <1>2, <1>7
  <2> HIDE DEF S
  <2> QED BY <2>1, IsASeq
<1>9. /\ \A x \in 1..n : views[x] = all[x]
      /\ \A i \in 1..nl : views[n + i] = Key(i)
  <2>1. (\A x \in 1..n : x \in 1..(n + nl)) /\ \A i \in 1..nl : n + i \in 1..(n + nl)
    BY <1>2
  <2> QED BY <1>3, <1>7, <2>1
<1>10. \A i \in 1..nk : views[i] = m.account_keys[i]
  <2>1. \A i \in 1..nk : i \in 1..n
    BY <1>2
  <2> QED BY <1>4, <1>9, <2>1
<1>11. ASSUME NEW i \in 1..nl, NEW ix, ix < Len(table[Key(i)].addresses)
       PROVE  Entry(AddressesNow, Key(i), ix) = table[Key(i)].addresses[ix + 1]
  BY <1>1, <1>6, <1>11 DEF Entry
<1>12. ASSUME NEW i \in 1..nl
       PROVE  /\ Passed(views, Key(i), W[i], At(i))
              /\ Passed(views, Key(i), R[i], RoAt(i))
  <2>1. ASSUME NEW k \in 1..Len(W[i])
        PROVE  /\ W[i][k] < Len(table[Key(i)].addresses)
               /\ views[At(i) + k] = table[Key(i)].addresses[W[i][k] + 1]
    BY <1>4, <1>6, <1>9, <1>11
  <2>2. ASSUME NEW k \in 1..Len(R[i])
        PROVE  /\ R[i][k] < Len(table[Key(i)].addresses)
               /\ views[RoAt(i) + k] = table[Key(i)].addresses[R[i][k] + 1]
    BY <1>4, <1>6, <1>9, <1>11
  <2> QED BY <2>1, <2>2 DEF Passed
<1>13. Len(views) >= n + nl
  BY <1>2, <1>8
<1> QED BY <1>6, <1>9, <1>10, <1>12, <1>13, MatchSplits DEF nk, nl, n, W, R, Key, At, RoAt, views

\* The list the client makes is taken, with the privileges the program asks
\* for, whatever the message and the tables (client.rs, execute_accounts).
THEOREM AccountsServe == Spec => []ClientAccountsServe
<1>1. MInv => ClientAccountsServe
  <2> SUFFICES ASSUME MInv, Stored, Loadable(proposal.message)
               PROVE  LET m == proposal.message
                          accounts == ClientAccounts(m)
                      IN  /\ AccountsMatch(m, ClientViews(m))
                          /\ \A i \in 1..NumAllKeys(m) : accounts[i].writable = IsWritable(m, i - 1)
    BY DEF ClientAccountsServe, Loadable
  <2> DEFINE m == proposal.message
  <2>1. m \in Message /\ TablesTyped
    BY StoredMessage DEF MInv
  <2> HIDE DEF m
  <2>2. Loadable(m)
    BY DEF m
  <2>3. AccountsMatch(m, ClientViews(m))
    BY <2>1, <2>2, ClientServes
  <2>4. \A i \in 1..NumAllKeys(m) : ClientAccounts(m)[i].writable = IsWritable(m, i - 1)
    BY <2>1, ClientPlace
  <2> QED BY <2>3, <2>4 DEF m
<1> QED BY <1>1, MessageInvariant, PTL

(***************************************************************************)
(* What runs is what was approved.                                         *)
(***************************************************************************)
Placed(c, at, p) == \A k \in 1..Len(p) : c[at + k] = p[k]

\* What was placed stays where it is when more is written after it.
LEMMA PlaceNext ==
    ASSUME NEW S, NEW u \in Seq(S), NEW v \in Seq(S)
    PROVE  /\ u \o v \in Seq(S) /\ Len(u \o v) = Len(u) + Len(v)
           /\ Placed(u \o v, Len(u), v)
           /\ \A at \in Nat, p \in Seq(S) :
                 at + Len(p) <= Len(u) /\ Placed(u, at, p) => Placed(u \o v, at, p)
<1> DEFINE c == u \o v
<1>1. c \in Seq(S) /\ Len(c) = Len(u) + Len(v) /\ Len(u) \in Nat
  BY ConcatProperties, LenProperties
<1>2. \A k \in 1..Len(u) : c[k] = u[k]
  BY CellOfFirst
<1>3. \A k \in 1..Len(v) : c[Len(u) + k] = v[k]
  BY CellOfTwo
<1> HIDE DEF c
<1>4. ASSUME NEW at \in Nat, NEW p \in Seq(S), at + Len(p) <= Len(u), Placed(u, at, p)
      PROVE  Placed(c, at, p)
  <2> SUFFICES ASSUME NEW k \in 1..Len(p) PROVE c[at + k] = p[k]
    BY DEF Placed
  <2>1. Len(p) \in Nat
    BY LenProperties
  <2>2. at + k \in 1..Len(u)
    BY <1>1, <1>4, <2>1
  <2> QED BY <1>2, <1>4, <2>2 DEF Placed
<1> QED BY <1>1, <1>3, <1>4 DEF c, Placed

\* Where each of six parts is in their concatenation.
LEMMA SixParts ==
    ASSUME NEW S, NEW p1 \in Seq(S), NEW p2 \in Seq(S), NEW p3 \in Seq(S),
           NEW p4 \in Seq(S), NEW p5 \in Seq(S), NEW p6 \in Seq(S),
           NEW o2, o2 = Len(p1), NEW o3, o3 = o2 + Len(p2), NEW o4, o4 = o3 + Len(p3),
           NEW o5, o5 = o4 + Len(p4), NEW o6, o6 = o5 + Len(p5)
    PROVE  LET c == p1 \o p2 \o p3 \o p4 \o p5 \o p6
           IN  /\ Placed(c, 0, p1) /\ Placed(c, o2, p2) /\ Placed(c, o3, p3)
               /\ Placed(c, o4, p4) /\ Placed(c, o5, p5) /\ Placed(c, o6, p6)
<1> DEFINE c2 == p1 \o p2
           c3 == c2 \o p3
           c4 == c3 \o p4
           c5 == c4 \o p5
           c6 == c5 \o p6
<1>1. /\ Len(p1) \in Nat /\ Len(p2) \in Nat /\ Len(p3) \in Nat /\ Len(p4) \in Nat
      /\ Len(p5) \in Nat /\ Len(p6) \in Nat
  BY LenProperties
<1>2. /\ o2 \in Nat /\ o3 \in Nat /\ o4 \in Nat /\ o5 \in Nat /\ o6 \in Nat
      /\ o2 <= o3 /\ o3 <= o4 /\ o4 <= o5 /\ o5 <= o6
      /\ 0 + Len(p1) <= o2 /\ o2 + Len(p2) <= o3 /\ o3 + Len(p3) <= o4
      /\ o4 + Len(p4) <= o5 /\ o5 + Len(p5) <= o6
  BY <1>1
<1>3. Placed(p1, 0, p1)
  <2>1. \A k \in 1..Len(p1) : 0 + k = k
    BY <1>1
  <2> QED BY <2>1 DEF Placed
<1>4. c2 \in Seq(S) /\ Len(c2) = o3 /\ Placed(c2, 0, p1) /\ Placed(c2, o2, p2)
  BY <1>2, <1>3, PlaceNext
<1> HIDE DEF c2
<1>5. c3 \in Seq(S) /\ Len(c3) = o4 /\ Placed(c3, o3, p3)
  <2>1. c3 \in Seq(S) /\ Len(c3) = Len(c2) + Len(p3) /\ Placed(c3, Len(c2), p3)
    BY <1>4, PlaceNext
  <2> HIDE DEF c3
  <2> QED BY <1>4, <2>1
<1>6. Placed(c3, 0, p1) /\ Placed(c3, o2, p2)
  <2>1. 0 + Len(p1) <= o3 /\ o2 + Len(p2) <= o3 /\ 0 \in Nat
    BY <1>1, <1>2
  <2> QED BY <1>2, <1>4, <2>1, PlaceNext
<1> HIDE DEF c3
<1>7. c4 \in Seq(S) /\ Len(c4) = o5 /\ Placed(c4, o4, p4)
  <2>1. c4 \in Seq(S) /\ Len(c4) = Len(c3) + Len(p4) /\ Placed(c4, Len(c3), p4)
    BY <1>5, PlaceNext
  <2> HIDE DEF c4
  <2> QED BY <1>5, <2>1
<1>8. Placed(c4, 0, p1) /\ Placed(c4, o2, p2) /\ Placed(c4, o3, p3)
  <2>1. 0 + Len(p1) <= o4 /\ o2 + Len(p2) <= o4 /\ o3 + Len(p3) <= o4 /\ 0 \in Nat
    BY <1>1, <1>2
  <2> QED BY <1>2, <1>5, <1>6, <2>1, PlaceNext
<1> HIDE DEF c4
<1>9. c5 \in Seq(S) /\ Len(c5) = o6 /\ Placed(c5, o5, p5)
  <2>1. c5 \in Seq(S) /\ Len(c5) = Len(c4) + Len(p5) /\ Placed(c5, Len(c4), p5)
    BY <1>7, PlaceNext
  <2> HIDE DEF c5
  <2> QED BY <1>7, <2>1
<1>10. Placed(c5, 0, p1) /\ Placed(c5, o2, p2) /\ Placed(c5, o3, p3) /\ Placed(c5, o4, p4)
  <2>1. /\ 0 + Len(p1) <= o5 /\ o2 + Len(p2) <= o5 /\ o3 + Len(p3) <= o5
        /\ o4 + Len(p4) <= o5 /\ 0 \in Nat
    BY <1>1, <1>2
  <2> QED BY <1>2, <1>7, <1>8, <2>1, PlaceNext
<1> HIDE DEF c5
<1>11. Placed(c6, o6, p6)
  BY <1>9, PlaceNext
<1>12. /\ Placed(c6, 0, p1) /\ Placed(c6, o2, p2) /\ Placed(c6, o3, p3) /\ Placed(c6, o4, p4)
       /\ Placed(c6, o5, p5)
  <2>1. /\ 0 + Len(p1) <= o6 /\ o2 + Len(p2) <= o6 /\ o3 + Len(p3) <= o6
        /\ o4 + Len(p4) <= o6 /\ o5 + Len(p5) <= o6 /\ 0 \in Nat
    BY <1>1, <1>2
  <2> QED BY <1>2, <1>9, <1>10, <2>1, PlaceNext
<1> QED BY <1>11, <1>12 DEF c6, c5, c4, c3, c2

\* A slice, and where its cells come from.
LEMMA SliceAt ==
    ASSUME NEW S, NEW c \in Seq(S), NEW x \in 0..Len(c), NEW y \in x..Len(c)
    PROVE  /\ SubSeq(c, x + 1, y) \in Seq(S) /\ Len(SubSeq(c, x + 1, y)) = y - x
           /\ \A k \in 1..(y - x) : SubSeq(c, x + 1, y)[k] = c[x + k]
<1> DEFINE r == SubSeq(c, x + 1, y)
<1>1. Len(c) \in Nat /\ \A k \in 1..Len(c) : c[k] \in S
  BY LenProperties, ElementOfSeq
<1>2. x + 1 \in Int /\ y \in Int /\ \A k \in (x + 1)..y : c[k] \in S
  BY <1>1
<1>3. /\ r \in Seq(S) /\ Len(r) = (IF x + 1 <= y THEN y - (x + 1) + 1 ELSE 0)
      /\ \A k \in 1..(y - (x + 1) + 1) : r[k] = c[(x + 1) + k - 1]
  BY <1>2, SubSeqProperties
<1> HIDE DEF r
<1>4. Len(r) = y - x /\ y - (x + 1) + 1 = y - x /\ \A k \in 1..(y - x) : (x + 1) + k - 1 = x + k
  BY <1>1, <1>3
<1>5. \A k \in 1..(y - x) : r[k] = c[x + k]
  BY <1>3, <1>4
<1> QED BY <1>3, <1>4, <1>5 DEF r

\* One privilege group.
Privileged == [address : Cell, writable : BOOLEAN, signer : BOOLEAN]
Grouped(accounts, writable, signer) ==
    [i \in DOMAIN accounts |-> [address |-> accounts[i], writable |-> writable, signer |-> signer]]

\* The accounts of a group, with its privileges.
LEMMA GroupPlace ==
    ASSUME NEW a \in Seq(Cell), NEW w \in BOOLEAN, NEW s \in BOOLEAN
    PROVE  /\ Grouped(a, w, s) \in Seq(Privileged) /\ Len(Grouped(a, w, s)) = Len(a)
           /\ \A k \in 1..Len(a) :
                 Grouped(a, w, s)[k] = [address |-> a[k], writable |-> w, signer |-> s]
<1> DEFINE g == Grouped(a, w, s)
<1>1. Len(a) \in Nat /\ DOMAIN a = 1..Len(a) /\ \A k \in 1..Len(a) : a[k] \in Cell
  BY LenProperties, ElementOfSeq
<1>2. g = [k \in 1..Len(a) |-> [address |-> a[k], writable |-> w, signer |-> s]]
  BY <1>1 DEF Grouped
<1> HIDE DEF g
<1>3. g \in [1..Len(a) -> Privileged]
  BY <1>1, <1>2 DEF Privileged
<1>4. g \in Seq(Privileged) /\ Len(g) = Len(a)
  BY <1>1, <1>3, IsASeq
<1> QED BY <1>2, <1>4 DEF g

\* The account at an index of a message, with its privileges, is the one the
\* groups of the layout put there.
LEMMA ApprovedAt ==
    ASSUME NEW m \in Message, HeaderFits(m), NEW addresses \in Addresses, NEW x \in 0..(NumAllKeys(m) - 1)
    PROVE  Approved(m, addresses)[x + 1]
             = [address |-> Named(m, addresses)[x + 1], writable |-> IsWritable(m, x),
                signer |-> IsSigner(m, x)]
<1> DEFINE keys == m.account_keys
           nk == Len(keys)
           ws == m.num_writable_signers
           s == m.num_signers
           wn == s + m.num_writable_non_signers
           w == NumWritableLookupKeys(m)
           r == Total(Readonlys(m))[Len(m.lookups)]
           all == Named(m, addresses)
           a1 == SubSeq(keys, 0 + 1, ws)
           a2 == SubSeq(keys, ws + 1, s)
           a3 == SubSeq(keys, s + 1, wn)
           a4 == SubSeq(keys, wn + 1, nk)
           a5 == FlattenSeq(EntriesOf(m, Writables(m), addresses))
           a6 == FlattenSeq(EntriesOf(m, Readonlys(m), addresses))
           g1 == Grouped(a1, TRUE, TRUE)
           g2 == Grouped(a2, FALSE, TRUE)
           g3 == Grouped(a3, TRUE, FALSE)
           g4 == Grouped(a4, FALSE, FALSE)
           g5 == Grouped(a5, TRUE, FALSE)
           g6 == Grouped(a6, FALSE, FALSE)
           c == g1 \o g2 \o g3 \o g4 \o g5 \o g6
<1>1. /\ Approved(m, addresses) = c
  BY Zenon DEF Approved, Grouped
<1>2. /\ ws \in Nat /\ s \in Nat /\ wn \in Nat /\ nk \in Nat /\ w \in Nat /\ r \in Nat
      /\ ws <= s /\ s <= wn /\ wn <= nk /\ NumAllKeys(m) = nk + w + r
      /\ keys \in Seq(Cell) /\ wn - s = m.num_writable_non_signers
      /\ m.num_writable_non_signers \in Nat
  <2>1. {s, ws, m.num_writable_non_signers} \subseteq Cell /\ keys \in Seq(Cell)
    BY FitsEach
  <2>2. \A y \in Cell : y \in Nat
    BY CellTypes DEF Cell
  <2>3. w \in Nat /\ r \in Nat /\ nk \in Nat /\ NumAllKeys(m) = nk + w + r
    BY ResolvedPlace
  <2>4. ws <= s /\ wn <= nk
    BY DEF HeaderFits
  <2> DEFINE o == m.num_writable_non_signers
  <2>5. s \in Nat /\ ws \in Nat /\ o \in Nat
    BY <2>1, <2>2
  <2>6. wn \in Nat /\ s <= wn /\ wn - s = o
    <3>1. wn = s + o
      OBVIOUS
    <3> HIDE DEF s, o, wn
    <3> QED BY <2>5, <3>1
  <2> QED BY <2>1, <2>3, <2>4, <2>5, <2>6
<1>3. /\ a5 \in Seq(Cell) /\ Len(a5) = w /\ a6 \in Seq(Cell) /\ Len(a6) = r
      /\ \A j \in 1..w : Resolved(m, addresses)[j] = a5[j]
      /\ \A j \in 1..r : Resolved(m, addresses)[w + j] = a6[j]
      /\ Len(Resolved(m, addresses)) = w + r
  BY ResolvedPlace
<1>4. /\ \A j \in 1..nk : all[j] = keys[j]
      /\ \A j \in 1..Len(Resolved(m, addresses)) : all[nk + j] = Resolved(m, addresses)[j]
  BY NamedPlace
<1>5. /\ \A j \in 1..w : all[nk + j] = a5[j]
      /\ \A j \in 1..r : all[nk + w + j] = a6[j]
  <2> DEFINE res == Resolved(m, addresses)
  <2>1. /\ \A j \in 1..w : res[j] = a5[j]
        /\ \A j \in 1..r : res[w + j] = a6[j]
        /\ Len(res) = w + r
        /\ \A j \in 1..Len(res) : all[nk + j] = res[j]
    BY <1>3, <1>4
  <2> HIDE DEF all, a5, a6, nk, w, r, res
  <2>2. \A j \in 1..w : j \in 1..Len(res)
    BY <1>2, <2>1
  <2>3. \A j \in 1..r : w + j \in 1..Len(res) /\ nk + w + j = nk + (w + j)
    BY <1>2, <2>1
  <2> QED BY <2>1, <2>2, <2>3
<1> HIDE DEF keys, nk, ws, s, wn, w, r, all, a5, a6
<1>6. /\ a1 \in Seq(Cell) /\ Len(a1) = ws - 0 /\ \A k \in 1..(ws - 0) : a1[k] = keys[0 + k]
  <2>1. 0 \in 0..Len(keys) /\ ws \in 0..Len(keys)
    BY <1>2 DEF nk
  <2> QED BY <1>2, <2>1, SliceAt
<1>7. /\ a2 \in Seq(Cell) /\ Len(a2) = s - ws /\ \A k \in 1..(s - ws) : a2[k] = keys[ws + k]
  <2>1. ws \in 0..Len(keys) /\ s \in ws..Len(keys)
    BY <1>2 DEF nk
  <2> QED BY <1>2, <2>1, SliceAt
<1>8. /\ a3 \in Seq(Cell) /\ Len(a3) = wn - s /\ \A k \in 1..(wn - s) : a3[k] = keys[s + k]
  <2>1. s \in 0..Len(keys) /\ wn \in s..Len(keys)
    BY <1>2 DEF nk
  <2> QED BY <1>2, <2>1, SliceAt
<1>9. /\ a4 \in Seq(Cell) /\ Len(a4) = nk - wn /\ \A k \in 1..(nk - wn) : a4[k] = keys[wn + k]
  <2>1. wn \in 0..Len(keys) /\ nk \in wn..Len(keys)
    BY <1>2 DEF nk
  <2> QED BY <1>2, <2>1, SliceAt
<1> HIDE DEF a1, a2, a3, a4
<1>10. /\ g1 \in Seq(Privileged) /\ Len(g1) = Len(a1)
       /\ g2 \in Seq(Privileged) /\ Len(g2) = Len(a2)
       /\ g3 \in Seq(Privileged) /\ Len(g3) = Len(a3)
       /\ g4 \in Seq(Privileged) /\ Len(g4) = Len(a4)
       /\ g5 \in Seq(Privileged) /\ Len(g5) = Len(a5)
       /\ g6 \in Seq(Privileged) /\ Len(g6) = Len(a6)
  BY <1>3, <1>6, <1>7, <1>8, <1>9, GroupPlace
<1> DEFINE Acc(a, wr, sg) == [address |-> a, writable |-> wr, signer |-> sg]
<1>11. /\ \A k \in 1..Len(a1) : g1[k] = Acc(a1[k], TRUE, TRUE)
       /\ \A k \in 1..Len(a2) : g2[k] = Acc(a2[k], FALSE, TRUE)
       /\ \A k \in 1..Len(a3) : g3[k] = Acc(a3[k], TRUE, FALSE)
       /\ \A k \in 1..Len(a4) : g4[k] = Acc(a4[k], FALSE, FALSE)
       /\ \A k \in 1..Len(a5) : g5[k] = Acc(a5[k], TRUE, FALSE)
       /\ \A k \in 1..Len(a6) : g6[k] = Acc(a6[k], FALSE, FALSE)
  BY <1>3, <1>6, <1>7, <1>8, <1>9, GroupPlace
<1> HIDE DEF g1, g2, g3, g4, g5, g6, Acc
<1>12. /\ Placed(c, 0, g1) /\ Placed(c, ws, g2) /\ Placed(c, s, g3)
       /\ Placed(c, wn, g4) /\ Placed(c, nk, g5) /\ Placed(c, nk + w, g6)
  <2>1. /\ ws = Len(g1) /\ s = ws + Len(g2) /\ wn = s + Len(g3) /\ nk = wn + Len(g4)
        /\ nk + w = nk + Len(g5)
    <3>1. /\ Len(g1) = ws - 0 /\ Len(g2) = s - ws /\ Len(g3) = wn - s
          /\ Len(g4) = nk - wn /\ Len(g5) = w
      BY <1>3, <1>6, <1>7, <1>8, <1>9, <1>10
    <3>2. /\ ws = ws - 0 /\ s = ws + (s - ws) /\ wn = s + (wn - s) /\ nk = wn + (nk - wn)
      BY <1>2
    <3> QED BY <3>1, <3>2
  <2> DEFINE o6 == nk + w
  <2>2. o6 = nk + Len(g5)
    BY <2>1
  <2> HIDE DEF o6
  <2>3. /\ Placed(c, 0, g1) /\ Placed(c, ws, g2) /\ Placed(c, s, g3)
        /\ Placed(c, wn, g4) /\ Placed(c, nk, g5) /\ Placed(c, o6, g6)
    BY <1>10, <2>1, <2>2, SixParts
  <2> QED BY <2>3 DEF o6
<1> HIDE DEF c
<1>13. /\ \A k \in 1..ws : c[k] = Acc(all[k], TRUE, TRUE)
       /\ \A k \in 1..(s - ws) : c[ws + k] = Acc(all[ws + k], FALSE, TRUE)
       /\ \A k \in 1..(wn - s) : c[s + k] = Acc(all[s + k], TRUE, FALSE)
       /\ \A k \in 1..(nk - wn) : c[wn + k] = Acc(all[wn + k], FALSE, FALSE)
  <2>1. \A k \in 1..ws : c[k] = Acc(all[k], TRUE, TRUE)
    <3> SUFFICES ASSUME NEW k \in 1..ws PROVE c[k] = Acc(all[k], TRUE, TRUE)
      OBVIOUS
    <3>1. 0 + k = k /\ ws - 0 = ws /\ k \in 1..nk
      BY <1>2
    <3>2. c[0 + k] = g1[k] /\ g1[k] = Acc(a1[k], TRUE, TRUE) /\ a1[k] = keys[0 + k]
      BY <1>6, <1>10, <1>11, <1>12, <3>1 DEF Placed
    <3> QED BY <1>4, <3>1, <3>2
  <2>2. \A k \in 1..(s - ws) : c[ws + k] = Acc(all[ws + k], FALSE, TRUE)
    <3> SUFFICES ASSUME NEW k \in 1..(s - ws) PROVE c[ws + k] = Acc(all[ws + k], FALSE, TRUE)
      OBVIOUS
    <3>1. ws + k \in 1..nk
      BY <1>2
    <3>2. c[ws + k] = g2[k] /\ g2[k] = Acc(a2[k], FALSE, TRUE) /\ a2[k] = keys[ws + k]
      BY <1>7, <1>10, <1>11, <1>12 DEF Placed
    <3> QED BY <1>4, <3>1, <3>2
  <2>3. \A k \in 1..(wn - s) : c[s + k] = Acc(all[s + k], TRUE, FALSE)
    <3> SUFFICES ASSUME NEW k \in 1..(wn - s) PROVE c[s + k] = Acc(all[s + k], TRUE, FALSE)
      OBVIOUS
    <3>1. s + k \in 1..nk
      BY <1>2
    <3>2. c[s + k] = g3[k] /\ g3[k] = Acc(a3[k], TRUE, FALSE) /\ a3[k] = keys[s + k]
      BY <1>8, <1>10, <1>11, <1>12 DEF Placed
    <3> QED BY <1>4, <3>1, <3>2
  <2>4. \A k \in 1..(nk - wn) : c[wn + k] = Acc(all[wn + k], FALSE, FALSE)
    <3> SUFFICES ASSUME NEW k \in 1..(nk - wn) PROVE c[wn + k] = Acc(all[wn + k], FALSE, FALSE)
      OBVIOUS
    <3>1. wn + k \in 1..nk
      BY <1>2
    <3>2. c[wn + k] = g4[k] /\ g4[k] = Acc(a4[k], FALSE, FALSE) /\ a4[k] = keys[wn + k]
      BY <1>9, <1>10, <1>11, <1>12 DEF Placed
    <3> QED BY <1>4, <3>1, <3>2
  <2> QED BY <2>1, <2>2, <2>3, <2>4
<1>14. /\ \A k \in 1..w : c[nk + k] = Acc(all[nk + k], TRUE, FALSE)
       /\ \A k \in 1..r : c[nk + w + k] = Acc(all[nk + w + k], FALSE, FALSE)
  <2>1. \A k \in 1..w : c[nk + k] = g5[k] /\ g5[k] = Acc(a5[k], TRUE, FALSE)
    BY <1>3, <1>10, <1>11, <1>12 DEF Placed
  <2>2. \A k \in 1..r : c[nk + w + k] = g6[k] /\ g6[k] = Acc(a6[k], FALSE, FALSE)
    BY <1>3, <1>10, <1>11, <1>12 DEF Placed
  <2> QED BY <1>5, <2>1, <2>2
<1> DEFINE no == m.num_writable_non_signers
<1>15. /\ IsSigner(m, x) = (x < s)
       /\ IsWritable(m, x) = IF x >= nk THEN x - nk < w ELSE x < ws \/ (x >= s /\ x - s < no)
  <2>1. IsSigner(m, x) = (x < s)
    BY DEF IsSigner, s
  <2>2. IsWritable(m, x) = IF x >= nk THEN x - nk < w ELSE x < ws \/ (x >= s /\ x - s < no)
    BY Zenon DEF IsWritable, s, ws, nk, keys, w
  <2> QED BY <2>1, <2>2
<1> DEFINE wr == IsWritable(m, x)
           sg == IsSigner(m, x)
<1> HIDE DEF wr, sg, no
<1>16. wn - s = no /\ no \in Nat /\ x \in Nat /\ x < nk + w + r
  BY <1>2 DEF no
<1>17. c[x + 1] = Acc(all[x + 1], wr, sg)
  <2>1. CASE x < ws
    <3>1. x + 1 \in 1..ws /\ ~(x >= nk) /\ x < s
      BY <1>2, <1>16, <2>1
    <3>2. wr = TRUE /\ sg = TRUE
      <4>1. wr = (x < ws \/ (x >= s /\ x - s < no)) /\ sg = (x < s)
        BY <1>15, <3>1 DEF wr, sg
      <4>2. (x < ws \/ (x >= s /\ x - s < no)) /\ x < s
        BY <2>1, <3>1
      <4> QED BY <4>1, <4>2, Zenon
    <3> QED BY <1>13, <3>1, <3>2
  <2>2. CASE ws <= x /\ x < s
    <3> DEFINE k == (x + 1) - ws
    <3>1. k \in 1..(s - ws) /\ ws + k = x + 1 /\ ~(x >= nk) /\ ~(x < ws) /\ ~(x >= s)
      BY <1>2, <1>16, <2>2
    <3> HIDE DEF k
    <3>2. wr = FALSE /\ sg = TRUE
      <4>1. wr = (x < ws \/ (x >= s /\ x - s < no)) /\ sg = (x < s)
        BY <1>15, <3>1 DEF wr, sg
      <4>2. ~(x < ws \/ (x >= s /\ x - s < no)) /\ x < s
        BY <2>2, <3>1
      <4> QED BY <4>1, <4>2, Zenon
    <3>3. c[ws + k] = Acc(all[ws + k], FALSE, TRUE)
      BY <1>13, <3>1
    <3> QED BY <3>1, <3>2, <3>3
  <2>3. CASE s <= x /\ x < wn
    <3> DEFINE k == (x + 1) - s
    <3>1. k \in 1..(wn - s) /\ s + k = x + 1 /\ ~(x >= nk) /\ ~(x < s) /\ x >= s /\ x - s < no
      BY <1>2, <1>16, <2>3
    <3> HIDE DEF k
    <3>2. wr = TRUE /\ sg = FALSE
      <4>1. wr = (x < ws \/ (x >= s /\ x - s < no)) /\ sg = (x < s)
        BY <1>15, <3>1 DEF wr, sg
      <4>2. (x < ws \/ (x >= s /\ x - s < no)) /\ (x < s) = FALSE
        BY <2>3, <3>1
      <4> QED BY <4>1, <4>2, Zenon
    <3>3. c[s + k] = Acc(all[s + k], TRUE, FALSE)
      BY <1>13, <3>1
    <3> QED BY <3>1, <3>2, <3>3
  <2>4. CASE wn <= x /\ x < nk
    <3> DEFINE k == (x + 1) - wn
    <3>1. /\ k \in 1..(nk - wn) /\ wn + k = x + 1 /\ ~(x >= nk) /\ ~(x < s)
          /\ ~(x - s < no) /\ ~(x < ws)
      BY <1>2, <1>16, <2>4
    <3> HIDE DEF k
    <3>2. wr = FALSE /\ sg = FALSE
      <4>1. wr = (x < ws \/ (x >= s /\ x - s < no)) /\ sg = (x < s)
        BY <1>15, <3>1 DEF wr, sg
      <4>2. ~(x < ws \/ (x >= s /\ x - s < no)) /\ (x < s) = FALSE
        BY <2>4, <3>1
      <4> QED BY <4>1, <4>2, Zenon
    <3>3. c[wn + k] = Acc(all[wn + k], FALSE, FALSE)
      BY <1>13, <3>1
    <3> QED BY <3>1, <3>2, <3>3
  <2>5. CASE nk <= x /\ x < nk + w
    <3> DEFINE k == (x + 1) - nk
    <3>1. k \in 1..w /\ nk + k = x + 1 /\ x >= nk /\ ~(x < s) /\ x - nk < w
      BY <1>2, <1>16, <2>5
    <3> HIDE DEF k
    <3>2. wr = TRUE /\ sg = FALSE
      <4>1. wr = (x - nk < w) /\ sg = (x < s)
        BY <1>15, <3>1 DEF wr, sg
      <4>2. (x - nk < w) /\ (x < s) = FALSE
        BY <2>5, <3>1
      <4> QED BY <4>1, <4>2, Zenon
    <3>3. c[nk + k] = Acc(all[nk + k], TRUE, FALSE)
      BY <1>14, <3>1
    <3> QED BY <3>1, <3>2, <3>3
  <2>6. CASE nk + w <= x
    <3> DEFINE k == (x + 1) - (nk + w)
    <3>1. k \in 1..r /\ nk + w + k = x + 1 /\ x >= nk /\ ~(x < s) /\ ~(x - nk < w)
      BY <1>2, <1>16, <2>6
    <3> HIDE DEF k
    <3>2. wr = FALSE /\ sg = FALSE
      <4>1. wr = (x - nk < w) /\ sg = (x < s)
        BY <1>15, <3>1 DEF wr, sg
      <4>2. (x - nk < w) = FALSE /\ (x < s) = FALSE
        BY <2>6, <3>1
      <4> QED BY <4>1, <4>2, Zenon
    <3>3. c[nk + w + k] = Acc(all[nk + w + k], FALSE, FALSE)
      BY <1>14, <3>1
    <3> QED BY <3>1, <3>2, <3>3
  <2> QED BY <1>2, <1>16, <2>1, <2>2, <2>3, <2>4, <2>5, <2>6
<1> QED BY <1>1, <1>17 DEF Acc, all, wr, sg, c

\* With accounts that pass the comparison, execute calls what the message stands
\* for, the tables being as they are.
LEMMA ExecuteIntends ==
    ASSUME TablesTyped, NEW m \in Message, HeaderFits(m), IndexesSound(m),
           NEW views, AccountsMatch(m, views)
    PROVE  [i \in DOMAIN m.instructions |-> Call(m, views, m.instructions[i])]
             = Intended(m, AddressesNow)
<1> DEFINE approved == Approved(m, AddressesNow)
           n == NumAllKeys(m)
           Acc(index) == [address |-> views[index + 1], writable |-> IsWritable(m, index),
                          signer |-> IsSigner(m, index)]
<1>1. AddressesNow \in Addresses /\ n \in Nat
  <2>1. AddressesNow \in Addresses
    BY NowTyped
  <2> DEFINE k == Len(m.account_keys)
             w == NumWritableLookupKeys(m)
             r == Total(Readonlys(m))[Len(m.lookups)]
  <2>2. k \in Nat /\ w \in Nat /\ r \in Nat /\ n = k + w + r
    BY <2>1, ResolvedPlace
  <2> HIDE DEF k, w, r, n
  <2> QED BY <2>1, <2>2
<1>2. ASSUME NEW x \in 0..(n - 1) PROVE approved[x + 1] = Acc(x)
  <2>1. x + 1 \in 1..n
    BY <1>1
  <2>2. views[x + 1] = Named(m, AddressesNow)[x + 1]
    BY <2>1, ViewsAreNamed
  <2>3. approved[x + 1] = [address |-> Named(m, AddressesNow)[x + 1], writable |-> IsWritable(m, x),
                           signer |-> IsSigner(m, x)]
    BY <1>1, ApprovedAt
  <2> QED BY <2>2, <2>3
<1>3. ASSUME NEW i \in DOMAIN m.instructions
      PROVE  LET x == m.instructions[i]
             IN  /\ x.program_id_index \in 0..(n - 1)
                 /\ \A k \in DOMAIN x.account_indexes : x.account_indexes[k] \in 0..(n - 1)
  <2> DEFINE x == m.instructions[i]
             p == x.program_id_index
             ai == x.account_indexes
  <2>1. m.instructions \in Seq(Instruction)
    BY DEF Message
  <2>2. x \in Instruction
    BY <2>1, ElementOfSeq, LenProperties
  <2>3. p \in Cell /\ ai \in Seq(Cell)
    BY <2>2 DEF Instruction
  <2>4. \A y \in Cell : y \in Nat
    BY CellTypes DEF Cell
  <2>5. \A k \in DOMAIN ai : ai[k] \in Cell
    BY <2>3, ElementOfSeq, LenProperties
  <2>6. \A y \in {p} \cup ToSet(ai) : y < n
    BY Zenon DEF IndexesSound
  <2> HIDE DEF p, ai, x, n
  <2>7. p \in Nat /\ p < n
    BY <2>3, <2>4, <2>6
  <2>8. \A k \in DOMAIN ai : ai[k] \in Nat /\ ai[k] < n
    BY <2>4, <2>5, <2>6 DEF ToSet
  <2>9. p \in 0..(n - 1) /\ \A k \in DOMAIN ai : ai[k] \in 0..(n - 1)
    BY <1>1, <2>7, <2>8
  <2> QED BY <2>9 DEF p, ai, x
<1> DEFINE Expected(x) ==
               [program |-> approved[x.program_id_index + 1].address,
                accounts |-> IF approved[x.program_id_index + 1].address = PROGRAM THEN <<>>
                             ELSE [k \in DOMAIN x.account_indexes |->
                                      approved[x.account_indexes[k] + 1]],
                data |-> x.data]
<1> HIDE DEF approved, n
<1>4. ASSUME NEW i \in DOMAIN m.instructions
      PROVE  Call(m, views, m.instructions[i]) = Expected(m.instructions[i])
  <2> DEFINE x == m.instructions[i]
             p == x.program_id_index
             ai == x.account_indexes
  <2>1. p \in 0..(n - 1) /\ \A k \in DOMAIN ai : ai[k] \in 0..(n - 1)
    BY <1>3
  <2>2. approved[p + 1] = Acc(p) /\ \A k \in DOMAIN ai : approved[ai[k] + 1] = Acc(ai[k])
    <3> HIDE DEF p, ai, Acc
    <3> QED BY <1>2, <2>1
  <2>3. approved[p + 1].address = views[p + 1]
    <3> HIDE DEF p, ai
    <3> QED BY <2>2
  <2> DEFINE F == [k \in DOMAIN ai |-> Acc(ai[k])]
  <2>4. [k \in DOMAIN ai |-> approved[ai[k] + 1]] = F
    <3> HIDE DEF p, ai, Acc
    <3> QED BY <2>2
  <2>5. Expected(x) = [program |-> views[p + 1], accounts |-> IF views[p + 1] = PROGRAM THEN <<>> ELSE F,
                       data |-> x.data]
    <3> HIDE DEF F
    <3> QED BY <2>3, <2>4
  <2>6. Call(m, views, x) = IF views[p + 1] = PROGRAM
                            THEN [program |-> PROGRAM, accounts |-> <<>>, data |-> x.data]
                            ELSE [program |-> views[p + 1], accounts |-> F, data |-> x.data]
    BY Zenon DEF Call
  <2> HIDE DEF Expected, F, x, p, ai
  <2>7. Call(m, views, x) = Expected(x)
    <3>1. CASE views[p + 1] = PROGRAM
      BY <2>5, <2>6, <3>1
    <3>2. CASE views[p + 1] # PROGRAM
      BY <2>5, <2>6, <3>2
    <3> QED BY <3>1, <3>2
  <2> QED BY <2>7 DEF x
<1>5. Intended(m, AddressesNow) = [i \in DOMAIN m.instructions |-> Expected(m.instructions[i])]
  BY Zenon DEF Intended, approved
<1> HIDE DEF Expected
<1> QED BY <1>4, <1>5

\* Every step keeps what ran equal to what was approved.
LEMMA SubstitutionStep ==
    ASSUME MInv, NoSubstitution, [Next]_vars
    PROVE  NoSubstitution'
<1>1. ASSUME NEW views, Execute(views) PROVE NoSubstitution'
  <2> DEFINE m == proposal.message
  <2>1. Stored /\ table' = table /\ proposal' = proposal
    BY <1>1 DEF Execute
  <2>2. m = Parse(proposal.blob) /\ m \in Message /\ HeaderFits(m) /\ IndexesSound(m)
    BY <2>1, StoredMessage
  <2>3. AccountsMatch(m, views) /\ calls' = [i \in DOMAIN m.instructions |-> Call(m, views, m.instructions[i])]
    BY <1>1, <2>2 DEF Execute
  <2> HIDE DEF m
  <2>4. calls' = Intended(m, AddressesNow)
    BY <2>2, <2>3, ExecuteIntends DEF MInv
  <2>5. AddressesShown = AddressesNow
    BY <2>1, ShownIsNow DEF Stored
  <2>6. AddressesShown' = AddressesShown
    BY <2>1 DEF AddressesShown
  <2> QED BY <2>1, <2>4, <2>5, <2>6 DEF NoSubstitution, m
<1>2. ASSUME NEW blob, NEW meant, Submit(blob, meant) PROVE NoSubstitution'
  <2>1. proposal = None /\ calls' = calls
    BY <1>2 DEF Submit
  <2>2. calls = None
    BY <2>1 DEF MInv, RanStored, Stored
  <2> QED BY <2>1, <2>2 DEF NoSubstitution
<1>3. ASSUME Open, calls' = calls PROVE NoSubstitution'
  <2>1. calls = None
    BY <1>3 DEF MInv, RanStored, Stored, Open
  <2> QED BY <1>3, <2>1 DEF NoSubstitution
<1>4. CASE UNCHANGED vars
  <2>1. calls' = calls /\ proposal' = proposal /\ table' = table
    BY <1>4 DEF vars
  <2>2. AddressesShown' = AddressesShown
    BY <2>1 DEF AddressesShown
  <2> QED BY <2>1, <2>2 DEF NoSubstitution
<1>5. ASSUME Open /\ \E t \in Tables : (\E a \in Listed : ExtendTable(t, a)) \/ RetireTable(t)
      PROVE  NoSubstitution'
  BY <1>3, <1>5 DEF ExtendTable, RetireTable
<1> QED BY <1>1, <1>2, <1>4, <1>5 DEF Next

\* Whatever accounts the executor passes and whatever became of the tables,
\* what runs is what was approved (instruction/execute.rs).
THEOREM Substitution == Spec => []NoSubstitution
<1>1. Init => NoSubstitution
  BY DEF Init, NoSubstitution
<1>2. MInv /\ NoSubstitution /\ [Next]_vars => NoSubstitution'
  BY SubstitutionStep
<1> QED BY <1>1, <1>2, MessageInvariant, PTL DEF Spec
=============================================================================
