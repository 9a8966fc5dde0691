---------------------------- MODULE StorageProofs ----------------------------
(***************************************************************************)
(* Theorems about the bytes, for every number of owners, every width of an *)
(* address and every size of a bitmap cell.                                *)
(***************************************************************************)
EXTENDS Storage, AccountsProofs

(***************************************************************************)
(* Arithmetic.                                                             *)
(***************************************************************************)
LEMMA Layout ==
    /\ W \in Nat \ {0} /\ BASE \in Nat \ {0} /\ BITS \in Nat \ {0} /\ MaxIndex \in Nat \ {0}
    /\ Address \subseteq 0..(Power(BASE)[W] - 1)
    /\ Address \subseteq Nat
    /\ MAX_OWNER \in Nat
BY LayoutAssumption, AddressAssumption, OwnerLimitAssumption

\* The defining equation of a power has a solution: the values up to n, for
\* every n, put together.
LEMMA PowerExists ==
    ASSUME NEW b \in Nat
    PROVE  \E p : p = [n \in Nat |-> IF n = 0 THEN 1 ELSE b * p[n - 1]]
<1> DEFINE Upto(n, f) == /\ f \in [0..n -> Nat]
                         /\ f[0] = 1
                         /\ \A k \in 1..n : f[k] = b * f[k - 1]
<1>1. \A n \in Nat : \E f : Upto(n, f)
  <2> DEFINE T == {n \in Nat : ~\E f : Upto(n, f)}
  <2> SUFFICES ASSUME T # {} PROVE FALSE
    OBVIOUS
  <2>1. T \in SUBSET Nat
    OBVIOUS
  <2>2. PICK n \in T : \A y \in T : n <= y
    BY <2>1, LeastNatural
  <2>3. n # 0
    <3>1. Upto(0, [k \in 0..0 |-> 1])
      OBVIOUS
    <3> QED BY <3>1, <2>2
  <2>4. n - 1 \in Nat /\ ~(n <= n - 1)
    BY <2>1, <2>2, <2>3
  <2>5. PICK f : Upto(n - 1, f)
    BY <2>2, <2>4
  <2> DEFINE g == [k \in 0..n |-> IF k = n THEN b * f[n - 1] ELSE f[k]]
  <2>6. Upto(n, g)
    <3>1. n \in Nat \ {0} /\ b * f[n - 1] \in Nat
      BY <2>1, <2>2, <2>3, <2>4, <2>5
    <3>2. g \in [0..n -> Nat] /\ g[0] = 1
      BY <2>4, <2>5, <3>1
    <3>3. ASSUME NEW k \in 1..n PROVE g[k] = b * g[k - 1]
      <4>1. k - 1 \in 0..(n - 1) /\ k \in 0..n /\ k - 1 \in 0..n /\ k - 1 # n
        BY <3>1
      <4>2. g[k - 1] = f[k - 1]
        BY <4>1
      <4>3. CASE k = n
        BY <4>1, <4>2, <4>3
      <4>4. CASE k # n
        <5>1. k \in 1..(n - 1)
          BY <3>1, <4>4
        <5>2. f[k] = b * f[k - 1]
          BY <2>5, <5>1
        <5> QED BY <4>1, <4>2, <4>4, <5>2
      <4> QED BY <4>3, <4>4
    <3> QED BY <3>2, <3>3
  <2> QED BY <2>2, <2>6
<1>2. ASSUME NEW n \in Nat, NEW m \in Nat, m <= n, NEW f, NEW g, Upto(n, f), Upto(m, g)
      PROVE  f[m] = g[m]
  <2> DEFINE T == {k \in 0..m : f[k] # g[k]}
  <2>1. T \in SUBSET Nat
    OBVIOUS
  <2>2. CASE T # {}
    <3>1. PICK k \in T : \A y \in T : k <= y
      BY <2>1, <2>2, LeastNatural
    <3>2. k # 0
      BY <1>2, <3>1
    <3>3. k - 1 \in 0..m /\ k \in 1..m /\ k \in 1..n /\ ~(k <= k - 1)
      BY <1>2, <3>1, <3>2
    <3>4. f[k - 1] = g[k - 1]
      BY <3>1, <3>3
    <3> QED BY <1>2, <3>1, <3>3, <3>4
  <2> QED BY <2>2
<1> DEFINE F(n) == CHOOSE f : Upto(n, f)
           p == [n \in Nat |-> F(n)[n]]
<1>3. \A n \in Nat : Upto(n, F(n))
  BY <1>1
<1> HIDE DEF F
<1>4. ASSUME NEW n \in Nat PROVE p[n] = IF n = 0 THEN 1 ELSE b * p[n - 1]
  <2>1. Upto(n, F(n))
    BY <1>3
  <2>2. CASE n = 0
    BY <2>1, <2>2
  <2>3. CASE n # 0
    <3>1. n - 1 \in Nat /\ n - 1 <= n
      BY <2>3
    <3>2. Upto(n - 1, F(n - 1))
      BY <1>3, <3>1
    <3>3. F(n)[n - 1] = F(n - 1)[n - 1]
      <4> HIDE DEF Upto
      <4> QED BY <1>2, <2>1, <3>1, <3>2
    <3>4. F(n)[n] = b * F(n)[n - 1]
      BY <2>1, <2>3
    <3> QED BY <2>3, <3>1, <3>3, <3>4
  <2> QED BY <2>2, <2>3
<1>5. p = [n \in Nat |-> IF n = 0 THEN 1 ELSE b * p[n - 1]]
  BY <1>4
<1> QED BY <1>5

\* The powers of a positive base are positive and grow by it.
LEMMA PowerStep ==
    ASSUME NEW b \in Nat \ {0}
    PROVE  /\ Power(b)[0] = 1
           /\ \A n \in Nat : Power(b)[n + 1] = b * Power(b)[n]
           /\ \A n \in Nat : Power(b)[n] \in Nat \ {0}
<1> DEFINE p == Power(b)
<1>1. p = [n \in Nat |-> IF n = 0 THEN 1 ELSE b * p[n - 1]]
  BY PowerExists DEF Power
<1> HIDE DEF p
<1>2. p[0] = 1 /\ \A n \in Nat : p[n + 1] = b * p[n]
  BY <1>1
<1>3. \A n \in Nat : p[n] \in Nat \ {0}
  <2> DEFINE T == {n \in Nat : p[n] \notin Nat \ {0}}
  <2> SUFFICES ASSUME T # {} PROVE FALSE
    OBVIOUS
  <2>1. T \in SUBSET Nat
    OBVIOUS
  <2>2. PICK n \in T : \A y \in T : n <= y
    BY <2>1, LeastNatural
  <2>3. n \in Nat /\ n # 0
    BY <1>2, <2>2
  <2>4. n - 1 \in Nat /\ ~(n <= n - 1) /\ n = (n - 1) + 1
    BY <2>3
  <2>5. p[n - 1] \in Nat \ {0}
    BY <2>2, <2>4
  <2>6. p[n] = b * p[n - 1]
    BY <1>1, <2>3
  <2>7. \A x, y \in Nat \ {0} : x * y \in Nat \ {0}
    OBVIOUS
  <2> QED BY <2>2, <2>5, <2>6, <2>7
<1> QED BY <1>2, <1>3 DEF p

\* Dividing in two steps.
LEMMA DivDiv ==
    ASSUME NEW a \in Nat, NEW b \in Nat \ {0}, NEW c \in Nat \ {0}
    PROVE  (a \div b) \div c = a \div (c * b)
OBVIOUS

\* Quotient and remainder, as the provers are given them.
LEMMA DivMod ==
    ASSUME NEW a \in Nat, NEW b \in Nat \ {0}
    PROVE  /\ a \div b \in Nat
           /\ a % b \in 0..(b - 1)
           /\ a = (a \div b) * b + (a % b)
<1>1. a \div b \in Nat
  OBVIOUS
<1>2. a % b \in 0..(b - 1)
  OBVIOUS
<1>3. a = (a \div b) * b + (a % b)
  OBVIOUS
<1> QED BY <1>1, <1>2, <1>3

\* The cells of an address spell it.
LEMMA CellsSpell ==
    ASSUME NEW a \in Address
    PROVE  /\ Cells(a) \in [1..W -> Nat]
           /\ Number(Cells(a)) = a
<1> DEFINE p == Power(BASE)
           h == [k \in 0..W |-> a \div p[W - k]]
<1>1. /\ p[0] = 1
      /\ \A n \in Nat : p[n + 1] = BASE * p[n]
      /\ \A n \in Nat : p[n] \in Nat \ {0}
      /\ a \in 0..(p[W] - 1)
  BY PowerStep, Layout
<1>2. W \in Nat \ {0} /\ BASE \in Nat \ {0} /\ a \in Nat
  BY Layout
<1>3. Cells(a) = [k \in 1..W |-> (a \div p[W - k]) % BASE]
  BY DEF Cells
<1> HIDE DEF p
<1>4. \A k \in 0..W : h[k] \in Nat
  <2> SUFFICES ASSUME NEW k \in 0..W PROVE a \div p[W - k] \in Nat
    OBVIOUS
  <2>1. W - k \in Nat
    BY <1>2
  <2>2. p[W - k] \in Nat \ {0}
    BY <1>1, <2>1
  <2> QED BY <1>2, <2>2, DivMod
<1>5. h[0] = 0 /\ h[W] = a
  <2>1. W - 0 = W /\ W - W = 0 /\ 0 \in 0..W /\ W \in 0..W
    BY <1>2
  <2>2. \A x \in Nat \ {0} : a < x => a \div x = 0
    BY <1>2
  <2>3. a \div 1 = a
    BY <1>2
  <2>4. p[W] \in Nat \ {0} /\ a < p[W]
    BY <1>1, <1>2
  <2> QED BY <1>1, <2>1, <2>2, <2>3, <2>4
<1>6. ASSUME NEW k \in 1..W
      PROVE  h[k] = h[k - 1] * BASE + Cells(a)[k] /\ Cells(a)[k] \in Nat
  <2>1. W - k \in Nat /\ W - (k - 1) = (W - k) + 1 /\ k - 1 \in 0..W
    BY <1>2
  <2>2. p[W - (k - 1)] = BASE * p[W - k] /\ p[W - k] \in Nat \ {0}
    BY <1>1, <2>1
  <2>3. h[k - 1] = h[k] \div BASE
    BY <1>2, <2>1, <2>2, DivDiv
  <2>4. Cells(a)[k] = h[k] % BASE
    BY <1>3
  <2>5. k \in 0..W
    BY <1>2
  <2> HIDE DEF h
  <2>6. h[k] \in Nat
    BY <1>4, <2>5
  <2>7. h[k] = (h[k] \div BASE) * BASE + (h[k] % BASE) /\ h[k] % BASE \in 0..(BASE - 1)
    BY <1>2, <2>6, DivMod
  <2> QED BY <1>2, <2>3, <2>4, <2>7
<1>7. h = [k \in 0..W |-> IF k = 0 THEN 0 ELSE h[k - 1] * BASE + Cells(a)[k]]
  <2>1. h = [k \in 0..W |-> h[k]]
    OBVIOUS
  <2>2. \A k \in 0..W : k # 0 => k \in 1..W
    BY <1>2
  <2> HIDE DEF h
  <2>3. \A k \in 0..W : h[k] = IF k = 0 THEN 0 ELSE h[k - 1] * BASE + Cells(a)[k]
    BY <1>5, <1>6, <2>2
  <2> QED BY <2>1, <2>3
<1> HIDE DEF h
<1> DEFINE u == CHOOSE u : u = [k \in 0..W |-> IF k = 0 THEN 0 ELSE u[k - 1] * BASE + Cells(a)[k]]
<1>8. u = [k \in 0..W |-> IF k = 0 THEN 0 ELSE u[k - 1] * BASE + Cells(a)[k]]
  BY <1>7
<1>9. Number(Cells(a)) = u[W]
  BY DEF Number
<1> HIDE DEF u
<1>10. u[W] = h[W]
  <2> DEFINE T == {k \in 0..W : u[k] # h[k]}
  <2>1. T \in SUBSET Nat
    OBVIOUS
  <2>2. CASE T # {}
    <3>1. PICK k \in T : \A y \in T : k <= y
      BY <2>1, <2>2, LeastNatural
    <3>2. k # 0
      BY <1>7, <1>8, <3>1
    <3>3. k - 1 \in 0..W /\ k \in 0..W /\ ~(k <= k - 1)
      BY <1>2, <3>1, <3>2
    <3>4. u[k - 1] = h[k - 1]
      BY <3>1, <3>3
    <3>5. u[k] = h[k]
      BY <1>7, <1>8, <3>2, <3>3, <3>4
    <3> QED BY <3>1, <3>5
  <2> QED BY <2>2, <1>2
<1>11. Cells(a) \in [1..W -> Nat]
  BY <1>3, <1>6
<1> QED BY <1>5, <1>9, <1>10, <1>11

(***************************************************************************)
(* Binary search.                                                          *)
(***************************************************************************)
Ascends(list, n) == \A i, j \in 0..(n - 1) : i < j => list[i] < list[j]

\* p parts the list into what is below a and what is not.
Parts(list, n, a, p) ==
    /\ p \in 0..n
    /\ \A k \in 0..(n - 1) : list[k] < a <=> k < p

Found(k) == [found |-> TRUE, index |-> k]
Absent(k) == [found |-> FALSE, index |-> k]

\* An ascending list is parted by every address.
LEMMA PartExists ==
    ASSUME NEW n \in Nat, NEW list \in [0..(n - 1) -> Nat], Ascends(list, n), NEW a \in Nat
    PROVE  \E p : Parts(list, n, a, p)
<1> DEFINE T == {k \in 0..n : k = n \/ ~(list[k] < a)}
<1>1. T \in SUBSET Nat /\ n \in T
  OBVIOUS
<1>2. PICK p \in T : \A y \in T : p <= y
  BY <1>1, LeastNatural
<1>3. ASSUME NEW k \in 0..(n - 1) PROVE list[k] < a <=> k < p
  <2>1. list[k] \in Nat /\ k \in 0..n /\ k # n /\ p \in 0..n
    BY <1>2
  <2>2. k < p => list[k] < a
    <3> SUFFICES ASSUME k < p PROVE k \notin T
      BY <2>1
    <3> QED BY <1>2, <2>1
  <2>3. CASE p <= k
    <3>1. p \in 0..(n - 1) /\ ~(list[p] < a) /\ list[p] \in Nat
      BY <1>2, <2>3
    <3>2. list[p] <= list[k]
      BY <2>1, <2>3, <3>1 DEF Ascends
    <3> QED BY <2>1, <2>3, <3>1, <3>2
  <2> QED BY <2>1, <2>2, <2>3
<1> QED BY <1>2, <1>3 DEF Parts

\* The search ends where p parts the list, and says whether a is there.
LEMMA SearchParts ==
    ASSUME NEW n \in Nat, NEW list \in [0..(n - 1) -> Nat], Ascends(list, n), NEW a \in Nat,
           NEW p, Parts(list, n, a, p)
    PROVE  BinarySearch(list, n, a) =
               IF p < n /\ list[p] = a THEN Found(p)
               ELSE Absent(p)
<1> DEFINE D == (0..n) \X (0..n)
           Step(f, lo, hi) ==
               LET mid == (lo + hi) \div 2
               IN  IF lo >= hi THEN Absent(lo)
                   ELSE IF list[mid] = a THEN Found(mid)
                   ELSE IF list[mid] < a THEN f[<<mid + 1, hi>>] ELSE f[<<lo, mid>>]
           Ends(lo, hi) ==
               IF lo >= hi THEN Absent(lo)
               ELSE IF p < lo THEN Absent(lo)
               ELSE IF p >= hi THEN Absent(hi)
               ELSE IF list[p] = a THEN Found(p)
               ELSE Absent(p)
           g == [x \in D |-> Ends(x[1], x[2])]
<1>1. ASSUME NEW lo \in 0..n, NEW hi \in 0..n, lo < hi
      PROVE  LET mid == (lo + hi) \div 2
             IN  /\ mid \in 0..(n - 1) /\ lo <= mid /\ mid < hi
                 /\ mid + 1 \in 0..n /\ mid \in 0..n
                 /\ list[mid] \in Nat
                 /\ list[mid] < a <=> mid < p
                 /\ list[mid] = a <=> (mid = p /\ list[p] = a)
  <2> DEFINE mid == (lo + hi) \div 2
  <2>1. mid \in Nat /\ lo <= mid /\ mid < hi
    BY <1>1
  <2> HIDE DEF mid
  <2>2. mid \in 0..(n - 1) /\ mid + 1 \in 0..n /\ mid \in 0..n
    BY <1>1, <2>1
  <2>3. list[mid] \in Nat /\ (list[mid] < a <=> mid < p)
    BY <2>2 DEF Parts
  <2>4. list[mid] = a => mid = p
    <3> SUFFICES ASSUME list[mid] = a, mid # p PROVE FALSE
      OBVIOUS
    <3>1. p \in 0..(n - 1) /\ p < mid
      BY <2>2, <2>3 DEF Parts
    <3>2. list[p] < list[mid] /\ ~(list[p] < a)
      BY <2>2, <3>1 DEF Ascends, Parts
    <3> QED BY <3>2
  <2> QED BY <2>1, <2>2, <2>3, <2>4 DEF mid
<1>2. ASSUME NEW lo \in 0..n, NEW hi \in 0..n
      PROVE  Ends(lo, hi) = Step(g, lo, hi)
  <2>1. CASE lo >= hi
    BY <2>1
  <2>2. CASE lo < hi
    <3> DEFINE mid == (lo + hi) \div 2
    <3>1. /\ mid \in 0..(n - 1) /\ lo <= mid /\ mid < hi
          /\ mid + 1 \in 0..n /\ mid \in 0..n
          /\ list[mid] < a <=> mid < p
          /\ list[mid] = a <=> (mid = p /\ list[p] = a)
      BY <1>1, <2>2
    <3>2. g[<<mid + 1, hi>>] = Ends(mid + 1, hi) /\ g[<<lo, mid>>] = Ends(lo, mid)
      BY <3>1
    <3>3. ~(lo >= hi) /\ p \in 0..n
      BY <2>2 DEF Parts
    <3>4. Step(g, lo, hi) = IF list[mid] = a THEN Found(mid)
                            ELSE IF list[mid] < a THEN Ends(mid + 1, hi) ELSE Ends(lo, mid)
      BY <3>2, <3>3
    <3> HIDE DEF mid, Step
    <3>5. CASE list[mid] = a
      BY <3>1, <3>3, <3>4, <3>5
    <3>6. CASE list[mid] # a /\ list[mid] < a
      BY <3>1, <3>3, <3>4, <3>6
    <3>7. CASE list[mid] # a /\ ~(list[mid] < a)
      BY <3>1, <3>3, <3>4, <3>7
    <3> QED BY <3>5, <3>6, <3>7
  <2> QED BY <2>1, <2>2
<1>3. g = [x \in D |-> Step(g, x[1], x[2])]
  <2>1. \A x \in D : x[1] \in 0..n /\ x[2] \in 0..n
    OBVIOUS
  <2> HIDE DEF Step, Ends
  <2>2. \A x \in D : Ends(x[1], x[2]) = Step(g, x[1], x[2])
    BY <1>2, <2>1
  <2> QED BY <2>2
<1> DEFINE f == CHOOSE f : f = [x \in D |-> Step(f, x[1], x[2])]
<1>4. f = [x \in D |-> Step(f, x[1], x[2])]
  <2> HIDE DEF Step, Ends, g
  <2> QED BY <1>3
<1>5. BinarySearch(list, n, a) = f[<<0, n>>]
  BY DEF BinarySearch, Found, Absent
<1> HIDE DEF f
<1>6. \A lo, hi \in 0..n : f[<<lo, hi>>] = Step(f, lo, hi)
  <2>1. \A lo, hi \in 0..n : <<lo, hi>> \in D /\ <<lo, hi>>[1] = lo /\ <<lo, hi>>[2] = hi
    OBVIOUS
  <2> HIDE DEF Step, D
  <2> QED BY <1>4, <2>1
\* The shortest interval on which the search and its end would differ.
<1> DEFINE T == {d \in Nat : \E lo, hi \in 0..n : lo < hi /\ d = hi - lo /\ f[<<lo, hi>>] # Ends(lo, hi)}
<1>7. T = {}
  <2> SUFFICES ASSUME T # {} PROVE FALSE
    OBVIOUS
  <2>1. T \in SUBSET Nat
    OBVIOUS
  <2>2. PICK d \in T : \A y \in T : d <= y
    BY <2>1, LeastNatural
  <2>3. PICK lo \in 0..n, hi \in 0..n : lo < hi /\ d = hi - lo /\ f[<<lo, hi>>] # Ends(lo, hi)
    BY <2>2
  <2>4. ASSUME NEW i \in 0..n, NEW j \in 0..n, j - i < hi - lo
        PROVE  f[<<i, j>>] = Ends(i, j)
    <3>1. CASE i >= j
      <4>1. f[<<i, j>>] = Step(f, i, j)
        <5> HIDE DEF Step
        <5> QED BY <1>6
      <4> QED BY <3>1, <4>1
    <3>2. CASE i < j
      <4>1. j - i \in Nat /\ ~(d <= j - i)
        BY <2>3, <2>4, <3>2
      <4> HIDE DEF Ends
      <4> QED BY <2>2, <3>2, <4>1
    <3> HIDE DEF Ends
    <3> QED BY <3>1, <3>2
  <2> DEFINE mid == (lo + hi) \div 2
  <2>5. mid + 1 \in 0..n /\ mid \in 0..n /\ lo <= mid /\ mid < hi
    BY <1>1, <2>3
  <2>6. f[<<lo, hi>>] = Step(f, lo, hi) /\ Ends(lo, hi) = Step(g, lo, hi)
    <3> HIDE DEF Step, Ends, g
    <3> QED BY <1>2, <1>6
  <2> HIDE DEF mid
  <2>7. f[<<mid + 1, hi>>] = Ends(mid + 1, hi) /\ f[<<lo, mid>>] = Ends(lo, mid)
    <3>1. hi - (mid + 1) < hi - lo /\ mid - lo < hi - lo
      BY <2>3, <2>5
    <3> HIDE DEF Ends
    <3> QED BY <2>4, <2>5, <3>1
  <2>8. g[<<mid + 1, hi>>] = Ends(mid + 1, hi) /\ g[<<lo, mid>>] = Ends(lo, mid)
    <3> HIDE DEF Ends
    <3> QED BY <2>5
  <2>9. Step(f, lo, hi) = Step(g, lo, hi)
    <3> HIDE DEF Ends, g
    <3> QED BY <2>7, <2>8 DEF mid
  <2> HIDE DEF Step, Ends, g
  <2> QED BY <2>3, <2>6, <2>9
<1>8. f[<<0, n>>] = Ends(0, n)
  <2>1. CASE n = 0
    BY <1>6, <2>1
  <2>2. CASE n # 0
    <3>1. 0 \in 0..n /\ n \in 0..n /\ 0 < n /\ n - 0 \in Nat
      BY <2>2
    <3> HIDE DEF Ends
    <3> QED BY <1>7, <3>1
  <2> QED BY <2>1, <2>2
<1>9. p \in 0..n
  BY DEF Parts
<1>10. Ends(0, n) = IF p < n /\ list[p] = a THEN Found(p)
                    ELSE Absent(p)
  BY <1>9
<1> QED BY <1>5, <1>8, <1>10

\* In an ascending list the search finds the owners, each at its position in
\* the set they form.
LEMMA SearchFinds ==
    ASSUME NEW n \in Nat, NEW o \in [0..(n - 1) -> Address], Ascends(o, n), NEW a \in Address
    PROVE  LET p == Position(Range(o), a)
           IN  /\ p \in 0..n
               /\ Parts(o, n, a, p)
               /\ a \in Range(o) <=> p < n /\ o[p] = a
               /\ BinarySearch(o, n, a) = [found |-> a \in Range(o), index |-> p]
<1>0. o \in [0..(n - 1) -> Nat] /\ a \in Nat
  BY Layout
<1>1. PICK p : Parts(o, n, a, p)
  BY <1>0, PartExists
<1>2. p \in 0..n /\ \A k \in 0..(n - 1) : o[k] < a <=> k < p
  BY <1>1 DEF Parts
<1> DEFINE S == {x \in Range(o) : x < a}
           g == [k \in 0..(p - 1) |-> o[k]]
<1>3. Cardinality(S) = p
  <2>1. \A k \in 0..(p - 1) : k \in 0..(n - 1) /\ k < p
    BY <1>2
  <2>2. g \in Surjection(0..(p - 1), S)
    <3>1. \A k \in 0..(p - 1) : o[k] \in S
      BY <1>2, <2>1 DEF Range
    <3>2. \A x \in S : \E k \in 0..(p - 1) : o[k] = x
      BY <1>2 DEF Range
    <3> QED BY <3>1, <3>2 DEF Surjection
  <2>3. \A i, j \in 0..(p - 1) : o[i] = o[j] => i = j
    <3> SUFFICES ASSUME NEW i \in 0..(p - 1), NEW j \in 0..(p - 1), i < j PROVE o[i] # o[j]
      BY <1>2
    <3>1. o[i] < o[j] /\ o[i] \in Nat /\ o[j] \in Nat
      BY <1>0, <2>1 DEF Ascends
    <3> QED BY <3>1
  <2>4. g \in Injection(0..(p - 1), S)
    BY <2>2, <2>3 DEF Surjection, Injection, IsInjective
  <2>5. IsFiniteSet(0..(p - 1)) /\ Cardinality(0..(p - 1)) = p
    <3>1. p - 1 \in Int /\ p \in Nat
      BY <1>2
    <3>2. /\ IsFiniteSet(0..(p - 1))
          /\ Cardinality(0..(p - 1)) = IF 0 > p - 1 THEN 0 ELSE (p - 1) - 0 + 1
      BY <3>1, FS_Interval
    <3> QED BY <3>1, <3>2
  <2> HIDE DEF g, S
  <2> QED BY <2>2, <2>4, <2>5, FS_Surjection
<1>4. Position(Range(o), a) = p
  BY <1>3 DEF Position
<1>5. a \in Range(o) <=> p < n /\ o[p] = a
  <2>1. ASSUME NEW k \in 0..(n - 1), o[k] = a PROVE p = k
    <3>1. ~(k < p)
      BY <1>0, <1>2, <2>1
    <3>2. CASE p < k
      <4>1. p \in 0..(n - 1) /\ o[p] < o[k] /\ ~(o[p] < a)
        BY <1>2, <3>2 DEF Ascends
      <4> QED BY <2>1, <4>1
    <3> QED BY <1>2, <3>1, <3>2
  <2>2. a \in Range(o) => p < n /\ o[p] = a
    BY <2>1 DEF Range
  <2>3. p < n => p \in DOMAIN o
    BY <1>2
  <2> QED BY <2>2, <2>3 DEF Range
<1>6. BinarySearch(o, n, a) = [found |-> a \in Range(o), index |-> p]
  <2>1. BinarySearch(o, n, a) = IF p < n /\ o[p] = a THEN Found(p) ELSE Absent(p)
    BY <1>0, <1>1, SearchParts
  <2>2. CASE a \in Range(o)
    <3>1. (a \in Range(o)) = TRUE
      BY <2>2
    <3> QED BY <1>5, <2>1, <2>2, <3>1 DEF Found
  <2>3. CASE a \notin Range(o)
    <3>1. (a \in Range(o)) = FALSE
      BY <2>3
    <3> QED BY <1>5, <2>1, <2>3, <3>1 DEF Absent
  <2> QED BY <2>2, <2>3
<1> QED BY <1>1, <1>2, <1>4, <1>5, <1>6

(***************************************************************************)
(* The tail of a multisig account.                                         *)
(***************************************************************************)
\* The tail holds the owners o and their permissions q.
Lays(tail, n, o, q) ==
    /\ n \in Nat
    /\ o \in [0..(n - 1) -> Address]
    /\ q \in [0..(n - 1) -> Masks]
    /\ tail = [i \in 0..(n * W + n - 1) |-> tail[i]]
    /\ \A k \in 0..(n - 1), j \in 1..W : tail[k * W + j - 1] = Cells(o[k])[j]
    /\ \A k \in 0..(n - 1) : tail[n * W + k] = q[k]

\* Rows of a table of width w.
LEMMA Rows ==
    ASSUME NEW w \in Nat, NEW i \in Nat
    PROVE  /\ i * w \in Nat
           /\ (i + 1) * w = i * w + w
           /\ i * (w + 1) = i * w + i
           /\ \A j \in Nat : i < j => i * w + w <= j * w
           /\ \A j \in Nat : i <= j => i * w <= j * w
<1>1. i * w \in Nat /\ (i + 1) * w = i * w + w /\ i * (w + 1) = i * w + i
  OBVIOUS
<1>2. ASSUME NEW j \in Nat, i < j PROVE i * w + w <= j * w
  <2>1. j - i - 1 \in Nat
    BY <1>2
  <2>2. (j - i - 1) * w \in Nat
    BY <2>1
  <2>3. j * w = (j - i - 1) * w + i * w + w
    BY <2>1
  <2> QED BY <2>2, <2>3
<1>3. ASSUME NEW j \in Nat, i <= j PROVE i * w <= j * w
  <2>1. j - i \in Nat
    BY <1>3
  <2>2. (j - i) * w \in Nat
    BY <2>1
  <2>3. j * w = (j - i) * w + i * w
    BY <2>1
  <2> QED BY <2>2, <2>3
<1> QED BY <1>1, <1>2, <1>3

\* What Multisig::load and the accessors read of a tail laid out so.
LEMMA LaysReads ==
    ASSUME NEW m, NEW o, NEW q, Lays(m.tail, m.owners_count, o, q)
    PROVE  /\ Loads(m)
           /\ Owners(m) = o
           /\ \A k \in 0..(m.owners_count - 1) : PermissionAt(m, k) = q[k]
<1> DEFINE n == m.owners_count
           t == m.tail
<1>1. n \in Nat /\ W \in Nat /\ BASE \in Nat
  BY Layout DEF Lays
<1>2. Loads(m)
  <2>1. Space(n) = n * W + n
    BY <1>1, Rows DEF Space
  <2>2. t = [i \in 0..(n * W + n - 1) |-> t[i]]
    BY DEF Lays
  <2> HIDE DEF n, t
  <2>3. DOMAIN t = 0..(n * W + n - 1)
    BY <2>2
  <2>4. DOMAIN t = 0..(Space(n) - 1)
    <3>1. n * W \in Nat /\ n \in Nat
      BY <1>1
    <3>2. \A x, y \in Nat : x + y - 1 = (x + y) - 1
      OBVIOUS
    <3> QED BY <2>1, <2>3, <3>1, <3>2
  <2> QED BY <2>4, Zenon DEF Loads, n, t
<1>3. ASSUME NEW k \in 0..(n - 1) PROVE AddressAt(t, k * W) = o[k]
  <2>1. o[k] \in Address
    BY DEF Lays
  <2>2. Cells(o[k]) \in [1..W -> Nat] /\ Number(Cells(o[k])) = o[k]
    BY <2>1, CellsSpell
  <2>3. \A j \in 1..W : t[k * W + j - 1] = Cells(o[k])[j]
    BY DEF Lays
  <2>4. [j \in 1..W |-> t[k * W + j - 1]] = Cells(o[k])
    BY <2>2, <2>3
  <2> QED BY <2>2, <2>4 DEF AddressAt
<1>4. Owners(m) = o
  <2>1. o = [k \in 0..(n - 1) |-> o[k]]
    BY DEF Lays
  <2> QED BY <1>3, <2>1 DEF Owners
<1> QED BY <1>2, <1>4 DEF Lays, PermissionAt

\* Where each cell of the tail comes from when add_owner has moved the
\* permissions clear, the owners from A on apart and the permissions apart.
Opened(g, t, w, n, pos, A, O) ==
    /\ g = [i \in 0..(O + w + n) |-> g[i]]
    /\ \A i \in 0..(A - 1) : g[i] = t[i]
    /\ \A i \in (A + w)..(O + w - 1) : g[i] = t[i - w]
    /\ \A k \in 0..(pos - 1) : g[O + w + k] = t[O + k]
    /\ \A k \in (pos + 1)..n : g[O + w + k] = t[O + k - 1]

\* The three copies in their order do that: none runs over cells a later one
\* still has to move.
LEMMA OpensGap ==
    ASSUME NEW w \in Nat \ {0}, NEW n \in Nat, NEW pos \in 0..n,
           NEW A \in Nat, NEW O \in Nat, A <= O,
           NEW t, DOMAIN t = 0..(O + w + n)
    PROVE  LET t1 == CopyWithin(t, O, O + n, O + w)
               t2 == CopyWithin(t1, A, O, A + w)
               t3 == CopyWithin(t2, O + w + pos, O + w + n, O + w + pos + 1)
           IN  Opened(t3, t, w, n, pos, A, O)
<1> DEFINE D  == 0..(O + w + n)
           t1 == CopyWithin(t, O, O + n, O + w)
           t2 == CopyWithin(t1, A, O, A + w)
           t3 == CopyWithin(t2, O + w + pos, O + w + n, O + w + pos + 1)
<1>1. t1 = [i \in D |-> IF i - (O + w) \in 0..(n - 1) THEN t[i - w] ELSE t[i]]
  <2>1. (O + n) - O - 1 = n - 1 /\ \A i \in D : O + i - (O + w) = i - w
    OBVIOUS
  <2> QED BY <2>1 DEF CopyWithin
<1> HIDE DEF t1
<1>2. t2 = [i \in D |-> IF i - (A + w) \in 0..(O - A - 1) THEN t1[i - w] ELSE t1[i]]
  <2>1. \A i \in D : A + i - (A + w) = i - w
    OBVIOUS
  <2>2. DOMAIN t1 = D
    BY <1>1
  <2> QED BY <2>1, <2>2 DEF CopyWithin
<1> HIDE DEF t2
<1>3. t3 = [i \in D |-> IF i - (O + w + pos + 1) \in 0..(n - pos - 1) THEN t2[i - 1] ELSE t2[i]]
  <2>1. (O + w + n) - (O + w + pos) - 1 = n - pos - 1
    OBVIOUS
  <2>2. \A i \in D : O + w + pos + i - (O + w + pos + 1) = i - 1
    OBVIOUS
  <2>3. DOMAIN t2 = D
    BY <1>2
  <2> QED BY <2>1, <2>2, <2>3 DEF CopyWithin
<1> HIDE DEF t3
<1>4. ASSUME NEW i \in 0..(A - 1) PROVE t3[i] = t[i]
  BY <1>1, <1>2, <1>3
<1>5. ASSUME NEW i \in (A + w)..(O + w - 1) PROVE t3[i] = t[i - w]
  <2>1. i \in D /\ i - w \in D /\ i - (A + w) \in 0..(O - A - 1)
    OBVIOUS
  <2>2. ~(i - (O + w + pos + 1) \in 0..(n - pos - 1)) /\ ~((i - w) - (O + w) \in 0..(n - 1))
    OBVIOUS
  <2> QED BY <1>1, <1>2, <1>3, <2>1, <2>2
<1>6. ASSUME NEW k \in 0..n
      PROVE  /\ O + w + k \in D
             /\ t2[O + w + k] = IF k < n THEN t[O + k] ELSE t[O + w + k]
  <2> DEFINE i == O + w + k
  <2>1. i \in D /\ ~(i - (A + w) \in 0..(O - A - 1)) /\ i - w = O + k /\ i - (O + w) = k
    OBVIOUS
  <2>2. k \in 0..(n - 1) <=> k < n
    OBVIOUS
  <2> HIDE DEF i
  <2>3. t2[i] = t1[i] /\ t1[i] = IF k \in 0..(n - 1) THEN t[O + k] ELSE t[i]
    BY <1>1, <1>2, <2>1
  <2> QED BY <2>1, <2>2, <2>3 DEF i
<1>7. ASSUME NEW k \in 0..(pos - 1) PROVE t3[O + w + k] = t[O + k]
  <2>1. k \in 0..n /\ k < n /\ ~((O + w + k) - (O + w + pos + 1) \in 0..(n - pos - 1))
    OBVIOUS
  <2>2. t3[O + w + k] = t2[O + w + k]
    BY <1>3, <1>6, <2>1
  <2> QED BY <1>6, <2>1, <2>2
<1>8. ASSUME NEW k \in (pos + 1)..n PROVE t3[O + w + k] = t[O + k - 1]
  <2>1. k \in 0..n /\ (O + w + k) - (O + w + pos + 1) \in 0..(n - pos - 1)
    OBVIOUS
  <2>2. k - 1 \in 0..n /\ k - 1 < n /\ (O + w + k) - 1 = O + w + (k - 1) /\ O + k - 1 = O + (k - 1)
    OBVIOUS
  <2>3. t3[O + w + k] = t2[O + w + (k - 1)]
    BY <1>3, <1>6, <2>1, <2>2
  <2> QED BY <1>6, <2>2, <2>3
<1>9. t3 = [i \in D |-> t3[i]]
  BY <1>3
<1> QED BY <1>4, <1>5, <1>7, <1>8, <1>9 DEF Opened, t1, t2, t3

\* Where each cell comes from when remove_owner has closed both gaps and
\* pulled the permissions back over the last owner.
Closed(g, t, w, n, pos, A, O) ==
    /\ DOMAIN g = 0..(O + n - 1)
    /\ \A i \in 0..(A - 1) : g[i] = t[i]
    /\ \A i \in A..(O - w - 1) : g[i] = t[i + w]
    /\ \A k \in 0..(pos - 1) : g[(O - w) + k] = t[O + k]
    /\ \A k \in pos..(n - 2) : g[(O - w) + k] = t[O + k + 1]

\* The copies of remove_owner, in their order, do that.
LEMMA ClosesGap ==
    ASSUME NEW w \in Nat \ {0}, NEW n \in Nat \ {0}, NEW pos \in 0..(n - 1),
           NEW A \in Nat, NEW O \in Nat, A + w <= O,
           NEW t, DOMAIN t = 0..(O + n - 1)
    PROVE  LET t1 == CopyWithin(t, A + w, O, A)
               t2 == CopyWithin(t1, O + pos + 1, O + n, O + pos)
               t3 == CopyWithin(t2, O, O + n - 1, O - w)
           IN  Closed(t3, t, w, n, pos, A, O)
<1> DEFINE D  == 0..(O + n - 1)
           t1 == CopyWithin(t, A + w, O, A)
           t2 == CopyWithin(t1, O + pos + 1, O + n, O + pos)
           t3 == CopyWithin(t2, O, O + n - 1, O - w)
<1>1. t1 = [i \in D |-> IF i - A \in 0..(O - A - w - 1) THEN t[i + w] ELSE t[i]]
  <2>1. O - (A + w) - 1 = O - A - w - 1 /\ \A i \in D : A + w + i - A = i + w
    OBVIOUS
  <2> QED BY <2>1 DEF CopyWithin
<1> HIDE DEF t1
<1>2. t2 = [i \in D |-> IF i - (O + pos) \in 0..(n - pos - 2) THEN t1[i + 1] ELSE t1[i]]
  <2>1. (O + n) - (O + pos + 1) - 1 = n - pos - 2
    OBVIOUS
  <2>2. \A i \in D : O + pos + 1 + i - (O + pos) = i + 1
    OBVIOUS
  <2>3. DOMAIN t1 = D
    BY <1>1
  <2> QED BY <2>1, <2>2, <2>3 DEF CopyWithin
<1> HIDE DEF t2
<1>3. t3 = [i \in D |-> IF i - (O - w) \in 0..(n - 2) THEN t2[i + w] ELSE t2[i]]
  <2>1. (O + n - 1) - O - 1 = n - 2 /\ \A i \in D : O + i - (O - w) = i + w
    OBVIOUS
  <2>2. DOMAIN t2 = D
    BY <1>2
  <2> QED BY <2>1, <2>2 DEF CopyWithin
<1> HIDE DEF t3
<1>4. ASSUME NEW i \in 0..(A - 1) PROVE t3[i] = t[i]
  BY <1>1, <1>2, <1>3
<1>5. ASSUME NEW i \in A..(O - w - 1) PROVE t3[i] = t[i + w]
  <2>1. i \in D /\ i - A \in 0..(O - A - w - 1)
    OBVIOUS
  <2>2. ~(i - (O - w) \in 0..(n - 2)) /\ ~(i - (O + pos) \in 0..(n - pos - 2))
    OBVIOUS
  <2> QED BY <1>1, <1>2, <1>3, <2>1, <2>2
<1>6. ASSUME NEW k \in 0..(n - 2)
      PROVE  t3[(O - w) + k] = IF k < pos THEN t[O + k] ELSE t[O + k + 1]
  <2> DEFINE i == (O - w) + k
             j == O + k
  <2>1. i \in D /\ i - (O - w) \in 0..(n - 2) /\ i + w = j /\ j \in D /\ j + 1 \in D
    OBVIOUS
  <2>2. j - (O + pos) \in 0..(n - pos - 2) <=> ~(k < pos)
    OBVIOUS
  <2>3. ~(j - A \in 0..(O - A - w - 1)) /\ ~((j + 1) - A \in 0..(O - A - w - 1))
    OBVIOUS
  <2>4. j + 1 = O + k + 1
    OBVIOUS
  <2> HIDE DEF i, j
  <2>5. t3[i] = t2[j] /\ t2[j] = IF k < pos THEN t1[j] ELSE t1[j + 1]
    BY <1>2, <1>3, <2>1, <2>2
  <2>6. t1[j] = t[j] /\ t1[j + 1] = t[j + 1]
    BY <1>1, <2>1, <2>3
  <2> QED BY <2>4, <2>5, <2>6 DEF i, j
<1>7. \A k \in 0..(pos - 1) : k \in 0..(n - 2) /\ k < pos
  OBVIOUS
<1>8. \A k \in pos..(n - 2) : k \in 0..(n - 2) /\ ~(k < pos)
  OBVIOUS
<1>9. DOMAIN t3 = D
  BY <1>3
<1>10. \A k \in 0..(pos - 1) : t3[(O - w) + k] = t[O + k]
  BY <1>6, <1>7
<1>11. \A k \in pos..(n - 2) : t3[(O - w) + k] = t[O + k + 1]
  BY <1>6, <1>8
<1> QED BY <1>4, <1>5, <1>9, <1>10, <1>11 DEF Closed, t1, t2, t3

\* A list with an element put in, and with one taken out.
Insert(s, n, pos, x) ==
    [k \in 0..n |-> IF k < pos THEN s[k] ELSE IF k = pos THEN x ELSE s[k - 1]]
Delete(s, n, pos) ==
    [k \in 0..(n - 2) |-> IF k < pos THEN s[k] ELSE s[k + 1]]

\* The tail add_owner leaves.
Grown(tail, n, pos, a) ==
    [Write(OpenGap(Resize(tail, Space(n + 1)), n, pos), pos * W, Cells(a))
        EXCEPT ![(n + 1) * W + pos] = 0]

\* The tail after add_owner is laid out for one owner more, where it belongs.
LEMMA GrownLays ==
    ASSUME NEW t, NEW n, NEW o, NEW q, Lays(t, n, o, q), NEW pos \in 0..n, NEW a \in Address
    PROVE  Lays(Grown(t, n, pos, a), n + 1, Insert(o, n, pos, a), Insert(q, n, pos, 0))
<1> DEFINE A == pos * W
           O == n * W
           r == Resize(t, Space(n + 1))
           g == OpenGap(r, n, pos)
           u == Write(g, A, Cells(a))
           v == Grown(t, n, pos, a)
           D == 0..(O + W + n)
<1>1. /\ n \in Nat /\ o \in [0..(n - 1) -> Address] /\ q \in [0..(n - 1) -> Masks]
      /\ DOMAIN t = 0..(O + n - 1)
      /\ \A k \in 0..(n - 1), j \in 1..W : t[k * W + j - 1] = Cells(o[k])[j]
      /\ \A k \in 0..(n - 1) : t[O + k] = q[k]
  <2>1. t = [i \in 0..(O + n - 1) |-> t[i]]
    BY DEF Lays
  <2>2. DOMAIN t = 0..(O + n - 1)
    BY <2>1
  <2> QED BY <2>2 DEF Lays
<1>2. W \in Nat \ {0} /\ pos \in Nat
  BY <1>1, Layout
<1>3. /\ A \in Nat /\ O \in Nat /\ A <= O
      /\ (pos + 1) * W = A + W /\ (n + 1) * W = O + W
      /\ Space(n + 1) = O + W + n + 1
  <2>1. (n + 1) * (W + 1) = (n + 1) * W + (n + 1) /\ (n + 1) * W = n * W + W
    BY <1>1, <1>2, Rows
  <2>2. (pos + 1) * W = pos * W + W /\ pos * W \in Nat /\ n * W \in Nat /\ pos * W <= n * W
    BY <1>1, <1>2, Rows
  <2> QED BY <1>1, <1>2, <2>1, <2>2 DEF Space
<1>4. ASSUME NEW k \in Nat
      PROVE  /\ k * W \in Nat
             /\ k < pos => k * W + W <= A
             /\ pos < k => A + W <= k * W
             /\ k < n => k * W + W <= O
             /\ 0 < k => (k - 1) * W = k * W - W
  <2>1. k * W \in Nat /\ (k < pos => k * W + W <= A) /\ (k < n => k * W + W <= O)
    BY <1>1, <1>2, Rows
  <2>2. pos < k => A + W <= k * W
    BY <1>2, Rows
  <2>3. (k - 1) * W = k * W - W
    BY <1>2
  <2> QED BY <2>1, <2>2, <2>3
<1>5. /\ r = [i \in D |-> IF i \in 0..(O + n - 1) THEN t[i] ELSE 0]
      /\ DOMAIN r = D
  <2>1. Space(n + 1) - 1 = O + W + n
    BY <1>1, <1>2, <1>3
  <2> HIDE DEF O
  <2> QED BY <1>1, <2>1 DEF Resize
<1> HIDE DEF A, O, r, D
<1>6. /\ g = [i \in D |-> g[i]]
      /\ \A i \in 0..(A - 1) : g[i] = r[i]
      /\ \A i \in (A + W)..(O + W - 1) : g[i] = r[i - W]
      /\ \A k \in 0..(pos - 1) : g[O + W + k] = r[O + k]
      /\ \A k \in (pos + 1)..n : g[O + W + k] = r[O + k - 1]
  <2> DEFINE t1 == CopyWithin(r, O, O + n, O + W)
             t2 == CopyWithin(t1, A, O, A + W)
             t3 == CopyWithin(t2, O + W + pos, O + W + n, O + W + pos + 1)
  <2>1. g = t3
    BY <1>3 DEF OpenGap, O, A
  <2>2. Opened(t3, r, W, n, pos, A, O)
    <3>1. DOMAIN r = 0..(O + W + n)
      BY <1>5 DEF D
    <3> QED BY <1>1, <1>2, <1>3, <3>1, OpensGap
  <2> HIDE DEF t3, g
  <2> QED BY <2>1, <2>2 DEF D, Opened
<1> HIDE DEF g
<1>7. Cells(a) \in [1..W -> Nat]
  BY CellsSpell
<1>8. u = [i \in D |-> IF i - A + 1 \in 1..W THEN Cells(a)[i - A + 1] ELSE g[i]]
  <2>1. DOMAIN g = D /\ DOMAIN Cells(a) = 1..W
    BY <1>6, <1>7
  <2> QED BY <2>1 DEF Write
<1>9. v = [u EXCEPT ![O + W + pos] = 0]
  BY <1>3 DEF Grown, A, O, r, g
<1> HIDE DEF u, v
<1>10. v = [i \in D |-> v[i]]
  BY <1>8, <1>9
<1>11. ASSUME NEW i \in 0..(O + W - 1)
       PROVE  v[i] = IF i < A THEN t[i] ELSE IF i < A + W THEN Cells(a)[i - A + 1] ELSE t[i - W]
  <2>1. i \in D /\ i # O + W + pos
    BY <1>1, <1>2, <1>3 DEF D
  <2>2. v[i] = u[i]
    BY <1>8, <1>9, <2>1
  <2>3. CASE i < A
    <3>1. i \in 0..(A - 1) /\ ~(i - A + 1 \in 1..W) /\ i \in 0..(O + n - 1)
      BY <1>1, <1>2, <1>3, <2>3
    <3>2. u[i] = g[i] /\ g[i] = r[i] /\ r[i] = t[i]
      BY <1>5, <1>6, <1>8, <2>1, <3>1
    <3> QED BY <2>2, <2>3, <3>2
  <2>4. CASE ~(i < A) /\ i < A + W
    <3>1. i - A + 1 \in 1..W
      BY <1>2, <1>3, <2>4
    <3> QED BY <1>8, <2>1, <2>2, <2>4, <3>1
  <2>5. CASE ~(i < A) /\ ~(i < A + W)
    <3>1. i \in (A + W)..(O + W - 1) /\ ~(i - A + 1 \in 1..W) /\ i - W \in 0..(O + n - 1) /\ i - W \in D
      BY <1>1, <1>2, <1>3, <2>5 DEF D
    <3>2. u[i] = g[i] /\ g[i] = r[i - W] /\ r[i - W] = t[i - W]
      BY <1>5, <1>6, <1>8, <2>1, <3>1
    <3> QED BY <2>2, <2>5, <3>2
  <2> QED BY <2>3, <2>4, <2>5
<1>12. ASSUME NEW k \in 0..n, NEW j \in 1..W
       PROVE  v[k * W + j - 1] = Cells(Insert(o, n, pos, a)[k])[j]
  <2> DEFINE K == k * W
             i == K + j - 1
  <2>1. k \in Nat /\ K \in Nat /\ j \in Nat /\ 1 <= j /\ j <= W
    BY <1>1, <1>2, <1>4
  <2>2. (k < pos => K + W <= A) /\ (pos < k => A + W <= K) /\ (k = pos => K = A)
    BY <1>4, <2>1 DEF A
  <2>3. K <= O
    <3>1. CASE k < n
      BY <1>2, <1>3, <1>4, <2>1, <3>1
    <3>2. CASE k = n
      BY <1>3, <3>2 DEF O
    <3> QED BY <1>1, <3>1, <3>2
  <2>4. 0 < k => (k - 1) * W = K - W
    BY <1>4, <2>1
  <2> HIDE DEF K
  <2>5. i \in 0..(O + W - 1)
    BY <1>2, <1>3, <2>1, <2>3
  <2>6. CASE k < pos
    <3>1. i < A /\ k \in 0..(n - 1)
      BY <1>1, <1>2, <1>3, <2>1, <2>2, <2>6
    <3>2. v[i] = t[i]
      BY <1>11, <2>5, <3>1
    <3>3. t[i] = Cells(o[k])[j]
      BY <1>1, <3>1 DEF K
    <3> QED BY <2>6, <3>2, <3>3 DEF Insert, K
  <2>7. CASE k = pos
    <3>1. ~(i < A) /\ i < A + W /\ i - A + 1 = j
      BY <1>2, <1>3, <2>1, <2>2, <2>7
    <3>2. v[i] = Cells(a)[j]
      BY <1>11, <2>5, <3>1
    <3> QED BY <1>1, <2>7, <3>2 DEF Insert, K
  <2>8. CASE pos < k
    <3>1. ~(i < A) /\ ~(i < A + W) /\ k - 1 \in 0..(n - 1) /\ ~(k < pos) /\ k # pos
      BY <1>1, <1>2, <1>3, <2>1, <2>2, <2>8
    <3>2. v[i] = t[i - W]
      BY <1>11, <2>5, <3>1
    <3>3. i - W = (k - 1) * W + j - 1
      BY <1>2, <2>1, <2>4, <2>8
    <3>4. t[(k - 1) * W + j - 1] = Cells(o[k - 1])[j]
      BY <1>1, <3>1
    <3> QED BY <3>1, <3>2, <3>3, <3>4 DEF Insert, K
  <2> QED BY <1>1, <2>6, <2>7, <2>8
<1>13. ASSUME NEW k \in 0..n PROVE v[O + W + k] = Insert(q, n, pos, 0)[k]
  <2>1. O + W + k \in D /\ ~((O + W + k) - A + 1 \in 1..W) /\ k \in Nat
    BY <1>1, <1>2, <1>3 DEF D
  <2>2. u[O + W + k] = g[O + W + k]
    BY <1>8, <2>1
  <2>3. v[O + W + k] = IF k = pos THEN 0 ELSE g[O + W + k]
    BY <1>2, <1>3, <1>8, <1>9, <2>1, <2>2
  <2>4. CASE k < pos
    <3>1. k \in 0..(pos - 1) /\ k \in 0..(n - 1) /\ O + k \in D /\ O + k \in 0..(O + n - 1) /\ k # pos
      BY <1>1, <1>2, <1>3, <2>4 DEF D
    <3>2. g[O + W + k] = r[O + k] /\ r[O + k] = t[O + k] /\ t[O + k] = q[k]
      BY <1>1, <1>5, <1>6, <3>1
    <3> QED BY <2>3, <2>4, <3>1, <3>2 DEF Insert
  <2>5. CASE k = pos
    BY <1>1, <2>3, <2>5 DEF Insert
  <2>6. CASE pos < k
    <3>1. /\ k \in (pos + 1)..n /\ k - 1 \in 0..(n - 1) /\ O + k - 1 = O + (k - 1)
          /\ O + k - 1 \in D /\ O + k - 1 \in 0..(O + n - 1) /\ k # pos /\ ~(k < pos)
      BY <1>1, <1>2, <1>3, <2>6 DEF D
    <3>2. g[O + W + k] = r[O + k - 1] /\ r[O + k - 1] = t[O + k - 1] /\ t[O + (k - 1)] = q[k - 1]
      BY <1>1, <1>5, <1>6, <3>1
    <3> QED BY <2>3, <3>1, <3>2 DEF Insert
  <2> QED BY <1>1, <2>4, <2>5, <2>6
<1>14. /\ Insert(o, n, pos, a) \in [0..n -> Address]
       /\ Insert(q, n, pos, 0) \in [0..n -> Masks]
  <2>1. \A k \in 0..n : (k < pos => k \in 0..(n - 1)) /\ (~(k < pos) /\ k # pos => k - 1 \in 0..(n - 1))
    BY <1>1, <1>2
  <2>2. 0 \in Masks
    BY DEF Masks, ALL
  <2> QED BY <1>1, <2>1, <2>2 DEF Insert
<1>15. (n + 1) - 1 = n /\ n + 1 \in Nat /\ (n + 1) * W + (n + 1) - 1 = O + W + n
  BY <1>1, <1>2, <1>3
<1> QED BY <1>3, <1>10, <1>12, <1>13, <1>14, <1>15 DEF Lays, D, v

\* The tail remove_owner leaves.
Shrunk(tail, n, pos) == Resize(CloseGap(tail, n, pos), Space(n - 1))

\* The tail after remove_owner is laid out for the owners that stay.
LEMMA ShrunkLays ==
    ASSUME NEW t, NEW n, NEW o, NEW q, Lays(t, n, o, q), NEW pos \in 0..(n - 1)
    PROVE  Lays(Shrunk(t, n, pos), n - 1, Delete(o, n, pos), Delete(q, n, pos))
<1> DEFINE A == pos * W
           O == n * W
           g == CloseGap(t, n, pos)
           v == Shrunk(t, n, pos)
           D == 0..(O - W + n - 2)
<1>1. /\ n \in Nat \ {0} /\ o \in [0..(n - 1) -> Address] /\ q \in [0..(n - 1) -> Masks]
      /\ DOMAIN t = 0..(O + n - 1)
      /\ \A k \in 0..(n - 1), j \in 1..W : t[k * W + j - 1] = Cells(o[k])[j]
      /\ \A k \in 0..(n - 1) : t[O + k] = q[k]
  <2>1. t = [i \in 0..(O + n - 1) |-> t[i]]
    BY DEF Lays
  <2>2. DOMAIN t = 0..(O + n - 1)
    BY <2>1
  <2>3. n \in Nat \ {0}
    BY DEF Lays
  <2> QED BY <2>2, <2>3 DEF Lays
<1>2. W \in Nat \ {0} /\ pos \in Nat /\ pos < n /\ n - 1 \in Nat
  BY <1>1, Layout
<1>3. /\ A \in Nat /\ O \in Nat /\ A + W <= O
      /\ (pos + 1) * W = A + W /\ (n - 1) * W = O - W
      /\ Space(n - 1) - 1 = O - W + n - 2
  <2>1. (n - 1) * (W + 1) = (n - 1) * W + (n - 1) /\ n * W = (n - 1) * W + W
    BY <1>1, <1>2, Rows
  <2>2. (pos + 1) * W = pos * W + W /\ pos * W \in Nat /\ n * W \in Nat /\ pos * W + W <= n * W
    BY <1>1, <1>2, Rows
  <2>3. (n - 1) * W \in Nat
    BY <1>2
  <2> QED BY <1>1, <1>2, <2>1, <2>2, <2>3 DEF Space
<1>4. ASSUME NEW k \in Nat
      PROVE  /\ k * W \in Nat
             /\ k < pos => k * W + W <= A
             /\ pos <= k => A <= k * W
             /\ k < n - 1 => k * W + W <= O - W
             /\ (k + 1) * W = k * W + W
  <2>1. k * W \in Nat /\ (k < pos => k * W + W <= A) /\ (k + 1) * W = k * W + W
    BY <1>2, Rows
  <2>2. pos <= k => A <= k * W
    BY <1>2, Rows
  <2>3. k < n - 1 => k * W + W <= (n - 1) * W
    BY <1>2, Rows
  <2> QED BY <1>3, <2>1, <2>2, <2>3
<1> HIDE DEF A, O
<1>5. Closed(g, t, W, n, pos, A, O)
  <2> DEFINE t1 == CopyWithin(t, A + W, O, A)
             t2 == CopyWithin(t1, O + pos + 1, O + n, O + pos)
             t3 == CopyWithin(t2, O, O + n - 1, O - W)
  <2>1. g = t3
    BY <1>3 DEF CloseGap, O, A
  <2>2. Closed(t3, t, W, n, pos, A, O)
    BY <1>1, <1>2, <1>3, ClosesGap
  <2> HIDE DEF t3, g
  <2> QED BY <2>1, <2>2
<1> HIDE DEF g
<1>6. v = [i \in D |-> g[i]]
  <2>1. DOMAIN g = 0..(O + n - 1)
    BY <1>5 DEF Closed
  <2>2. D \subseteq 0..(O + n - 1)
    BY <1>1, <1>2, <1>3
  <2>3. v = [i \in D |-> IF i \in DOMAIN g THEN g[i] ELSE 0]
    BY <1>3 DEF Shrunk, Resize, g
  <2> HIDE DEF D
  <2> QED BY <2>1, <2>2, <2>3
<1> HIDE DEF v, D
<1>7. v = [i \in D |-> v[i]]
  BY <1>6
<1>8. ASSUME NEW i \in 0..(O - W - 1)
      PROVE  v[i] = IF i < A THEN t[i] ELSE t[i + W]
  <2>1. i \in D /\ (i < A => i \in 0..(A - 1)) /\ (~(i < A) => i \in A..(O - W - 1))
    BY <1>1, <1>2, <1>3 DEF D
  <2> QED BY <1>5, <1>6, <2>1 DEF Closed
<1>9. ASSUME NEW k \in 0..(n - 2), NEW j \in 1..W
      PROVE  v[k * W + j - 1] = Cells(Delete(o, n, pos)[k])[j]
  <2> DEFINE K == k * W
             i == K + j - 1
  <2>1. /\ k \in Nat /\ K \in Nat /\ j \in Nat /\ 1 <= j /\ j <= W
        /\ k < n - 1 /\ k \in 0..(n - 1) /\ k + 1 \in 0..(n - 1)
    BY <1>1, <1>2, <1>4
  <2>2. /\ k < pos => K + W <= A
        /\ pos <= k => A <= K
        /\ K + W <= O - W
        /\ (k + 1) * W = K + W
    BY <1>4, <2>1
  <2> HIDE DEF K
  <2>3. i \in 0..(O - W - 1)
    BY <1>2, <1>3, <2>1, <2>2
  <2>4. CASE k < pos
    <3>1. i < A
      BY <1>2, <1>3, <2>1, <2>2, <2>4
    <3>2. v[i] = t[i] /\ t[i] = Cells(o[k])[j]
      BY <1>1, <1>8, <2>1, <2>3, <3>1 DEF K
    <3> QED BY <2>4, <3>2 DEF Delete, K
  <2>5. CASE ~(k < pos)
    <3>1. ~(i < A) /\ i + W = (k + 1) * W + j - 1
      BY <1>2, <1>3, <2>1, <2>2, <2>5
    <3>2. v[i] = t[i + W]
      BY <1>8, <2>3, <3>1
    <3>3. t[(k + 1) * W + j - 1] = Cells(o[k + 1])[j]
      BY <1>1, <2>1
    <3> QED BY <2>5, <3>1, <3>2, <3>3 DEF Delete, K
  <2> QED BY <2>4, <2>5
<1>10. ASSUME NEW k \in 0..(n - 2) PROVE v[(O - W) + k] = Delete(q, n, pos)[k]
  <2>1. /\ (O - W) + k \in D /\ k \in 0..(n - 1) /\ k + 1 \in 0..(n - 1)
        /\ O + k + 1 = O + (k + 1)
    BY <1>1, <1>2, <1>3 DEF D
  <2>2. v[(O - W) + k] = g[(O - W) + k]
    BY <1>6, <2>1
  <2>3. CASE k < pos
    <3>1. k \in 0..(pos - 1)
      BY <2>3
    <3>2. g[(O - W) + k] = t[O + k] /\ t[O + k] = q[k]
      BY <1>1, <1>5, <2>1, <3>1 DEF Closed
    <3> QED BY <2>2, <2>3, <3>2 DEF Delete
  <2>4. CASE ~(k < pos)
    <3>1. k \in pos..(n - 2)
      BY <1>2, <2>4
    <3>2. g[(O - W) + k] = t[O + k + 1] /\ t[O + (k + 1)] = q[k + 1]
      BY <1>1, <1>5, <2>1, <3>1 DEF Closed
    <3> QED BY <2>1, <2>2, <2>4, <3>2 DEF Delete
  <2> QED BY <2>3, <2>4
<1>11. /\ Delete(o, n, pos) \in [0..(n - 2) -> Address]
       /\ Delete(q, n, pos) \in [0..(n - 2) -> Masks]
  <2>1. \A k \in 0..(n - 2) : k \in 0..(n - 1) /\ k + 1 \in 0..(n - 1)
    BY <1>1
  <2> QED BY <1>1, <2>1 DEF Delete
<1>12. (n - 1) - 1 = n - 2 /\ (n - 1) * W + (n - 1) - 1 = O - W + n - 2
  BY <1>1, <1>2, <1>3
<1> QED BY <1>2, <1>3, <1>7, <1>9, <1>10, <1>11, <1>12 DEF Lays, D, v

(***************************************************************************)
(* The owner list and the configuration it stands for.                     *)
(***************************************************************************)
\* An ascending list names each owner once, at its position.
LEMMA PositionAt ==
    ASSUME NEW n \in Nat, NEW o \in [0..(n - 1) -> Address], Ascends(o, n)
    PROVE  /\ \A i, j \in 0..(n - 1) : o[i] = o[j] => i = j
           /\ \A k \in 0..(n - 1) : Position(Range(o), o[k]) = k
           /\ Range(o) \in SUBSET Address
           /\ Cardinality(Range(o)) = n
<1>1. ASSUME NEW i \in 0..(n - 1), NEW j \in 0..(n - 1), o[i] = o[j] PROVE i = j
  <2>1. o[i] \in Nat /\ o[j] \in Nat
    BY Layout
  <2> QED BY <1>1, <2>1 DEF Ascends
<1>2. ASSUME NEW k \in 0..(n - 1) PROVE Position(Range(o), o[k]) = k
  <2> DEFINE p == Position(Range(o), o[k])
  <2>1. o[k] \in Range(o) /\ o[k] \in Address
    BY DEF Range
  <2>2. p \in 0..n /\ p < n /\ o[p] = o[k]
    BY <2>1, SearchFinds
  <2> HIDE DEF p
  <2>3. p \in 0..(n - 1)
    BY <2>2
  <2>4. p = k
    BY <1>1, <2>2, <2>3
  <2> QED BY <2>4 DEF p
<1>3. Range(o) \in SUBSET Address
  BY DEF Range
<1>4. Cardinality(Range(o)) = n
  <2>1. o \in Surjection(0..(n - 1), Range(o))
    BY DEF Surjection, Range
  <2>2. o \in Injection(0..(n - 1), Range(o))
    BY <1>1, <2>1 DEF Surjection, Injection, IsInjective
  <2>3. IsFiniteSet(0..(n - 1)) /\ Cardinality(0..(n - 1)) = n
    <3>1. n - 1 \in Int
      OBVIOUS
    <3>2. /\ IsFiniteSet(0..(n - 1))
          /\ Cardinality(0..(n - 1)) = IF 0 > n - 1 THEN 0 ELSE (n - 1) - 0 + 1
      BY <3>1, FS_Interval
    <3> QED BY <3>2
  <2> QED BY <2>1, <2>2, <2>3, FS_Surjection
<1> QED BY <1>1, <1>2, <1>3, <1>4

\* The permissions q of the owners o, by address.
Masked(o, q) ==
    [a \in Address |-> IF a \in Range(o) THEN q[Position(Range(o), a)] ELSE 0]

\* They are told by what each owner of the list has.
Gives(f, n, o, q) ==
    /\ f = [a \in Address |-> f[a]]
    /\ \A k \in 0..(n - 1) : f[o[k]] = q[k]
    /\ \A a \in Address : a \notin Range(o) => f[a] = 0

\* Whatever gives each owner its permission is the map of the list.
LEMMA MaskedIs ==
    ASSUME NEW n \in Nat, NEW o \in [0..(n - 1) -> Address], Ascends(o, n),
           NEW q \in [0..(n - 1) -> Masks], NEW f, Gives(f, n, o, q)
    PROVE  f = Masked(o, q)
<1>1. ASSUME NEW a \in Address
      PROVE  f[a] = IF a \in Range(o) THEN q[Position(Range(o), a)] ELSE 0
  <2>1. CASE a \in Range(o)
    <3>1. PICK k \in 0..(n - 1) : o[k] = a
      BY <2>1 DEF Range
    <3>2. Position(Range(o), a) = k
      BY <3>1, PositionAt
    <3> QED BY <2>1, <3>1, <3>2 DEF Gives
  <2> QED BY <2>1 DEF Gives
<1> QED BY <1>1 DEF Masked, Gives

\* The map gives each owner of the list its permission and others none.
LEMMA MaskedReads ==
    ASSUME NEW n \in Nat, NEW o \in [0..(n - 1) -> Address], Ascends(o, n),
           NEW q \in [0..(n - 1) -> Masks]
    PROVE  /\ Masked(o, q) \in [Address -> Masks]
           /\ \A k \in 0..(n - 1) : Masked(o, q)[o[k]] = q[k]
           /\ \A a \in Address : a \notin Range(o) => Masked(o, q)[a] = 0
<1>1. \A k \in 0..(n - 1) : o[k] \in Address /\ o[k] \in Range(o) /\ Position(Range(o), o[k]) = k
  BY PositionAt DEF Range
<1>2. \A k \in 0..(n - 1) : Masked(o, q)[o[k]] = q[k]
  BY <1>1 DEF Masked
<1>3. 0 \in Masks
  BY DEF Masks, ALL
<1>4. ASSUME NEW a \in Address, a \in Range(o) PROVE q[Position(Range(o), a)] \in Masks
  <2>1. PICK k \in 0..(n - 1) : o[k] = a
    BY <1>4 DEF Range
  <2> QED BY <1>1, <2>1
<1> QED BY <1>2, <1>3, <1>4 DEF Masked

Header(m) ==
    m \in [owners_count: Nat, voter_count: Int, threshold: Nat, transaction_index: Nat,
           stale_transaction_index: Nat, tail: {m.tail}]

\* The account m holds the ascending owners o with permissions q.
Holds(m, o, q) ==
    /\ Header(m)
    /\ Lays(m.tail, m.owners_count, o, q)
    /\ Ascends(o, m.owners_count)

\* The value an account stands for, field by field.
LEMMA ConfigReads ==
    ASSUME NEW m, NEW o, NEW q, Holds(m, o, q)
    PROVE  ConfigOf(m) =
               [config_authority |-> DEFAULT, rent_collector |-> DEFAULT,
                transaction_index |-> m.transaction_index,
                stale_transaction_index |-> m.stale_transaction_index,
                closed_transaction_count |-> 0, time_lock |-> 0,
                owners |-> Range(o), permissions |-> Masked(o, q),
                voter_count |-> m.voter_count, threshold |-> m.threshold]
<1> DEFINE n == m.owners_count
           f == [a \in Address |->
                   IF a \in Range(o) THEN PermissionAt(m, CHOOSE k \in DOMAIN o : o[k] = a) ELSE 0]
<1>1. /\ n \in Nat /\ o \in [0..(n - 1) -> Address] /\ q \in [0..(n - 1) -> Masks]
      /\ Ascends(o, n)
  BY DEF Holds, Lays
<1>2. Owners(m) = o /\ \A k \in 0..(n - 1) : PermissionAt(m, k) = q[k]
  BY LaysReads DEF Holds
<1>3. f = Masked(o, q)
  <2>1. ASSUME NEW k \in 0..(n - 1) PROVE f[o[k]] = q[k]
    <3> DEFINE i == CHOOSE i \in DOMAIN o : o[i] = o[k]
    <3>1. i \in 0..(n - 1) /\ o[i] = o[k]
      BY <1>1
    <3>2. i = k
      BY <1>1, <3>1, PositionAt
    <3>3. o[k] \in Address /\ o[k] \in Range(o)
      BY <1>1 DEF Range
    <3> HIDE DEF i
    <3>4. f[o[k]] = PermissionAt(m, i)
      BY <3>3 DEF i
    <3> QED BY <1>2, <3>2, <3>4
  <2>2. \A a \in Address : a \notin Range(o) => f[a] = 0
    OBVIOUS
  <2>3. f = [a \in Address |-> f[a]]
    OBVIOUS
  <2> HIDE DEF f, n
  <2>4. Gives(f, n, o, q)
    BY <2>1, <2>2, <2>3 DEF Gives
  <2> QED BY <1>1, <2>4, MaskedIs
<1> QED BY <1>2, <1>3 DEF ConfigOf

Put(f, a, x) == [f EXCEPT ![a] = x]

\* An owner put in where the search says, and one taken out.
LEMMA Inserted ==
    ASSUME NEW n \in Nat, NEW o \in [0..(n - 1) -> Address], Ascends(o, n),
           NEW q \in [0..(n - 1) -> Masks], NEW a \in Address, a \notin Range(o)
    PROVE  LET pos == Position(Range(o), a)
               o2  == Insert(o, n, pos, a)
               q2  == Insert(q, n, pos, 0)
           IN  /\ pos \in 0..n
               /\ Ascends(o2, n + 1)
               /\ InOrder(o2, n + 1, pos)
               /\ Range(o2) = Range(o) \cup {a}
               /\ Masked(o2, q2) = Put(Masked(o, q), a, 0)
<1> DEFINE pos == Position(Range(o), a)
           o2 == Insert(o, n, pos, a)
           q2 == Insert(q, n, pos, 0)
<1>1. pos \in 0..n /\ \A k \in 0..(n - 1) : o[k] < a <=> k < pos
  BY SearchFinds DEF Parts
<1> HIDE DEF pos
<1>2. a \in Nat /\ \A k \in 0..(n - 1) : o[k] \in Nat /\ o[k] # a
  BY Layout DEF Range
<1>3. /\ \A k \in 0..n : k < pos => k \in 0..(n - 1) /\ o2[k] = o[k] /\ q2[k] = q[k]
      /\ o2[pos] = a /\ q2[pos] = 0
      /\ \A k \in 0..n : pos < k => k - 1 \in 0..(n - 1) /\ o2[k] = o[k - 1] /\ q2[k] = q[k - 1]
  BY <1>1 DEF Insert
<1>4. o2 \in [0..n -> Address] /\ q2 \in [0..n -> Masks]
  <2>1. 0 \in Masks
    BY DEF Masks, ALL
  <2> QED BY <1>1, <2>1 DEF Insert
<1> HIDE DEF o2, q2
<1>5. ASSUME NEW i \in 0..n, NEW j \in 0..n, i < j PROVE o2[i] < o2[j]
  <2>1. CASE j < pos
    BY <1>1, <1>3, <1>5, <2>1 DEF Ascends
  <2>2. CASE j = pos
    BY <1>1, <1>3, <1>5, <2>2
  <2>3. CASE pos < j /\ i < pos
    <3>1. i \in 0..(n - 1) /\ j - 1 \in 0..(n - 1) /\ o2[i] = o[i] /\ o2[j] = o[j - 1]
      BY <1>3, <2>3
    <3>2. o[i] < a /\ ~(o[j - 1] < a)
      BY <1>1, <2>3, <3>1
    <3> QED BY <1>2, <3>1, <3>2
  <2>4. CASE pos < j /\ i = pos
    <3>1. j - 1 \in 0..(n - 1) /\ o2[i] = a /\ o2[j] = o[j - 1] /\ ~(o[j - 1] < a)
      BY <1>1, <1>3, <2>4
    <3> QED BY <1>2, <3>1
  <2>5. CASE pos < i
    <3>1. i - 1 \in 0..(n - 1) /\ j - 1 \in 0..(n - 1) /\ o2[i] = o[i - 1] /\ o2[j] = o[j - 1]
      BY <1>1, <1>3, <1>5, <2>5
    <3> QED BY <1>5, <3>1 DEF Ascends
  <2> QED BY <1>1, <2>1, <2>2, <2>3, <2>4, <2>5
<1>6. (n + 1) - 1 = n /\ n + 1 \in Nat
  OBVIOUS
<1>7. Ascends(o2, n + 1)
  BY <1>5, <1>6 DEF Ascends
<1>8. InOrder(o2, n + 1, pos)
  <2>1. pos > 0 => pos - 1 \in 0..n /\ pos - 1 < pos
    BY <1>1
  <2>2. pos + 1 < n + 1 => pos + 1 \in 0..n /\ pos < pos + 1
    BY <1>1
  <2> QED BY <1>1, <1>5, <2>1, <2>2 DEF InOrder
<1>9. Range(o2) = Range(o) \cup {a}
  <2>1. ASSUME NEW k \in 0..n PROVE o2[k] \in Range(o) \cup {a}
    BY <1>1, <1>3 DEF Range
  <2>2. a \in Range(o2)
    BY <1>1, <1>3, <1>4 DEF Range
  <2>3. ASSUME NEW k \in 0..(n - 1) PROVE o[k] \in Range(o2)
    <3>1. CASE k < pos
      BY <1>1, <1>3, <1>4, <3>1 DEF Range
    <3>2. CASE ~(k < pos)
      <4>1. k + 1 \in 0..n /\ pos < k + 1 /\ (k + 1) - 1 = k
        BY <1>1, <3>2
      <4>2. o2[k + 1] = o[k]
        BY <1>3, <4>1
      <4> QED BY <1>4, <4>1, <4>2 DEF Range
    <3> QED BY <3>1, <3>2
  <2>4. Range(o2) \subseteq Range(o) \cup {a}
    BY <1>4, <2>1 DEF Range
  <2>5. Range(o) \subseteq Range(o2)
    BY <2>3 DEF Range
  <2> QED BY <2>2, <2>4, <2>5
<1>10. Masked(o2, q2) = [Masked(o, q) EXCEPT ![a] = 0]
  <2> DEFINE f == [Masked(o, q) EXCEPT ![a] = 0]
  <2>1. /\ Masked(o, q) \in [Address -> Masks]
        /\ \A k \in 0..(n - 1) : Masked(o, q)[o[k]] = q[k]
        /\ \A x \in Address : x \notin Range(o) => Masked(o, q)[x] = 0
    BY MaskedReads
  <2>2. f = [x \in Address |-> f[x]] /\ f[a] = 0
    BY <2>1
  <2>3. \A k \in 0..(n - 1) : f[o[k]] = q[k]
    BY <1>2, <2>1
  <2>4. \A x \in Address : x \notin Range(o2) => f[x] = 0
    BY <1>9, <2>1
  <2> HIDE DEF f
  <2>5. ASSUME NEW k \in 0..n PROVE f[o2[k]] = q2[k]
    <3>1. CASE k < pos
      BY <1>3, <2>3, <3>1
    <3>2. CASE k = pos
      BY <1>3, <2>2, <3>2
    <3>3. CASE pos < k
      BY <1>3, <2>3, <3>3
    <3> QED BY <1>1, <3>1, <3>2, <3>3
  <2>6. Gives(f, n + 1, o2, q2)
    BY <1>6, <2>2, <2>4, <2>5 DEF Gives
  <2>7. f = Masked(o2, q2)
    BY <1>4, <1>6, <1>7, <2>6, MaskedIs
  <2> QED BY <2>7 DEF f
<1> QED BY <1>1, <1>7, <1>8, <1>9, <1>10 DEF pos, o2, q2, Put

\* Taking one owner out of the list takes it out of the set, and its mask.
LEMMA Deleted ==
    ASSUME NEW n \in Nat, NEW o \in [0..(n - 1) -> Address], Ascends(o, n),
           NEW q \in [0..(n - 1) -> Masks], NEW pos \in 0..(n - 1)
    PROVE  LET o2 == Delete(o, n, pos)
               q2 == Delete(q, n, pos)
           IN  /\ Ascends(o2, n - 1)
               /\ Range(o2) = Range(o) \ {o[pos]}
               /\ Masked(o2, q2) = Put(Masked(o, q), o[pos], 0)
<1> DEFINE a == o[pos]
           o2 == Delete(o, n, pos)
           q2 == Delete(q, n, pos)
           At(k) == IF k < pos THEN k ELSE k + 1
<1>1. \A k \in 0..(n - 2) : /\ At(k) \in 0..(n - 1) /\ At(k) # pos
                            /\ o2[k] = o[At(k)] /\ q2[k] = q[At(k)]
  BY DEF Delete
<1>2. \A i, j \in 0..(n - 2) : i < j => At(i) < At(j)
  OBVIOUS
<1>3. o2 \in [0..(n - 2) -> Address] /\ q2 \in [0..(n - 2) -> Masks]
  BY DEF Delete
<1>4. \A j \in 0..(n - 1) : j # pos => \E k \in 0..(n - 2) : At(k) = j
  <2> SUFFICES ASSUME NEW j \in 0..(n - 1), j # pos PROVE \E k \in 0..(n - 2) : At(k) = j
    OBVIOUS
  <2>1. CASE j < pos
    <3>1. j \in 0..(n - 2) /\ At(j) = j
      BY <2>1
    <3> QED BY <3>1
  <2>2. CASE ~(j < pos)
    <3>1. j - 1 \in 0..(n - 2) /\ At(j - 1) = j
      BY <2>2
    <3> QED BY <3>1
  <2> QED BY <2>1, <2>2
<1> HIDE DEF At, o2, q2
<1>5. (n - 1) - 1 = n - 2 /\ n - 1 \in Nat
  OBVIOUS
<1>6. Ascends(o2, n - 1)
  BY <1>1, <1>2, <1>5 DEF Ascends
<1>7. \A i, j \in 0..(n - 1) : o[i] = o[j] => i = j
  BY PositionAt
<1>8. Range(o2) = Range(o) \ {a}
  <2>1. Range(o2) \subseteq Range(o) \ {a}
    BY <1>1, <1>3, <1>7 DEF Range
  <2>2. ASSUME NEW x \in Range(o), x # a PROVE x \in Range(o2)
    <3>1. PICK j \in 0..(n - 1) : o[j] = x
      BY DEF Range
    <3>2. PICK k \in 0..(n - 2) : At(k) = j
      BY <1>4, <2>2, <3>1
    <3> QED BY <1>1, <1>3, <3>1, <3>2 DEF Range
  <2> QED BY <2>1, <2>2
<1>9. Masked(o2, q2) = [Masked(o, q) EXCEPT ![a] = 0]
  <2> DEFINE f == [Masked(o, q) EXCEPT ![a] = 0]
  <2>1. /\ Masked(o, q) \in [Address -> Masks]
        /\ \A k \in 0..(n - 1) : Masked(o, q)[o[k]] = q[k]
        /\ \A x \in Address : x \notin Range(o) => Masked(o, q)[x] = 0
    BY MaskedReads
  <2>2. f = [x \in Address |-> f[x]] /\ f[a] = 0
    BY <2>1
  <2>3. \A k \in 0..(n - 1) : k # pos => f[o[k]] = q[k]
    BY <1>7, <2>1
  <2>4. \A x \in Address : x \notin Range(o2) => f[x] = 0
    BY <1>8, <2>1
  <2> HIDE DEF f
  <2>5. \A k \in 0..(n - 2) : f[o2[k]] = q2[k]
    BY <1>1, <2>3
  <2>6. Gives(f, n - 1, o2, q2)
    BY <1>5, <2>2, <2>4, <2>5 DEF Gives
  <2>7. f = Masked(o2, q2)
    BY <1>3, <1>5, <1>6, <2>6, MaskedIs
  <2> QED BY <2>7 DEF f
<1> QED BY <1>6, <1>8, <1>9 DEF a, o2, q2, Put

(***************************************************************************)
(* Config actions: the bytes and the values agree.                         *)
(***************************************************************************)
\* What the header check leaves.
Sane(m) ==
    /\ m.owners_count \in 1..MAX_OWNER
    /\ m.voter_count \in 1..m.owners_count
    /\ m.threshold \in 1..m.voter_count
    /\ m.stale_transaction_index <= m.transaction_index

\* Every cell of a tail is a number.
LEMMA LaysCells ==
    ASSUME NEW t, NEW n, NEW o, NEW q, Lays(t, n, o, q)
    PROVE  t \in [0..(n * W + n - 1) -> Nat]
<1> DEFINE O == n * W
<1>1. /\ n \in Nat /\ o \in [0..(n - 1) -> Address] /\ q \in [0..(n - 1) -> Masks]
      /\ W \in Nat \ {0}
      /\ t = [i \in 0..(O + n - 1) |-> t[i]]
      /\ \A k \in 0..(n - 1) : t[O + k] = q[k]
  BY Layout DEF Lays
<1>2. O \in Nat
  BY <1>1
<1>3. ASSUME NEW i \in Nat, i < O PROVE t[i] \in Nat
  <2>1. PICK k \in Nat, j \in 0..(W - 1) : i = k * W + j
    <3>1. i \div W \in Nat /\ i % W \in 0..(W - 1) /\ i = (i \div W) * W + (i % W)
      BY <1>1, DivMod
    <3> QED BY <3>1
  <2>2. k < n
    <3> SUFFICES ASSUME n <= k PROVE FALSE
      BY <1>1
    <3>1. O <= k * W /\ k * W \in Nat
      BY <1>1, Rows
    <3> HIDE DEF O
    <3> QED BY <1>1, <1>2, <1>3, <2>1, <3>1
  <2>3. k \in 0..(n - 1) /\ j + 1 \in 1..W /\ k * W \in Nat
    BY <1>1, <2>2
  <2>4. k * W + (j + 1) - 1 = i
    BY <1>1, <2>1, <2>3
  <2>5. t[i] = Cells(o[k])[j + 1]
    BY <2>3, <2>4 DEF Lays
  <2>6. Cells(o[k]) \in [1..W -> Nat]
    BY <1>1, <2>3, CellsSpell
  <2> QED BY <2>3, <2>5, <2>6
<1> HIDE DEF O
<1>4. ASSUME NEW i \in O..(O + n - 1) PROVE t[i] \in Nat
  <2>1. i - O \in 0..(n - 1) /\ O + (i - O) = i
    BY <1>1, <1>2
  <2>2. t[i] = q[i - O]
    BY <1>1, <2>1
  <2>3. q[i - O] \in Masks
    BY <1>1, <2>1
  <2> QED BY <2>2, <2>3 DEF Masks, ALL
<1>5. ASSUME NEW i \in 0..(O + n - 1) PROVE t[i] \in Nat
  <2>1. (i \in Nat /\ i < O) \/ i \in O..(O + n - 1)
    BY <1>1, <1>2
  <2> QED BY <1>3, <1>4, <2>1
<1>6. t \in [0..(O + n - 1) -> Nat]
  BY <1>1, <1>5
<1> QED BY <1>6 DEF O

\* The header check on the bytes is the check on the values, and what it lets
\* pass still holds the same owners.
LEMMA CheckedAgrees ==
    ASSUME NEW m, NEW o, NEW q, Holds(m, o, q)
    PROVE  /\ Checked(m) = Err <=> Settled(ConfigOf(m)) = Err
           /\ Checked(m) # Err => /\ Holds(Checked(m), o, q)
                                  /\ Sane(Checked(m))
                                  /\ ConfigOf(Checked(m)) = Settled(ConfigOf(m))
<1> DEFINE n == m.owners_count
           c == ConfigOf(m)
           d == Invalidate(c)
           r == [m EXCEPT !.stale_transaction_index = m.transaction_index]
           Good == /\ n \in 1..MAX_OWNER
                   /\ m.voter_count \in 1..n
                   /\ m.threshold \in 1..m.voter_count
<1>1. /\ n \in Nat /\ m.voter_count \in Int /\ m.threshold \in Nat
      /\ m.transaction_index \in Nat /\ m.stale_transaction_index \in Nat
  BY DEF Holds, Header
<1>2. /\ o \in [0..(n - 1) -> Address] /\ q \in [0..(n - 1) -> Masks] /\ Ascends(o, n)
  BY DEF Holds, Lays
<1>3. /\ r.owners_count = n /\ r.voter_count = m.voter_count /\ r.threshold = m.threshold
      /\ r.transaction_index = m.transaction_index /\ r.tail = m.tail
      /\ r.stale_transaction_index = m.transaction_index
      /\ Header(r)
  BY DEF Holds, Header
<1> HIDE DEF r
<1>4. Holds(r, o, q)
  BY <1>3 DEF Holds
<1>5. c = [config_authority |-> DEFAULT, rent_collector |-> DEFAULT,
           transaction_index |-> m.transaction_index,
           stale_transaction_index |-> m.stale_transaction_index,
           closed_transaction_count |-> 0, time_lock |-> 0,
           owners |-> Range(o), permissions |-> Masked(o, q),
           voter_count |-> m.voter_count, threshold |-> m.threshold]
  BY ConfigReads
<1>6. ConfigOf(r) =
          [config_authority |-> DEFAULT, rent_collector |-> DEFAULT,
           transaction_index |-> m.transaction_index,
           stale_transaction_index |-> m.transaction_index,
           closed_transaction_count |-> 0, time_lock |-> 0,
           owners |-> Range(o), permissions |-> Masked(o, q),
           voter_count |-> m.voter_count, threshold |-> m.threshold]
  BY <1>3, <1>4, ConfigReads
<1> HIDE DEF c
<1>7. d = ConfigOf(r)
  BY <1>5, <1>6 DEF Invalidate
<1>8. Cardinality(Range(o)) = n /\ Range(o) \in SUBSET Address
  BY <1>1, <1>2, PositionAt
<1> HIDE DEF d
<1>9. MultisigInvariant(d) <=> Good
  <2>1. /\ OwnersCount(d) = n /\ d.voter_count = m.voter_count /\ d.threshold = m.threshold
        /\ d.stale_transaction_index = m.transaction_index
        /\ d.transaction_index = m.transaction_index
        /\ d.closed_transaction_count = 0 /\ d.time_lock = 0
    BY <1>6, <1>7, <1>8 DEF OwnersCount
  <2>2. 0 <= MAX_TIME_LOCK /\ 0 <= m.transaction_index /\ m.transaction_index <= m.transaction_index
    BY <1>1, OwnerLimitAssumption
  <2> QED BY <2>1, <2>2 DEF MultisigInvariant
<1>10. Good => d \in Config
  <2> SUFFICES ASSUME Good PROVE d \in Config
    OBVIOUS
  <2>1. m.voter_count \in Nat
    BY <1>1
  <2>2. Masked(o, q) \in [Address -> Masks] /\ DEFAULT \in Address
    BY <1>1, <1>2, MaskedReads, AddressAssumption
  <2> QED BY <1>1, <1>6, <1>7, <1>8, <2>1, <2>2 DEF Config
<1>11. Good => r \in Account(n) /\ n \in 1..MAX_OWNER
  <2> SUFFICES ASSUME Good PROVE r \in Account(n)
    OBVIOUS
  <2>1. m.voter_count \in Nat
    BY <1>1
  <2>2. r.tail \in [0..(n * W + n - 1) -> Nat]
    BY <1>3, LaysCells DEF Holds
  <2>3. n * W + n - 1 = Space(n) - 1
    <3>1. n * W \in Nat /\ Space(n) = n * W + n
      BY <1>1, Layout, Rows DEF Space
    <3> QED BY <1>1, <3>1
  <2> HIDE DEF n
  <2>4. r.tail \in [0..(Space(n) - 1) -> Nat]
    BY <2>2, <2>3
  <2> QED BY <1>1, <1>3, <2>1, <2>4 DEF Account, Header
<1>12. Checked(m) = (IF Good THEN r ELSE Err) /\ Settled(c) = (IF Good THEN d ELSE Err)
  <2>1. Checked(m) = IF Good THEN r ELSE Err
    BY DEF Checked, r
  <2>2. Settled(c) = IF Good THEN d ELSE Err
    <3> HIDE DEF Good
    <3> QED BY <1>9 DEF Settled, d
  <2> QED BY <2>1, <2>2
<1>13. Good => Sane(r)
  BY <1>1, <1>3 DEF Sane
<1> HIDE DEF Good, n
<1>14. Good => r # Err /\ d # Err
  BY <1>10, <1>11, ErrAssumption
<1> QED BY <1>4, <1>7, <1>12, <1>13, <1>14 DEF c

\* The bytes r hold the configuration d, or both are the refusal.
Agree(r, d) ==
    /\ r = Err <=> d = Err
    /\ r # Err => \E o, q : Holds(r, o, q) /\ Sane(r) /\ ConfigOf(r) = d

\* So a handler agrees with its value once the account it checks does.
LEMMA Checks ==
    ASSUME NEW m, NEW o, NEW q, Holds(m, o, q), NEW c, ConfigOf(m) = c
    PROVE  Agree(Checked(m), Settled(c))
BY CheckedAgrees DEF Agree

\* What the handlers read of an account.
LEMMA HoldsReads ==
    ASSUME NEW m, NEW o, NEW q, Holds(m, o, q)
    PROVE  LET n == m.owners_count
               c == ConfigOf(m)
           IN  /\ n \in Nat /\ o \in [0..(n - 1) -> Address] /\ q \in [0..(n - 1) -> Masks]
               /\ Ascends(o, n)
               /\ Loads(m) /\ Owners(m) = o
               /\ \A k \in 0..(n - 1) : PermissionAt(m, k) = q[k]
               /\ c.owners = Range(o) /\ c.permissions = Masked(o, q)
               /\ OwnersCount(c) = n
               /\ c.voter_count = m.voter_count
               /\ c.threshold = m.threshold
               /\ c.transaction_index = m.transaction_index
               /\ c.stale_transaction_index = m.stale_transaction_index
<1> DEFINE n == m.owners_count
           c == ConfigOf(m)
<1>1. /\ n \in Nat /\ o \in [0..(n - 1) -> Address] /\ q \in [0..(n - 1) -> Masks]
      /\ Ascends(o, n) /\ Lays(m.tail, n, o, q)
  BY DEF Holds, Lays
<1>2. /\ Loads(m) /\ Owners(m) = o
      /\ \A k \in 0..(n - 1) : PermissionAt(m, k) = q[k]
  BY <1>1, LaysReads
<1>3. c = [config_authority |-> DEFAULT, rent_collector |-> DEFAULT,
           transaction_index |-> m.transaction_index,
           stale_transaction_index |-> m.stale_transaction_index,
           closed_transaction_count |-> 0, time_lock |-> 0,
           owners |-> Range(o), permissions |-> Masked(o, q),
           voter_count |-> m.voter_count, threshold |-> m.threshold]
  BY ConfigReads
<1> HIDE DEF c
<1>4. Cardinality(Range(o)) = n
  BY <1>1, PositionAt
<1> HIDE DEF n
<1>5. c.owners = Range(o) /\ c.permissions = Masked(o, q) /\ c.voter_count = m.voter_count
      /\ c.threshold = m.threshold /\ c.transaction_index = m.transaction_index
      /\ c.stale_transaction_index = m.stale_transaction_index
  BY <1>3
<1>6. OwnersCount(c) = n
  BY <1>4, <1>5 DEF OwnersCount
<1> QED BY <1>1, <1>2, <1>5, <1>6 DEF n, c

\* The search reaches an owner where its permission is.
LEMMA HoldsFinds ==
    ASSUME NEW m, NEW o, NEW q, Holds(m, o, q), NEW a \in Address
    PROVE  LET n == m.owners_count
               p == Position(Range(o), a)
           IN  /\ IsOwner(m, a) = [found |-> a \in Range(o), index |-> p]
               /\ IsOwner(m, a).found <=> a \in Range(o)
               /\ IsOwner(m, a).index = p
               /\ p \in 0..n
               /\ a \in Range(o) => /\ p \in 0..(n - 1)
                                    /\ o[p] = a
                                    /\ PermissionAt(m, p) = Masked(o, q)[a]
                                    /\ PermissionAt(m, p) = q[p]
<1> DEFINE n == m.owners_count
           p == Position(Range(o), a)
           at == IsOwner(m, a)
<1>1. /\ n \in Nat /\ o \in [0..(n - 1) -> Address] /\ q \in [0..(n - 1) -> Masks]
      /\ Ascends(o, n)
      /\ Owners(m) = o
      /\ \A k \in 0..(n - 1) : PermissionAt(m, k) = q[k]
  BY HoldsReads
<1>2. at = BinarySearch(o, n, a)
  BY <1>1 DEF IsOwner
<1> HIDE DEF n
<1>3. /\ p \in 0..n
      /\ a \in Range(o) <=> p < n /\ o[p] = a
      /\ BinarySearch(o, n, a) = [found |-> a \in Range(o), index |-> p]
  BY <1>1, SearchFinds
<1> HIDE DEF p, at
<1>4. at.index = p /\ (at.found <=> a \in Range(o))
  <2> DEFINE In == a \in Range(o)
             r == [found |-> In, index |-> p]
  <2>1. at = r
    BY <1>2, <1>3
  <2> HIDE DEF In
  <2>2. r.index = p
    OBVIOUS
  <2>3. r.found = In
    BY Zenon
  <2> HIDE DEF r
  <2>4. r.found <=> In
    <3>1. In \in BOOLEAN
      BY DEF In
    <3> QED BY <2>3, <3>1, Zenon
  <2> QED BY <2>1, <2>2, <2>4 DEF In
<1>5. a \in Range(o) => p \in 0..(n - 1) /\ o[p] = a
  BY <1>1, <1>3
<1>6. \A k \in 0..(n - 1) : Masked(o, q)[o[k]] = q[k]
  BY <1>1, MaskedReads
<1>7. a \in Range(o) => PermissionAt(m, p) = q[p] /\ PermissionAt(m, p) = Masked(o, q)[a]
  BY <1>1, <1>5, <1>6
<1> QED BY <1>2, <1>3, <1>4, <1>5, <1>7 DEF n, p, at

\* The configuration with these fields, the others as every account here has
\* them.
Valued(index, stale, owners, permissions, voters, threshold) ==
    [config_authority |-> DEFAULT, rent_collector |-> DEFAULT,
     transaction_index |-> index, stale_transaction_index |-> stale,
     closed_transaction_count |-> 0, time_lock |-> 0,
     owners |-> owners, permissions |-> permissions,
     voter_count |-> voters, threshold |-> threshold]

\* The value of an account that holds o and q.
LEMMA HoldsValued ==
    ASSUME NEW m, NEW o, NEW q, Holds(m, o, q)
    PROVE  ConfigOf(m) = Valued(m.transaction_index, m.stale_transaction_index,
                                Range(o), Masked(o, q), m.voter_count, m.threshold)
BY ConfigReads DEF Valued

PutMask(c, a, mask, v) == [c EXCEPT !.permissions[a] = mask, !.voter_count = v]
PutOwners(c, w, a, v) == [c EXCEPT !.owners = w, !.permissions[a] = 0, !.voter_count = v]

\* Setting a mask and the voters, field by field.
LEMMA ValuedMask ==
    ASSUME NEW i, NEW s, NEW w, NEW p, NEW v, NEW h, NEW v2, NEW a, NEW mask
    PROVE  PutMask(Valued(i, s, w, p, v, h), a, mask, v2)
           = Valued(i, s, w, Put(p, a, mask), v2, h)
<1> DEFINE c == Valued(i, s, w, p, v, h)
           p2 == [p EXCEPT ![a] = mask]
<1>1. c.permissions = p
  BY DEF Valued
<1> HIDE DEF c
<1>2. PutMask(c, a, mask, v2) = [[c EXCEPT !.permissions = p2] EXCEPT !.voter_count = v2]
  BY <1>1 DEF PutMask
<1> HIDE DEF p2
<1>3. [c EXCEPT !.permissions = p2] = Valued(i, s, w, p2, v, h)
  BY DEF Valued, c
<1>4. [Valued(i, s, w, p2, v, h) EXCEPT !.voter_count = v2] = Valued(i, s, w, p2, v2, h)
  BY DEF Valued
<1> QED BY <1>2, <1>3, <1>4 DEF p2, c, Put

\* Setting the owners, one mask and the voters, field by field.
LEMMA ValuedOwners ==
    ASSUME NEW i, NEW s, NEW w, NEW p, NEW v, NEW h, NEW w2, NEW v2, NEW a
    PROVE  PutOwners(Valued(i, s, w, p, v, h), w2, a, v2)
           = Valued(i, s, w2, Put(p, a, 0), v2, h)
<1> DEFINE c == Valued(i, s, w, p, v, h)
           b == [c EXCEPT !.owners = w2]
<1>1. b = Valued(i, s, w2, p, v, h)
  BY DEF Valued
<1> HIDE DEF c
<1>2. PutOwners(c, w2, a, v2) = PutMask(b, a, 0, v2)
  BY DEF PutOwners, PutMask
<1> HIDE DEF b
<1> QED BY <1>1, <1>2, ValuedMask DEF c

\* add_owner: the neighbour check it ends with never refuses.
LEMMA AddAgrees ==
    ASSUME NEW m, NEW o, NEW q, Holds(m, o, q), NEW a \in Address
    PROVE  Agree(AddOwnerBytes(m, a), AddOwner(ConfigOf(m), a))
<1> DEFINE n == m.owners_count
           v == m.voter_count
           c == ConfigOf(m)
           pos == Position(Range(o), a)
           o2 == Insert(o, n, pos, a)
           q2 == Insert(q, n, pos, 0)
           tail == Grown(m.tail, n, pos, a)
           g == [m EXCEPT !.tail = tail, !.owners_count = n + 1, !.voter_count = v + 1]
           d == PutOwners(c, Range(o) \cup {a}, a, v + 1)
<1>1. /\ n \in Nat /\ o \in [0..(n - 1) -> Address] /\ q \in [0..(n - 1) -> Masks]
      /\ Ascends(o, n)
      /\ c.owners = Range(o) /\ OwnersCount(c) = n /\ c.voter_count = v
  BY HoldsReads
<1>2. (IsOwner(m, a).found <=> a \in Range(o)) /\ IsOwner(m, a).index = pos
  BY HoldsFinds
<1>3. AddOwnerBytes(m, a) =
          IF a \in Range(o) \/ n >= MAX_OWNER \/ ~InOrder(Owners(g), n + 1, pos)
          THEN Err ELSE Checked(g)
  BY <1>2 DEF AddOwnerBytes, Grown
<1>4. AddOwner(c, a) = IF a \in Range(o) \/ n >= MAX_OWNER THEN Err ELSE Settled(d)
  BY <1>1 DEF AddOwner, PutOwners
<1>5. ASSUME a \notin Range(o)
      PROVE  InOrder(Owners(g), n + 1, pos) /\ Agree(Checked(g), Settled(d))
  <2>1. Lays(m.tail, n, o, q) /\ Header(m) /\ v \in Int
    BY DEF Holds, Header
  <2>2. /\ g.tail = tail /\ g.owners_count = n + 1
        /\ g.voter_count = v + 1 /\ g.threshold = m.threshold
        /\ g.transaction_index = m.transaction_index
        /\ g.stale_transaction_index = m.stale_transaction_index
        /\ Header(g)
    <3> DEFINE n2 == n + 1
               v2 == v + 1
    <3>1. n2 \in Nat /\ v2 \in Int
      BY <1>1, <2>1
    <3> HIDE DEF tail, n2, v2
    <3>2. g = [m EXCEPT !.tail = tail, !.owners_count = n2, !.voter_count = v2]
      BY DEF n2, v2
    <3>3. /\ g.tail = tail /\ g.owners_count = n2
          /\ g.voter_count = v2 /\ g.threshold = m.threshold
          /\ g.transaction_index = m.transaction_index
          /\ g.stale_transaction_index = m.stale_transaction_index
          /\ Header(g)
      BY <2>1, <3>1, <3>2 DEF Header
    <3> QED BY <3>3 DEF n2, v2
  <2> HIDE DEF n, v, g, d, tail, c
  <2>3. /\ pos \in 0..n /\ Ascends(o2, n + 1) /\ InOrder(o2, n + 1, pos)
        /\ Range(o2) = Range(o) \cup {a}
        /\ Masked(o2, q2) = Put(Masked(o, q), a, 0)
    BY <1>1, <1>5, Inserted
  <2> HIDE DEF pos
  <2>4. Lays(tail, n + 1, o2, q2)
    BY <2>1, <2>3, GrownLays DEF tail
  <2> HIDE DEF o2, q2
  <2>5. Holds(g, o2, q2)
    BY <2>2, <2>3, <2>4 DEF Holds
  <2>6. Owners(g) = o2
    BY <2>5, HoldsReads
  <2>7. ConfigOf(g) = Valued(m.transaction_index, m.stale_transaction_index,
                             Range(o) \cup {a}, Put(Masked(o, q), a, 0), v + 1, m.threshold)
    BY <2>2, <2>3, <2>5, HoldsValued
  <2>8. c = Valued(m.transaction_index, m.stale_transaction_index,
                   Range(o), Masked(o, q), v, m.threshold)
    BY HoldsValued DEF c, v
  <2>9. ConfigOf(g) = d
    BY <2>7, <2>8, ValuedOwners DEF d
  <2> QED BY <2>3, <2>5, <2>6, <2>9, Checks
<1> HIDE DEF g, d, n, pos
<1>6. CASE a \in Range(o) \/ n >= MAX_OWNER
  BY <1>3, <1>4, <1>6 DEF Agree
<1>7. CASE ~(a \in Range(o) \/ n >= MAX_OWNER)
  BY <1>3, <1>4, <1>5, <1>7
<1> QED BY <1>6, <1>7

\* remove_owner: the permission is read before its cell is gone.
LEMMA RemoveAgrees ==
    ASSUME NEW m, NEW o, NEW q, Holds(m, o, q), NEW a \in Address
    PROVE  Agree(RemoveOwnerBytes(m, a), RemoveOwner(ConfigOf(m), a))
<1> DEFINE n == m.owners_count
           v == m.voter_count
           c == ConfigOf(m)
           pos == Position(Range(o), a)
           o2 == Delete(o, n, pos)
           q2 == Delete(q, n, pos)
           tail == Shrunk(m.tail, n, pos)
           v2 == IF MaskCanVote(PermissionAt(m, pos)) THEN v - 1 ELSE v
           v3 == IF MaskCanVote(c.permissions[a]) THEN v - 1 ELSE v
           g == [m EXCEPT !.tail = tail, !.owners_count = n - 1, !.voter_count = v2]
           d == PutOwners(c, Range(o) \ {a}, a, v3)
<1>1. /\ n \in Nat /\ o \in [0..(n - 1) -> Address] /\ q \in [0..(n - 1) -> Masks]
      /\ Ascends(o, n)
      /\ c.owners = Range(o) /\ c.permissions = Masked(o, q) /\ c.voter_count = v
  BY HoldsReads
<1>2. (IsOwner(m, a).found <=> a \in Range(o)) /\ IsOwner(m, a).index = pos
  BY HoldsFinds
<1>3. RemoveOwnerBytes(m, a) = IF a \notin Range(o) THEN Err ELSE Checked(g)
  BY <1>2 DEF RemoveOwnerBytes, Shrunk
<1>4. RemoveOwner(c, a) = IF a \notin Range(o) THEN Err ELSE Settled(d)
  BY <1>1 DEF RemoveOwner, PutOwners
<1>5. ASSUME a \in Range(o) PROVE Agree(Checked(g), Settled(d))
  <2>1. pos \in 0..(n - 1) /\ o[pos] = a /\ PermissionAt(m, pos) = Masked(o, q)[a]
    BY <1>5, HoldsFinds
  <2>2. Lays(m.tail, n, o, q) /\ Header(m) /\ v \in Int
    BY DEF Holds, Header
  <2>3. v2 = v3
    BY <1>1, <2>1
  <2>4. v2 \in Int /\ n - 1 \in Nat
    BY <1>1, <2>1, <2>2
  <2>5. /\ g.tail = tail /\ g.owners_count = n - 1 /\ g.voter_count = v2
        /\ g.threshold = m.threshold
        /\ g.transaction_index = m.transaction_index
        /\ g.stale_transaction_index = m.stale_transaction_index
        /\ Header(g)
    <3> HIDE DEF v2, tail
    <3> QED BY <2>2, <2>4 DEF Header
  <2> HIDE DEF n, v, g, d, tail, c, v2, v3, pos
  <2>6. /\ Ascends(o2, n - 1)
        /\ Range(o2) = Range(o) \ {o[pos]}
        /\ Masked(o2, q2) = Put(Masked(o, q), o[pos], 0)
    BY <1>1, <2>1, Deleted
  <2>7. Lays(tail, n - 1, o2, q2)
    BY <2>1, <2>2, ShrunkLays DEF tail
  <2> HIDE DEF o2, q2
  <2>8. Holds(g, o2, q2)
    BY <2>5, <2>6, <2>7 DEF Holds
  <2>9. ConfigOf(g) = Valued(m.transaction_index, m.stale_transaction_index,
                             Range(o) \ {a}, Put(Masked(o, q), a, 0), v2, m.threshold)
    BY <2>1, <2>5, <2>6, <2>8, HoldsValued
  <2>10. c = Valued(m.transaction_index, m.stale_transaction_index,
                    Range(o), Masked(o, q), v, m.threshold)
    BY HoldsValued DEF c, v
  <2>11. ConfigOf(g) = d
    BY <2>3, <2>9, <2>10, ValuedOwners DEF d
  <2> QED BY <2>8, <2>11, Checks
<1> HIDE DEF g, d
<1>6. CASE a \notin Range(o)
  BY <1>3, <1>4, <1>6 DEF Agree
<1>7. CASE a \in Range(o)
  BY <1>3, <1>4, <1>5, <1>7
<1> QED BY <1>6, <1>7

\* Writing one permission cell changes that owner's mask.
LEMMA Remasked ==
    ASSUME NEW t, NEW n, NEW o, NEW q, Lays(t, n, o, q), Ascends(o, n),
           NEW pos \in 0..(n - 1), NEW mask \in Masks
    PROVE  LET q2 == Put(q, pos, mask)
           IN  /\ Lays(Put(t, n * W + pos, mask), n, o, q2)
               /\ Masked(o, q2) = Put(Masked(o, q), o[pos], mask)
<1> DEFINE O == n * W
           q2 == Put(q, pos, mask)
           u == Put(t, O + pos, mask)
<1>1. /\ n \in Nat /\ o \in [0..(n - 1) -> Address] /\ q \in [0..(n - 1) -> Masks]
      /\ W \in Nat \ {0}
      /\ t = [i \in 0..(O + n - 1) |-> t[i]]
      /\ \A k \in 0..(n - 1), j \in 1..W : t[k * W + j - 1] = Cells(o[k])[j]
      /\ \A k \in 0..(n - 1) : t[O + k] = q[k]
  BY Layout DEF Lays
<1>2. /\ q2 \in [0..(n - 1) -> Masks] /\ q2[pos] = mask
      /\ \A k \in 0..(n - 1) : k # pos => q2[k] = q[k]
  BY <1>1 DEF Put
<1>3. O \in Nat
  BY <1>1
<1>4. ASSUME NEW k \in 0..(n - 1), NEW j \in 1..W
      PROVE  k * W + j - 1 \in 0..(O - 1)
  <2> HIDE DEF q2, u
  <2>1. k \in Nat /\ k < n
    BY <1>1
  <2>2. k * W + W <= O /\ k * W \in Nat
    BY <1>1, <2>1, Rows
  <2> HIDE DEF O
  <2> QED BY <1>1, <1>3, <2>2
<1> HIDE DEF O, q2
<1>5. t \in [0..(O + n - 1) -> Nat] /\ O + pos \in 0..(O + n - 1) /\ mask \in Nat
  <2>1. t \in [0..(O + n - 1) -> Nat]
    BY LaysCells DEF O
  <2> QED BY <1>1, <1>3, <2>1 DEF Masks, ALL
<1>6. /\ u = [i \in 0..(O + n - 1) |-> u[i]]
      /\ u[O + pos] = mask
      /\ \A i \in 0..(O + n - 1) : i # O + pos => u[i] = t[i]
  BY <1>5 DEF Put
<1> HIDE DEF u
<1>7. ASSUME NEW k \in 0..(n - 1), NEW j \in 1..W
      PROVE  u[k * W + j - 1] = Cells(o[k])[j]
  <2> DEFINE i == k * W + j - 1
  <2>1. i \in 0..(O - 1) /\ t[i] = Cells(o[k])[j]
    BY <1>1, <1>4
  <2> HIDE DEF i
  <2>2. i \in 0..(O + n - 1) /\ i # O + pos
    BY <1>1, <1>3, <2>1
  <2>3. u[i] = t[i]
    BY <1>6, <2>2
  <2> QED BY <2>1, <2>3 DEF i
<1>8. ASSUME NEW k \in 0..(n - 1) PROVE u[O + k] = q2[k]
  <2>1. CASE k = pos
    BY <1>2, <1>6, <2>1
  <2>2. CASE k # pos
    <3>1. O + k \in 0..(O + n - 1) /\ O + k # O + pos
      BY <1>1, <1>3, <2>2
    <3> QED BY <1>1, <1>2, <1>6, <2>2, <3>1
  <2> QED BY <2>1, <2>2
<1>9. Lays(u, n, o, q2)
  BY <1>1, <1>2, <1>6, <1>7, <1>8 DEF Lays, O
<1>10. Masked(o, q2) = Put(Masked(o, q), o[pos], mask)
  <2> DEFINE f == Put(Masked(o, q), o[pos], mask)
  <2>1. /\ Masked(o, q) \in [Address -> Masks]
        /\ \A k \in 0..(n - 1) : Masked(o, q)[o[k]] = q[k]
        /\ \A a \in Address : a \notin Range(o) => Masked(o, q)[a] = 0
    BY <1>1, MaskedReads
  <2>2. o[pos] \in Address /\ o[pos] \in Range(o)
    BY <1>1 DEF Range
  <2>3. /\ f = [a \in Address |-> f[a]]
        /\ f[o[pos]] = mask
        /\ \A a \in Address : a # o[pos] => f[a] = Masked(o, q)[a]
    BY <2>1, <2>2 DEF Put
  <2> HIDE DEF f
  <2>4. ASSUME NEW k \in 0..(n - 1) PROVE f[o[k]] = q2[k]
    <3>1. CASE k = pos
      BY <1>2, <2>3, <3>1
    <3>2. CASE k # pos
      <4>1. o[k] # o[pos] /\ o[k] \in Address
        BY <1>1, <3>2, PositionAt
      <4> QED BY <1>2, <2>1, <2>3, <3>2, <4>1
    <3> QED BY <3>1, <3>2
  <2>5. \A a \in Address : a \notin Range(o) => f[a] = 0
    BY <2>1, <2>2, <2>3
  <2>6. Gives(f, n, o, q2)
    BY <2>3, <2>4, <2>5 DEF Gives
  <2>7. f = Masked(o, q2)
    BY <1>1, <1>2, <2>6, MaskedIs
  <2> QED BY <2>7 DEF f
<1> QED BY <1>9, <1>10 DEF O, q2, u

\* set_permission: the mask is of the owner found, and the voters follow.
LEMMA MaskAgrees ==
    ASSUME NEW m, NEW o, NEW q, Holds(m, o, q), NEW a \in Address, NEW mask \in Nat
    PROVE  Agree(SetPermissionBytes(m, a, mask), SetPermission(ConfigOf(m), a, mask))
<1> DEFINE n == m.owners_count
           v == m.voter_count
           c == ConfigOf(m)
           pos == Position(Range(o), a)
           q2 == Put(q, pos, mask)
           tail == Put(m.tail, n * W + pos, mask)
           was == MaskCanVote(PermissionAt(m, pos))
           was2 == MaskCanVote(c.permissions[a])
           is == MaskCanVote(mask)
           New(w) == CASE is /\ ~w -> v + 1 [] w /\ ~is -> v - 1 [] OTHER -> v
           g == [m EXCEPT !.tail = tail, !.voter_count = New(was)]
           d == PutMask(c, a, mask, New(was2))
<1>1. /\ n \in Nat /\ o \in [0..(n - 1) -> Address] /\ q \in [0..(n - 1) -> Masks]
      /\ Ascends(o, n)
      /\ c.owners = Range(o) /\ c.permissions = Masked(o, q) /\ c.voter_count = v
  BY HoldsReads
<1>2. (IsOwner(m, a).found <=> a \in Range(o)) /\ IsOwner(m, a).index = pos
  BY HoldsFinds
<1>3. SetPermissionBytes(m, a, mask) =
          IF mask > ALL \/ a \notin Range(o) THEN Err ELSE Checked(g)
  BY <1>2 DEF SetPermissionBytes, Put
<1>4. SetPermission(c, a, mask) = IF mask > ALL \/ a \notin Range(o) THEN Err ELSE Settled(d)
  BY <1>1 DEF SetPermission, PutMask
<1>5. ASSUME a \in Range(o), ~(mask > ALL) PROVE Agree(Checked(g), Settled(d))
  <2>1. pos \in 0..(n - 1) /\ o[pos] = a /\ PermissionAt(m, pos) = Masked(o, q)[a]
    BY <1>5, HoldsFinds
  <2>2. Lays(m.tail, n, o, q) /\ Header(m) /\ v \in Int /\ mask \in Masks
    BY <1>5 DEF Holds, Header, Masks, ALL
  <2> DEFINE v2 == New(was)
  <2>3. v2 = New(was2)
    BY <1>1, <2>1
  <2>4. v2 \in Int
    BY <2>2
  <2> HIDE DEF v2, tail
  <2>5. /\ g.tail = tail /\ g.owners_count = n /\ g.voter_count = v2
        /\ g.threshold = m.threshold
        /\ g.transaction_index = m.transaction_index
        /\ g.stale_transaction_index = m.stale_transaction_index
        /\ Header(g)
    BY <2>2, <2>4 DEF Header, v2
  <2> HIDE DEF n, v, g, d, c, pos, New, was, was2
  <2>6. /\ Lays(Put(m.tail, n * W + pos, mask), n, o, q2)
        /\ Masked(o, q2) = Put(Masked(o, q), o[pos], mask)
    BY <1>1, <2>1, <2>2, Remasked
  <2> HIDE DEF q2
  <2>7. Holds(g, o, q2)
    BY <1>1, <2>5, <2>6 DEF Holds, tail
  <2>8. ConfigOf(g) = Valued(m.transaction_index, m.stale_transaction_index,
                             Range(o), Put(Masked(o, q), a, mask), v2, m.threshold)
    BY <2>1, <2>5, <2>6, <2>7, HoldsValued
  <2>9. c = Valued(m.transaction_index, m.stale_transaction_index,
                   Range(o), Masked(o, q), v, m.threshold)
    BY HoldsValued DEF c, v
  <2>10. ConfigOf(g) = d
    BY <2>3, <2>8, <2>9, ValuedMask DEF d
  <2> QED BY <2>7, <2>10, Checks
<1> HIDE DEF g, d
<1>6. CASE mask > ALL \/ a \notin Range(o)
  BY <1>3, <1>4, <1>6 DEF Agree
<1>7. CASE ~(mask > ALL \/ a \notin Range(o))
  BY <1>3, <1>4, <1>5, <1>7
<1> QED BY <1>6, <1>7

\* change_threshold touches no cell.
LEMMA ThresholdAgrees ==
    ASSUME NEW m, NEW o, NEW q, Holds(m, o, q), NEW x \in Nat
    PROVE  Agree(Checked([m EXCEPT !.threshold = x]),
                 Settled([ConfigOf(m) EXCEPT !.threshold = x]))
<1> DEFINE g == [m EXCEPT !.threshold = x]
           c == ConfigOf(m)
           d == [c EXCEPT !.threshold = x]
<1>1. /\ g.tail = m.tail /\ g.owners_count = m.owners_count /\ g.voter_count = m.voter_count
      /\ g.threshold = x
      /\ g.transaction_index = m.transaction_index
      /\ g.stale_transaction_index = m.stale_transaction_index
      /\ Header(g)
  BY DEF Holds, Header
<1> HIDE DEF g
<1>2. Holds(g, o, q)
  BY <1>1 DEF Holds
<1>3. ConfigOf(g) = Valued(m.transaction_index, m.stale_transaction_index,
                           Range(o), Masked(o, q), m.voter_count, x)
  BY <1>1, <1>2, HoldsValued
<1>4. c = Valued(m.transaction_index, m.stale_transaction_index,
                 Range(o), Masked(o, q), m.voter_count, m.threshold)
  BY HoldsValued
<1> HIDE DEF c
<1>5. ConfigOf(g) = d
  BY <1>3, <1>4 DEF Valued
<1> HIDE DEF d
<1>6. Agree(Checked(g), Settled(d))
  BY <1>2, <1>5, Checks
<1> QED BY <1>6 DEF g, d, c

\* Every action modelled here does to the bytes what it does to the values.
LEMMA ActionAgrees ==
    ASSUME NEW m, NEW o, NEW q, Holds(m, o, q), NEW i \in Actions
    PROVE  Agree(ApplyBytes(m, i), ApplyConfigAction(ConfigOf(m), i))
<1>1. i \in [tag: {"AddOwner", "RemoveOwner", "SetPermission", "ChangeThreshold"},
             address: Address, value: Nat]
  BY PayloadAssumption
<1>2. Loads(m)
  BY HoldsReads
<1>3. i.address \in Address /\ i.value \in Nat
      /\ i.tag \in {"AddOwner", "RemoveOwner", "SetPermission", "ChangeThreshold"}
  BY <1>1
<1>4. CASE i.tag = "AddOwner"
  <2>1. /\ ApplyBytes(m, i) = AddOwnerBytes(m, i.address)
        /\ ApplyConfigAction(ConfigOf(m), i) = AddOwner(ConfigOf(m), i.address)
    BY <1>2, <1>4 DEF ApplyBytes, ApplyConfigAction
  <2> QED BY <1>3, <2>1, AddAgrees
<1>5. CASE i.tag = "RemoveOwner"
  <2>1. /\ ApplyBytes(m, i) = RemoveOwnerBytes(m, i.address)
        /\ ApplyConfigAction(ConfigOf(m), i) = RemoveOwner(ConfigOf(m), i.address)
    BY <1>2, <1>5 DEF ApplyBytes, ApplyConfigAction
  <2> QED BY <1>3, <2>1, RemoveAgrees
<1>6. CASE i.tag = "SetPermission"
  <2>1. /\ ApplyBytes(m, i) = SetPermissionBytes(m, i.address, i.value)
        /\ ApplyConfigAction(ConfigOf(m), i) = SetPermission(ConfigOf(m), i.address, i.value)
    BY <1>2, <1>6 DEF ApplyBytes, ApplyConfigAction
  <2> QED BY <1>3, <2>1, MaskAgrees
<1>7. CASE i.tag = "ChangeThreshold"
  <2>1. /\ ApplyBytes(m, i) = Checked([m EXCEPT !.threshold = i.value])
        /\ ApplyConfigAction(ConfigOf(m), i) = Settled([ConfigOf(m) EXCEPT !.threshold = i.value])
    BY <1>2, <1>7 DEF ApplyBytes, ApplyConfigAction
  <2>2. Agree(Checked([m EXCEPT !.threshold = i.value]),
              Settled([ConfigOf(m) EXCEPT !.threshold = i.value]))
    BY <1>3, ThresholdAgrees
  <2> QED BY <2>1, <2>2
<1> QED BY <1>3, <1>4, <1>5, <1>6, <1>7

(***************************************************************************)
(* The account, whatever is done to it.                                    *)
(***************************************************************************)
LEMMA DivRow ==
    ASSUME NEW w \in Nat \ {0}, NEW k \in Nat, NEW r \in 0..(w - 1)
    PROVE  (k * w + r) \div w = k /\ (k * w + r) % w = r
<1> DEFINE i == k * w + r
           d == i \div w
           e == i % w
<1>1. i \in Nat /\ k * w \in Nat
  OBVIOUS
<1> HIDE DEF i
<1>2. d \in Nat /\ e \in 0..(w - 1) /\ i = d * w + e
  BY <1>1, DivMod
<1> HIDE DEF d, e
<1>3. d * w \in Nat /\ k * w \in Nat
  BY <1>2
<1>4. d = k
  <2>1. CASE d < k
    <3>1. d * w + w <= k * w
      BY <1>2, <2>1, Rows
    <3> QED BY <1>2, <1>3, <3>1 DEF i
  <2>2. CASE k < d
    <3>1. k * w + w <= d * w
      BY <1>2, <2>2, Rows
    <3> QED BY <1>2, <1>3, <3>1 DEF i
  <2> QED BY <1>2, <2>1, <2>2
<1>5. e = r
  BY <1>2, <1>3, <1>4 DEF i
<1> QED BY <1>4, <1>5 DEF i, d, e

\* What init_multisig writes is laid out for the owners it was given.
LEMMA NewHolds ==
    ASSUME NEW g \in Genesis
    PROVE  LET n == Len(g.owners)
               o == [k \in 0..(n - 1) |-> g.owners[k + 1]]
               q == [k \in 0..(n - 1) |-> 0]
           IN  Holds(NewAccount(g), o, q) /\ Sane(NewAccount(g))
<1> DEFINE n == Len(g.owners)
           s == g.owners
           o == [k \in 0..(n - 1) |-> s[k + 1]]
           q == [k \in 0..(n - 1) |-> 0]
           m == NewAccount(g)
           O == n * W
           t == m.tail
<1>1. /\ s \in Seq(Address) /\ n \in 1..MAX_OWNER /\ g.threshold \in 1..n
      /\ \A i \in 2..Len(s) : s[i - 1] < s[i]
      /\ W \in Nat \ {0} /\ MAX_OWNER \in Nat
  BY PayloadAssumption, Layout
<1>2. \A i, j \in 1..Len(s) : i < j => s[i] < s[j]
  BY <1>1, Ascending
<1>3. n \in Nat /\ o \in [0..(n - 1) -> Address] /\ q \in [0..(n - 1) -> Masks]
  <2>1. 0 \in Masks /\ n \in Nat /\ \A k \in 0..(n - 1) : k + 1 \in 1..Len(s)
    BY <1>1 DEF Masks, ALL
  <2>2. \A k \in 1..Len(s) : s[k] \in Address
    BY <1>1
  <2> QED BY <2>1, <2>2
<1>4. Ascends(o, n)
  <2> SUFFICES ASSUME NEW i \in 0..(n - 1), NEW j \in 0..(n - 1), i < j
               PROVE  o[i] < o[j]
    BY DEF Ascends
  <2>1. i + 1 \in 1..Len(s) /\ j + 1 \in 1..Len(s) /\ i + 1 < j + 1
    BY <1>3
  <2> QED BY <1>2, <2>1
<1>5. O \in Nat /\ Space(n) = O + n
  <2>1. n * W \in Nat /\ n * (W + 1) = n * W + n
    BY <1>1, <1>3, Rows
  <2> QED BY <2>1 DEF Space
<1>6. /\ m.owners_count = n /\ m.voter_count = n /\ m.threshold = g.threshold
      /\ m.transaction_index = 1 /\ m.stale_transaction_index = 0
      /\ t = [k \in 0..(Space(n) - 1) |->
                IF k < O THEN Cells(s[(k \div W) + 1])[(k % W) + 1] ELSE 0]
      /\ Header(m)
  <2> DEFINE u == [k \in 0..(Space(n) - 1) |->
                     IF k < O THEN Cells(s[(k \div W) + 1])[(k % W) + 1] ELSE 0]
  <2>1. m = [owners_count |-> n, voter_count |-> n, threshold |-> g.threshold,
             transaction_index |-> 1, stale_transaction_index |-> 0, tail |-> u]
    BY DEF NewAccount
  <2> HIDE DEF u, m
  <2>2. g.threshold \in Nat /\ n \in Nat
    BY <1>1
  <2>3. Header(m)
    BY <2>1, <2>2 DEF Header
  <2> QED BY <2>1, <2>3 DEF u
<1> HIDE DEF m, O, n, s
<1> DEFINE At(k) == IF k < O THEN Cells(s[(k \div W) + 1])[(k % W) + 1] ELSE 0
<1>7. t = [k \in 0..(O + n - 1) |-> At(k)]
  <2>1. t = [k \in 0..(Space(n) - 1) |-> At(k)]
    BY <1>6
  <2>2. Space(n) - 1 = O + n - 1
    BY <1>3, <1>5
  <2> HIDE DEF At
  <2> QED BY <2>1, <2>2
<1> HIDE DEF At, t
<1>8. t = [i \in 0..(O + n - 1) |-> t[i]]
  BY <1>7
<1>9. ASSUME NEW k \in 0..(n - 1), NEW j \in 1..W
      PROVE  t[k * W + j - 1] = Cells(o[k])[j]
  <2> DEFINE i == k * W + (j - 1)
  <2>1. k \in Nat /\ j - 1 \in 0..(W - 1) /\ k < n /\ (j - 1) + 1 = j
    BY <1>1, <1>3
  <2>2. i \div W = k /\ i % W = j - 1
    BY <1>1, <2>1, DivRow
  <2>3. k * W \in Nat /\ k * W + W <= O
    BY <1>1, <1>3, <2>1, Rows DEF O
  <2>4. k * W + j - 1 = i /\ i \in 0..(O + n - 1) /\ i < O
    BY <1>1, <1>3, <1>5, <2>1, <2>3
  <2> HIDE DEF i
  <2>5. t[i] = Cells(s[(i \div W) + 1])[(i % W) + 1]
    BY <1>7, <2>4 DEF At
  <2>6. t[i] = Cells(s[k + 1])[(j - 1) + 1]
    BY <2>2, <2>5
  <2>7. o[k] = s[k + 1]
    OBVIOUS
  <2> QED BY <2>1, <2>4, <2>6, <2>7
<1>10. ASSUME NEW k \in 0..(n - 1) PROVE t[O + k] = q[k]
  <2>1. O + k \in 0..(O + n - 1) /\ ~(O + k < O)
    BY <1>3, <1>5
  <2>2. t[O + k] = 0
    BY <1>7, <2>1 DEF At
  <2> QED BY <2>2
<1> HIDE DEF o, q, t
<1>11. Lays(t, n, o, q)
  BY <1>3, <1>8, <1>9, <1>10 DEF Lays, O
<1>12. Holds(m, o, q)
  BY <1>4, <1>6, <1>11 DEF Holds, t
<1>13. Sane(m)
  BY <1>1, <1>3, <1>6 DEF Sane
<1> QED BY <1>12, <1>13 DEF m, o, q, n, s

\* The account is laid out for some ascending owners and their permissions.
\* This is inductive: what an action leaves is again laid out.
LaidOut == \E o, q : Holds(account, o, q) /\ Sane(account)

\* init_multisig leaves a laid out account.
LEMMA LaidOutInit == Init => LaidOut
<1> SUFFICES ASSUME Init PROVE LaidOut
  OBVIOUS
<1>1. PICK g \in Genesis : account = NewAccount(g)
  BY DEF Init
<1> DEFINE n == Len(g.owners)
           o == [k \in 0..(n - 1) |-> g.owners[k + 1]]
           q == [k \in 0..(n - 1) |-> 0]
<1>2. Holds(NewAccount(g), o, q) /\ Sane(NewAccount(g))
  BY NewHolds
<1> HIDE DEF o, q
<1> QED BY <1>1, <1>2 DEF LaidOut

\* Propose only moves the index on.
LEMMA IndexHolds ==
    ASSUME NEW m, NEW o, NEW q, Holds(m, o, q), Sane(m)
    PROVE  LET r == [m EXCEPT !.transaction_index = @ + 1]
           IN  /\ Holds(r, o, q) /\ Sane(r)
               /\ ConfigOf(r) = [ConfigOf(m) EXCEPT !.transaction_index = @ + 1]
<1> DEFINE x == m.transaction_index + 1
           g == [m EXCEPT !.transaction_index = x]
           c == ConfigOf(m)
<1>1. x \in Nat /\ m.stale_transaction_index <= x
  BY DEF Holds, Header, Sane
<1> HIDE DEF x
<1>2. /\ g.tail = m.tail /\ g.owners_count = m.owners_count /\ g.voter_count = m.voter_count
      /\ g.threshold = m.threshold
      /\ g.transaction_index = x
      /\ g.stale_transaction_index = m.stale_transaction_index
      /\ Header(g)
  BY <1>1 DEF Holds, Header
<1> HIDE DEF g
<1>3. Holds(g, o, q) /\ Sane(g)
  BY <1>1, <1>2 DEF Holds, Sane
<1>4. ConfigOf(g) = Valued(x, m.stale_transaction_index,
                           Range(o), Masked(o, q), m.voter_count, m.threshold)
  BY <1>2, <1>3, HoldsValued
<1>5. c = Valued(m.transaction_index, m.stale_transaction_index,
                 Range(o), Masked(o, q), m.voter_count, m.threshold)
  BY HoldsValued
<1> HIDE DEF c
<1>6. c.transaction_index = m.transaction_index
  BY <1>5 DEF Valued
<1>7. ConfigOf(g) = [c EXCEPT !.transaction_index = x]
  BY <1>4, <1>5 DEF Valued
<1> QED BY <1>3, <1>6, <1>7 DEF g, c, x

\* No instruction disturbs the layout.
LEMMA LaidOutStep == LaidOut /\ [Next]_vars => LaidOut'
<1> SUFFICES ASSUME LaidOut, [Next]_vars PROVE LaidOut'
  OBVIOUS
<1>1. PICK o, q : Holds(account, o, q) /\ Sane(account)
  BY DEF LaidOut
<1>2. ASSUME NEW i \in Actions, Reconfigure(i) PROVE LaidOut'
  <2>1. Agree(ApplyBytes(account, i), ApplyConfigAction(ConfigOf(account), i))
    BY <1>1, ActionAgrees
  <2>2. account' = ApplyBytes(account, i) /\ account' # Err
    BY <1>2 DEF Reconfigure
  <2>3. \E o2, q2 : Holds(account', o2, q2) /\ Sane(account')
    BY <2>1, <2>2 DEF Agree
  <2> QED BY <2>3 DEF LaidOut
<1>3. ASSUME NEW a \in Address, Propose(a) PROVE LaidOut'
  <2>1. account' = [account EXCEPT !.transaction_index = @ + 1]
    BY <1>3 DEF Propose
  <2>2. Holds(account', o, q) /\ Sane(account')
    BY <1>1, <2>1, IndexHolds
  <2> QED BY <2>2 DEF LaidOut
<1>4. CASE UNCHANGED account
  BY <1>4 DEF LaidOut
<1>5. ASSUME NEW kind, NEW a, Vote(kind, a) PROVE UNCHANGED account
  BY <1>5 DEF Vote
<1> QED BY <1>2, <1>3, <1>4, <1>5 DEF Next, vars

\* Whatever actions are applied, the account can be loaded and is laid out in
\* order.
THEOREM AlwaysLaidOut == Spec => []LaidOut
BY LaidOutInit, LaidOutStep, PTL DEF Spec

\* For every width of an address, every number of owners and every order of
\* config actions: the account loads, and the binary search of is_owner finds
\* each owner where its permission is and nobody else.
THEOREM SearchAlwaysFinds == Spec => []SearchFindsOwners
<1>1. LaidOut => SearchFindsOwners
  <2> SUFFICES ASSUME LaidOut PROVE SearchFindsOwners
    OBVIOUS
  <2>1. PICK o, q : Holds(account, o, q)
    BY DEF LaidOut
  <2>2. Loads(account) /\ Owners(account) = o
    BY <2>1, HoldsReads
  <2>3. \A a \in Address :
           IsOwner(account, a) = [found |-> a \in Range(o), index |-> Position(Range(o), a)]
    BY <2>1, HoldsFinds
  <2> QED BY <2>2, <2>3, Zenon DEF SearchFindsOwners
<1> QED BY <1>1, AlwaysLaidOut, PTL

\* The handlers on bytes refuse exactly the actions the values refuse.
THEOREM VerdictsAlwaysSame == Spec => []SameVerdicts
<1>1. LaidOut => SameVerdicts
  <2> SUFFICES ASSUME LaidOut, NEW i \in Actions
               PROVE  (ApplyBytes(account, i) = Err) = (ApplyConfigAction(ConfigOf(account), i) = Err)
    BY DEF SameVerdicts
  <2>1. PICK o, q : Holds(account, o, q)
    BY DEF LaidOut
  <2>2. Agree(ApplyBytes(account, i), ApplyConfigAction(ConfigOf(account), i))
    BY <2>1, ActionAgrees
  <2> QED BY <2>2 DEF Agree
<1> QED BY <1>1, AlwaysLaidOut, PTL

(***************************************************************************)
(* Bits.                                                                   *)
(***************************************************************************)
LEMMA PowerAdds ==
    ASSUME NEW i \in Nat, NEW j \in Nat
    PROVE  Power(2)[i + j] = Power(2)[i] * Power(2)[j]
<1> DEFINE p == Power(2)
           T == {k \in Nat : p[i + k] # p[i] * p[k]}
<1>1. /\ p[0] = 1
      /\ \A k \in Nat : p[k + 1] = 2 * p[k]
      /\ \A k \in Nat : p[k] \in Nat \ {0}
  BY PowerStep
<1> HIDE DEF p
<1> SUFFICES ASSUME T # {} PROVE FALSE
  BY DEF p
<1>2. PICK k \in T : \A x \in T : k <= x
  BY LeastNatural
<1> HIDE DEF T
<1>3. k \in Nat /\ p[i + k] # p[i] * p[k]
  BY DEF T
<1>4. CASE k = 0
  BY <1>1, <1>3, <1>4
<1>5. CASE k # 0
  <2> DEFINE h == k - 1
  <2>1. h \in Nat /\ h + 1 = k /\ ~(k <= h) /\ i + h \in Nat /\ (i + h) + 1 = i + k
    BY <1>3, <1>5
  <2> HIDE DEF h
  <2>2. p[i + h] = p[i] * p[h]
    BY <1>2, <2>1 DEF T
  <2>3. p[i + k] = 2 * p[i + h] /\ p[k] = 2 * p[h]
    BY <1>1, <2>1
  <2>4. p[i] \in Nat /\ p[h] \in Nat
    BY <1>1, <2>1
  <2> QED BY <1>3, <2>2, <2>3, <2>4
<1> QED BY <1>4, <1>5

\* Multiples of the divisor come out of a quotient.
LEMMA DivAdd ==
    ASSUME NEW x \in Nat, NEW c \in Nat, NEW b \in Nat \ {0}
    PROVE  (x + c * b) \div b = (x \div b) + c
<1> DEFINE d == x \div b
           e == x % b
<1>1. d \in Nat /\ e \in 0..(b - 1) /\ x = d * b + e
  BY DivMod
<1> HIDE DEF d, e
<1>2. x + c * b = (d + c) * b + e
  BY <1>1
<1>3. ((d + c) * b + e) \div b = d + c
  BY <1>1, DivRow
<1> QED BY <1>2, <1>3 DEF d

\* A clear bit, its weight added, is set.
LEMMA BitHere ==
    ASSUME NEW x \in Nat, NEW b \in Nat \ {0}, (x \div b) % 2 = 0
    PROVE  ((x + b) \div b) % 2 = 1
<1> DEFINE y == x \div b
<1>1. y \in Nat /\ y % 2 = 0
  BY DivMod
<1>2. (x + 1 * b) \div b = y + 1
  BY DivAdd
<1>3. 1 * b = b
  OBVIOUS
<1> HIDE DEF y
<1>4. (y + 1) % 2 = 1
  BY <1>1
<1> QED BY <1>2, <1>3, <1>4

\* The bits below are as they were.
LEMMA BitBelow ==
    ASSUME NEW x \in Nat, NEW b \in Nat \ {0}, NEW e \in Nat
    PROVE  ((x + (2 * e) * b) \div b) % 2 = (x \div b) % 2
<1> DEFINE z == x \div b
           c == 2 * e
<1>1. z \in Nat /\ c \in Nat
  BY DivMod
<1> HIDE DEF c
<1>2. (x + c * b) \div b = z + c
  BY <1>1, DivAdd
<1> HIDE DEF z
<1>3. (z + c) % 2 = z % 2
  BY <1>1 DEF c
<1> QED BY <1>2, <1>3 DEF c, z

\* Nothing is carried to the bits above.
LEMMA BitAbove ==
    ASSUME NEW x \in Nat, NEW b \in Nat \ {0}, NEW r \in Nat \ {0}, (x \div b) % 2 = 0
    PROVE  (x + b) \div ((2 * r) * b) = x \div ((2 * r) * b)
<1> DEFINE y == x \div b
           c == 2 * r
<1>1. y \in Nat /\ y % 2 = 0 /\ c \in Nat \ {0} /\ x + b \in Nat /\ c = r * 2
  BY DivMod
<1>2. (x + b) \div b = y + 1
  <2>1. (x + 1 * b) \div b = y + 1
    BY DivAdd
  <2>2. 1 * b = b
    OBVIOUS
  <2> QED BY <2>1, <2>2
<1> HIDE DEF y, c
<1>3. y \div c = x \div (c * b)
  BY <1>1, DivDiv DEF y
<1>4. (y + 1) \div c = (x + b) \div (c * b)
  <2>1. ((x + b) \div b) \div c = (x + b) \div (c * b)
    <3> DEFINE z == x + b
    <3>1. z \in Nat
      BY <1>1
    <3> HIDE DEF z
    <3>2. (z \div b) \div c = z \div (c * b)
      BY <1>1, <3>1, DivDiv
    <3> QED BY <3>2 DEF z
  <2> QED BY <1>2, <2>1
<1>5. y \div c = (y \div 2) \div r
  <2>1. (y \div 2) \div r = y \div (r * 2)
    BY <1>1, DivDiv, 2 \in Nat \ {0}
  <2> QED BY <1>1, <2>1
<1>6. (y + 1) \div c = ((y + 1) \div 2) \div r
  <2>1. ((y + 1) \div 2) \div r = (y + 1) \div (r * 2)
    BY <1>1, DivDiv, 2 \in Nat \ {0}, y + 1 \in Nat
  <2> QED BY <1>1, <2>1
<1>7. (y + 1) \div 2 = y \div 2
  BY <1>1
<1> QED BY <1>3, <1>4, <1>5, <1>6, <1>7 DEF c

\* Adding a clear bit's weight sets that bit and no other.
LEMMA SetsOneBit ==
    ASSUME NEW x \in Nat, NEW i \in Nat, NEW j \in Nat, (x \div Power(2)[i]) % 2 = 0
    PROVE  ((x + Power(2)[i]) \div Power(2)[j]) % 2
           = IF i = j THEN 1 ELSE (x \div Power(2)[j]) % 2
<1> DEFINE p == Power(2)
<1>1. 2 \in Nat \ {0}
  OBVIOUS
<1>2. \A k \in Nat : p[k] \in Nat \ {0} /\ p[k + 1] = 2 * p[k]
  BY <1>1, PowerStep
<1>3. \A k, l \in Nat : p[k + l] = p[k] * p[l]
  BY PowerAdds
<1>4. (x \div p[i]) % 2 = 0
  OBVIOUS
<1> HIDE DEF p
<1>5. ((x + p[i]) \div p[j]) % 2 = IF i = j THEN 1 ELSE (x \div p[j]) % 2
  <2>1. CASE i = j
    BY <1>2, <1>4, <2>1, BitHere
  <2>2. CASE j < i
    <3> DEFINE h == i - j - 1
    <3>1. h \in Nat /\ j + (h + 1) = i /\ h + 1 \in Nat
      BY <2>2
    <3> HIDE DEF h
    <3>2. p[h] \in Nat /\ p[h + 1] = 2 * p[h] /\ p[i] = p[j] * p[h + 1] /\ p[j] \in Nat \ {0}
      BY <1>2, <1>3, <3>1
    <3>3. p[i] = (2 * p[h]) * p[j]
      BY <3>2
    <3>4. ((x + (2 * p[h]) * p[j]) \div p[j]) % 2 = (x \div p[j]) % 2
      BY <3>2, BitBelow
    <3> QED BY <2>2, <3>3, <3>4
  <2>3. CASE i < j
    <3> DEFINE h == j - i - 1
    <3>1. h \in Nat /\ i + (h + 1) = j /\ h + 1 \in Nat
      BY <2>3
    <3> HIDE DEF h
    <3>2. /\ p[h] \in Nat \ {0} /\ p[h + 1] = 2 * p[h] /\ p[j] = p[i] * p[h + 1]
          /\ p[i] \in Nat \ {0}
      BY <1>2, <1>3, <3>1
    <3>3. p[j] = (2 * p[h]) * p[i]
      BY <3>2
    <3>4. (x + p[i]) \div ((2 * p[h]) * p[i]) = x \div ((2 * p[h]) * p[i])
      BY <1>4, <3>2, BitAbove
    <3> QED BY <2>3, <3>3, <3>4
  <2> QED BY <2>1, <2>2, <2>3
<1> QED BY <1>5 DEF p

(***************************************************************************)
(* The proposal.                                                           *)
(***************************************************************************)
Kinds == {"approved", "rejected", "cancelled"}

\* A proposal account sized for n owners.
Ballot(n) == [index: Nat, owners_count: {n}, approved_count: Nat, rejected_count: Nat,
              cancelled_count: Nat, message_len: {Len(Message)}, status: Status,
              tail: [0..(3 * LenFor(n) + Len(Message) - 1) -> Nat]]

Bit(x, i) == (x \div Power(2)[i]) % 2

\* The sizes of a bitmap and of the message.
LEMMA LenTypes ==
    ASSUME NEW n \in Nat
    PROVE  LenFor(n) \in Nat /\ Len(Message) \in Nat
<1>1. BITS \in Nat \ {0} /\ n + BITS - 1 \in Nat
  BY Layout
<1>2. LenFor(n) \in Nat
  BY <1>1, DivMod DEF LenFor
<1> QED BY <1>2, PayloadAssumption

\* Where a bit is kept: no two bits share a place, and none is in the message.
LEMMA BitPlaces ==
    ASSUME NEW n \in Nat, NEW t, t.owners_count = n
    PROVE  LET L == LenFor(n)
           IN  /\ \A kind \in Kinds, d \in 0..(L - 1) : Offset(t, kind) + d \in 0..(3 * L - 1)
               /\ \A k1, k2 \in Kinds, d1, d2 \in 0..(L - 1) :
                     Offset(t, k1) + d1 = Offset(t, k2) + d2 => k1 = k2 /\ d1 = d2
<1> DEFINE L == LenFor(n)
<1>1. L \in Nat
  BY LenTypes
<1>2. Offset(t, "approved") = 0 /\ Offset(t, "rejected") = L /\ Offset(t, "cancelled") = 2 * L
  BY DEF Offset
<1> HIDE DEF L
<1>3. ASSUME NEW kind \in Kinds, NEW d \in 0..(L - 1)
      PROVE  Offset(t, kind) + d \in 0..(3 * L - 1)
  BY <1>1, <1>2 DEF Kinds
<1>4. ASSUME NEW k1 \in Kinds, NEW k2 \in Kinds, NEW d1 \in 0..(L - 1), NEW d2 \in 0..(L - 1),
             Offset(t, k1) + d1 = Offset(t, k2) + d2
      PROVE  k1 = k2 /\ d1 = d2
  BY <1>1, <1>2, <1>4 DEF Kinds
<1> QED BY <1>3, <1>4 DEF L

\* Setting a settable bit sets it and nothing else.
LEMMA SetBitSets ==
    ASSUME NEW n \in Nat, NEW t \in Ballot(n), NEW kind \in Kinds, NEW p \in Nat,
           Settable(t, kind, p)
    PROVE  LET r == SetBit(t, kind, p)
               L == LenFor(n)
           IN  /\ r \in Ballot(n)
               /\ \A f \in {"index", "approved_count", "rejected_count", "cancelled_count",
                            "status"} : r[f] = t[f]
               /\ \A i \in Nat : 3 * L <= i => r.tail[i] = t.tail[i]
               /\ \A k \in Kinds, x \in Nat : Get(r, k, x) <=> Get(t, k, x) \/ (k = kind /\ x = p)
<1> DEFINE L == LenFor(n)
           D == 0..(3 * L + Len(Message) - 1)
           c == Offset(t, kind) + (p \div BITS)
           b == Power(2)[p % BITS]
           r == SetBit(t, kind, p)
<1>1. L \in Nat /\ Len(Message) \in Nat /\ BITS \in Nat \ {0} /\ t.owners_count = n
      /\ t.tail \in [D -> Nat]
  BY LenTypes, Layout DEF Ballot
<1>2. p \div BITS \in 0..(L - 1) /\ p % BITS \in Nat /\ Bit(t.tail[c], p % BITS) # 1
  <2>1. p \div BITS < L /\ ~Get(t, kind, p)
    BY <1>1 DEF Settable
  <2>2. p \div BITS \in Nat /\ p % BITS \in 0..(BITS - 1)
    BY <1>1, DivMod
  <2>3. p \div BITS \in 0..(L - 1) /\ p % BITS \in Nat
    BY <1>1, <2>1, <2>2
  <2> QED BY <1>1, <2>1, <2>3 DEF Get, Bit
<1>3. c \in 0..(3 * L - 1) /\ c \in D
  <2>1. c \in 0..(3 * L - 1)
    BY <1>1, <1>2, BitPlaces
  <2> QED BY <1>1, <2>1
<1>4. b \in Nat \ {0} /\ t.tail[c] \in Nat
  BY <1>1, <1>2, <1>3, PowerStep, 2 \in Nat \ {0}
<1>5. (t.tail[c] \div Power(2)[p % BITS]) % 2 = 0
  <2>1. t.tail[c] \div b \in Nat
    BY <1>4, DivMod
  <2>2. (t.tail[c] \div b) % 2 \in 0..1
    BY <2>1
  <2> QED BY <1>2, <2>2 DEF Bit
<1>6. r = [t EXCEPT !.tail = [t.tail EXCEPT ![c] = t.tail[c] + b]]
  BY DEF SetBit
<1> HIDE DEF c, b, r, D, L
<1>7. t.tail[c] + b \in Nat
  BY <1>4
<1>8. /\ r.tail \in [D -> Nat] /\ r.tail[c] = t.tail[c] + b
      /\ \A i : i # c => r.tail[i] = t.tail[i]
      /\ r.owners_count = n
      /\ r \in Ballot(n)
      /\ \A f \in {"index", "approved_count", "rejected_count", "cancelled_count",
                   "status"} : r[f] = t[f]
  <2> DEFINE u == [t.tail EXCEPT ![c] = t.tail[c] + b]
  <2>1. /\ u \in [D -> Nat] /\ u[c] = t.tail[c] + b
        /\ \A i : i # c => u[i] = t.tail[i]
    BY <1>1, <1>3, <1>7
  <2> HIDE DEF u
  <2>2. r = [t EXCEPT !.tail = u]
    BY <1>6 DEF u
  <2>3. r \in Ballot(n) /\ r.tail = u
    BY <2>1, <2>2 DEF Ballot, D, L
  <2>4. /\ r.owners_count = n
        /\ \A f \in {"index", "approved_count", "rejected_count", "cancelled_count",
                     "status"} : r[f] = t[f]
    BY <1>1, <2>2 DEF Ballot
  <2> QED BY <2>1, <2>3, <2>4
<1>9. ASSUME NEW i \in Nat, 3 * L <= i PROVE r.tail[i] = t.tail[i]
  BY <1>1, <1>3, <1>8, <1>9
<1>10. ASSUME NEW k \in Kinds, NEW x \in Nat
       PROVE  Get(r, k, x) <=> Get(t, k, x) \/ (k = kind /\ x = p)
  <2> DEFINE e == Offset(t, k) + (x \div BITS)
  <2>1. x \div BITS \in Nat /\ x % BITS \in Nat /\ x = (x \div BITS) * BITS + (x % BITS)
    <3>1. /\ x \div BITS \in Nat /\ x % BITS \in 0..(BITS - 1)
          /\ x = (x \div BITS) * BITS + (x % BITS)
      BY <1>1, DivMod
    <3>2. \A z \in 0..(BITS - 1) : z \in Nat
      BY <1>1
    <3> QED BY <3>1, <3>2
  <2>2. p = (p \div BITS) * BITS + (p % BITS)
    BY <1>1, DivMod
  <2>3. Offset(r, k) = Offset(t, k)
    BY <1>1, <1>8 DEF Offset
  <2>4. Get(t, k, x) <=> x \div BITS < L /\ Bit(t.tail[e], x % BITS) = 1
    BY <1>1 DEF Get, Bit, L
  <2>5. Get(r, k, x) <=> x \div BITS < L /\ Bit(r.tail[e], x % BITS) = 1
    BY <1>8, <2>3 DEF Get, Bit, L
  <2> HIDE DEF e
  <2>6. CASE ~(x \div BITS < L)
    BY <1>1, <1>2, <2>4, <2>5, <2>6
  <2>7. CASE x \div BITS < L /\ e # c
    <3>1. ~(k = kind /\ x = p)
      BY <2>7 DEF e, c
    <3> QED BY <1>8, <2>4, <2>5, <2>7, <3>1
  <2>8. CASE x \div BITS < L /\ e = c
    <3>1. x \div BITS \in 0..(L - 1)
      BY <1>1, <2>1, <2>8
    <3>2. k = kind /\ x \div BITS = p \div BITS
      BY <1>1, <1>2, <2>8, <3>1, BitPlaces DEF e, c, L
    <3>3. x = p <=> p % BITS = x % BITS
      BY <2>1, <2>2, <3>2
    <3>4. Bit(r.tail[e], x % BITS) =
              IF p % BITS = x % BITS THEN 1 ELSE Bit(t.tail[e], x % BITS)
      BY <1>2, <1>4, <1>5, <1>8, <2>1, <2>8, SetsOneBit DEF Bit, b
    <3> QED BY <2>4, <2>5, <2>8, <3>2, <3>3, <3>4
  <2> QED BY <2>6, <2>7, <2>8
<1> QED BY <1>8, <1>9, <1>10 DEF L, r

\* The counter beside a bitmap, and the status, are fields of their own.
Bumped(t, kind, x) == [t EXCEPT ![Counter(kind)] = x]
Sealed(t, kind) == [t EXCEPT !.status = Latch(kind)]

\* Setting a counter leaves the other counters and the cells alone.
LEMMA Counts ==
    ASSUME NEW n, NEW r \in Ballot(n), NEW kind \in Kinds, NEW x \in Nat
    PROVE  LET d == Bumped(r, kind, x)
           IN  /\ d \in Ballot(n)
               /\ d.tail = r.tail /\ d.index = r.index /\ d.status = r.status
               /\ \A k \in Kinds : d[Counter(k)] = IF k = kind THEN x ELSE r[Counter(k)]
<1>1. CASE kind = "approved"
  BY <1>1 DEF Ballot, Bumped, Counter, Kinds
<1>2. CASE kind = "rejected"
  BY <1>2 DEF Ballot, Bumped, Counter, Kinds
<1>3. CASE kind = "cancelled"
  BY <1>3 DEF Ballot, Bumped, Counter, Kinds
<1> QED BY <1>1, <1>2, <1>3 DEF Kinds

\* Setting the status leaves the counters and the cells alone.
LEMMA Latches ==
    ASSUME NEW n, NEW r \in Ballot(n), NEW kind \in Kinds
    PROVE  LET d == Sealed(r, kind)
           IN  /\ d \in Ballot(n)
               /\ d.tail = r.tail /\ d.index = r.index /\ d.status = Latch(kind)
               /\ \A k \in Kinds : d[Counter(k)] = r[Counter(k)]
<1>1. Latch(kind) \in Status
  BY DEF Latch, Kinds, Status
<1> QED BY <1>1 DEF Ballot, Sealed, Counter, Kinds

\* The bits are read from the tail alone.
LEMMA GetReads ==
    ASSUME NEW n, NEW t \in Ballot(n), NEW r \in Ballot(n), t.tail = r.tail, NEW k, NEW x
    PROVE  Get(t, k, x) <=> Get(r, k, x)
<1>1. t.owners_count = n /\ r.owners_count = n
  BY DEF Ballot
<1>2. Offset(t, k) = Offset(r, k)
  BY <1>1 DEF Offset
<1> QED BY <1>1, <1>2 DEF Get

\* The bits set in a bitmap can be counted.
LEMMA MarkedFinite ==
    ASSUME NEW n \in Nat, NEW t \in Ballot(n), NEW k
    PROVE  IsFiniteSet(Marked(t, k)) /\ Cardinality(Marked(t, k)) \in Nat
<1>1. t.owners_count = n /\ LenFor(n) \in Nat /\ BITS \in Nat
  BY LenTypes, Layout DEF Ballot
<1>2. 0 \in Int /\ BITS * LenFor(n) - 1 \in Int
  BY <1>1
<1>3. IsFiniteSet(0..(BITS * LenFor(n) - 1))
  BY <1>2, FS_Interval
<1>4. Marked(t, k) \subseteq 0..(BITS * LenFor(n) - 1)
  BY <1>1 DEF Marked
<1> QED BY <1>3, <1>4, FS_Subset, FS_CardinalityType

\* A bit that is set is of an owner's cell.
LEMMA GetMarked ==
    ASSUME NEW n \in Nat, NEW t \in Ballot(n), NEW k, NEW p \in Nat
    PROVE  /\ p \in Marked(t, k) <=> Get(t, k, p)
           /\ p \div BITS < LenFor(n) => p \in 0..(BITS * LenFor(n) - 1)
<1> DEFINE L == LenFor(n)
           d == p \div BITS
           e == p % BITS
<1>1. L \in Nat /\ BITS \in Nat \ {0} /\ t.owners_count = n
  BY LenTypes, Layout DEF Ballot
<1>2. d \in Nat /\ e \in 0..(BITS - 1) /\ p = d * BITS + e
  BY <1>1, DivMod
<1> HIDE DEF L
<1>3. d < L => p \in 0..(BITS * L - 1)
  <2> HIDE DEF d, e
  <2> SUFFICES ASSUME d < L PROVE p \in 0..(BITS * L - 1)
    OBVIOUS
  <2>1. d * BITS + BITS <= L * BITS /\ d * BITS \in Nat
    BY <1>1, <1>2, Rows
  <2>2. L * BITS = BITS * L /\ BITS * L \in Nat
    BY <1>1
  <2> DEFINE y == BITS * L
             z == d * BITS
  <2>3. z + BITS <= y /\ z \in Nat /\ y \in Nat /\ p = z + e
    BY <1>2, <2>1, <2>2
  <2> HIDE DEF y, z
  <2>4. p \in 0..(y - 1)
    BY <1>1, <1>2, <2>3
  <2> QED BY <2>4 DEF y
<1>4. Get(t, k, p) => d < L
  BY <1>1 DEF Get, L
<1>5. p \in Marked(t, k) <=> p \in 0..(BITS * L - 1) /\ Get(t, k, p)
  BY <1>1 DEF Marked, L
<1> HIDE DEF d
<1>6. p \in Marked(t, k) <=> Get(t, k, p)
  BY <1>3, <1>4, <1>5
<1> QED BY <1>3, <1>6 DEF L, d

\* What a vote of a kind at a position makes of a proposal.
Voted(t, u, kind, p, status) ==
    /\ u.index = t.index
    /\ u.status = status
    /\ \A k \in Kinds : /\ u[Counter(k)] = IF k = kind THEN t[Counter(k)] + 1 ELSE t[Counter(k)]
                        /\ Marked(u, k) = IF k = kind THEN Marked(t, k) \cup {p} ELSE Marked(t, k)

\* The counters tell the bits, and the message is behind them.
Counted(t) == \A kind \in Kinds : t[Counter(kind)] = Cardinality(Marked(t, kind))
Carries(t) ==
    \A k \in 1..Len(Message) : t.tail[3 * LenFor(t.owners_count) + (k - 1)] = Message[k]

\* A vote cast at a position, and the proposal after its threshold is tested.
Cast(t, kind, p) == Bumped(SetBit(t, kind, p), kind, SetBit(t, kind, p)[Counter(kind)] + 1)
Tested(t, kind, need) == IF t[Counter(kind)] >= need THEN Sealed(t, kind) ELSE t

\* The proposal u tells the votes of t and one more.
TellsOneMore(n, t, u, kind, p, need) ==
    /\ u \in Ballot(n) /\ Counted(u) /\ Carries(u)
    /\ p \notin Marked(t, kind)
    /\ Voted(t, u, kind, p, IF Cardinality(Marked(t, kind) \cup {p}) >= need
                            THEN Latch(kind) ELSE t.status)

\* A vote sets one clear bit, counts it and keeps the message: the counter
\* that decides the status is the number of bits now set.
LEMMA VoteMarks ==
    ASSUME NEW n \in Nat, NEW t \in Ballot(n), Counted(t), Carries(t),
           NEW kind \in Kinds, NEW p \in Nat, Settable(t, kind, p), NEW need
    PROVE  TellsOneMore(n, t, Tested(Cast(t, kind, p), kind, need), kind, p, need)
<1> DEFINE r == SetBit(t, kind, p)
           x == t[Counter(kind)] + 1
           L == LenFor(n)
           done == Cast(t, kind, p)
           u == Tested(done, kind, need)
<1>1. /\ r \in Ballot(n)
      /\ \A f \in {"index", "approved_count", "rejected_count", "cancelled_count",
                   "status"} : r[f] = t[f]
      /\ \A i \in Nat : 3 * L <= i => r.tail[i] = t.tail[i]
      /\ \A k \in Kinds, y \in Nat : Get(r, k, y) <=> Get(t, k, y) \/ (k = kind /\ y = p)
  BY SetBitSets
<1> HIDE DEF r
<1>2. \A k \in Kinds : r[Counter(k)] = t[Counter(k)] /\ t[Counter(k)] \in Nat
  <2>1. \A k \in Kinds : Counter(k) \in {"approved_count", "rejected_count", "cancelled_count"}
    BY DEF Kinds, Counter
  <2>2. \A f \in {"approved_count", "rejected_count", "cancelled_count"} : t[f] \in Nat
    BY DEF Ballot
  <2> QED BY <1>1, <2>1, <2>2
<1>3. x \in Nat
  BY <1>2
<1>4. /\ done = Bumped(r, kind, x)
      /\ u = IF done[Counter(kind)] >= need THEN Sealed(done, kind) ELSE done
  BY <1>2 DEF r, Cast, Tested
<1> HIDE DEF done, u
<1> HIDE DEF x
<1>5. /\ done \in Ballot(n)
      /\ done.tail = r.tail /\ done.index = r.index /\ done.status = r.status
      /\ \A k \in Kinds : done[Counter(k)] = IF k = kind THEN x ELSE r[Counter(k)]
  <2> DEFINE d == Bumped(r, kind, x)
  <2>1. /\ d \in Ballot(n)
        /\ d.tail = r.tail /\ d.index = r.index /\ d.status = r.status
        /\ \A k \in Kinds : d[Counter(k)] = IF k = kind THEN x ELSE r[Counter(k)]
    BY <1>1, <1>3, Counts
  <2> HIDE DEF d
  <2>2. done = d
    BY <1>4 DEF d
  <2> QED BY <2>1, <2>2
<1>6. /\ u \in Ballot(n)
      /\ u.tail = r.tail /\ u.index = r.index
      /\ u.status = IF x >= need THEN Latch(kind) ELSE r.status
      /\ \A k \in Kinds : u[Counter(k)] = done[Counter(k)]
  <2>1. done[Counter(kind)] = x
    BY <1>5
  <2>2. CASE x >= need
    <3>1. u = Sealed(done, kind)
      BY <1>4, <2>1, <2>2
    <3>2. /\ u \in Ballot(n)
          /\ u.tail = done.tail /\ u.index = done.index /\ u.status = Latch(kind)
          /\ \A k \in Kinds : u[Counter(k)] = done[Counter(k)]
      BY <1>5, <3>1, Latches
    <3> QED BY <1>5, <2>2, <3>2
  <2>3. CASE ~(x >= need)
    BY <1>4, <1>5, <2>1, <2>3
  <2> QED BY <2>2, <2>3
<1>7. u.index = t.index /\ u.status = IF x >= need THEN Latch(kind) ELSE t.status
  BY <1>1, <1>6
<1>8. ASSUME NEW k \in Kinds
      PROVE  Marked(u, k) = IF k = kind THEN Marked(t, k) \cup {p} ELSE Marked(t, k)
  <2>1. p \in 0..(BITS * L - 1)
    <3>1. p \div BITS < L
      BY DEF Settable, Ballot
    <3> QED BY <3>1, GetMarked
  <2>2. ASSUME NEW y \in 0..(BITS * L - 1)
        PROVE  Get(u, k, y) <=> Get(t, k, y) \/ (k = kind /\ y = p)
    <3>1. y \in Nat
      <4>1. BITS \in Nat /\ L \in Nat
        BY LenTypes, Layout
      <4>2. BITS * L \in Nat
        BY <4>1
      <4> QED BY <4>2
    <3>2. Get(u, k, y) <=> Get(r, k, y)
      BY <1>1, <1>6, GetReads
    <3>3. Get(r, k, y) <=> Get(t, k, y) \/ (k = kind /\ y = p)
      BY <1>1, <3>1
    <3> QED BY <3>2, <3>3
  <2>3. /\ Marked(u, k) = {y \in 0..(BITS * L - 1) : Get(u, k, y)}
        /\ Marked(t, k) = {y \in 0..(BITS * L - 1) : Get(t, k, y)}
    BY <1>6 DEF Marked, Ballot
  <2> HIDE DEF L
  <2> QED BY <2>1, <2>2, <2>3
<1>9. p \notin Marked(t, kind)
  BY DEF Settable, Marked
<1>10. ASSUME NEW k \in Kinds
       PROVE  u[Counter(k)] = IF k = kind THEN t[Counter(k)] + 1 ELSE t[Counter(k)]
  BY <1>2, <1>5, <1>6 DEF x
<1>11. IsFiniteSet(Marked(t, kind)) /\ Cardinality(Marked(t, kind)) \in Nat
  BY MarkedFinite
<1>12. Cardinality(Marked(t, kind) \cup {p}) = x
  <2>1. Cardinality(Marked(t, kind) \cup {p}) = Cardinality(Marked(t, kind)) + 1
    BY <1>9, <1>11, FS_AddElement
  <2> QED BY <2>1 DEF Counted, x
<1>13. Counted(u)
  <2> SUFFICES ASSUME NEW k \in Kinds
               PROVE  u[Counter(k)] = Cardinality(Marked(u, k))
    BY DEF Counted
  <2>1. CASE k = kind
    BY <1>8, <1>10, <1>12, <2>1 DEF x
  <2>2. CASE k # kind
    BY <1>8, <1>10, <2>2 DEF Counted
  <2> QED BY <2>1, <2>2
<1>14. Carries(u)
  <2> SUFFICES ASSUME NEW k \in 1..Len(Message)
               PROVE  u.tail[3 * LenFor(u.owners_count) + (k - 1)] = Message[k]
    BY DEF Carries
  <2>1. u.owners_count = n /\ t.owners_count = n
    BY <1>6 DEF Ballot
  <2>2. L \in Nat /\ Len(Message) \in Nat
    BY LenTypes
  <2> HIDE DEF L
  <2>3. 3 * L + (k - 1) \in Nat /\ 3 * L <= 3 * L + (k - 1)
    <3>1. k - 1 \in Nat /\ 3 * L \in Nat
      BY <2>2
    <3> QED BY <3>1
  <2>4. r.tail[3 * L + (k - 1)] = t.tail[3 * L + (k - 1)]
    BY <1>1, <2>3
  <2>5. t.tail[3 * L + (k - 1)] = Message[k]
    BY <2>1 DEF Carries, L
  <2> QED BY <1>6, <2>1, <2>4, <2>5 DEF L
<1>15. Voted(t, u, kind, p, IF Cardinality(Marked(t, kind) \cup {p}) >= need
                            THEN Latch(kind) ELSE t.status)
  BY <1>7, <1>8, <1>10, <1>12 DEF Voted
<1> QED BY <1>6, <1>9, <1>13, <1>14, <1>15 DEF TellsOneMore, u, done

\* A new proposal has no bit set.
LEMMA NewBallot ==
    ASSUME NEW n \in Nat, NEW i \in Nat
    PROVE  LET t == NewProposal(i, n)
           IN  /\ t \in Ballot(n) /\ Counted(t) /\ Carries(t)
               /\ \A k \in Kinds : Marked(t, k) = {}
               /\ t.status = "Active" /\ t.index = i
<1> DEFINE t == NewProposal(i, n)
           L == LenFor(n)
           M == Len(Message)
           z == Resize(<<>>, 3 * L + M)
           u == Write(z, 3 * L, Message)
           D == 0..(3 * L + M - 1)
<1>1. L \in Nat /\ M \in Nat /\ Message \in Seq(Nat) /\ DOMAIN Message = 1..M
      /\ BITS \in Nat \ {0}
  BY LenTypes, PayloadAssumption, Layout
<1>2. t = [index |-> i, owners_count |-> n, approved_count |-> 0, rejected_count |-> 0,
           cancelled_count |-> 0, message_len |-> M, status |-> "Active", tail |-> u]
  BY DEF NewProposal
<1> HIDE DEF L, M, t
<1>3. z = [k \in D |-> 0]
  <2>1. \A k : k \notin DOMAIN <<>>
    OBVIOUS
  <2>2. z = [k \in 0..((3 * L + M) - 1) |-> IF k \in DOMAIN <<>> THEN <<>>[k] ELSE 0]
    BY DEF Resize
  <2>3. 0..((3 * L + M) - 1) = D
    BY <1>1
  <2> HIDE DEF D, z
  <2> QED BY <2>1, <2>2, <2>3
<1> HIDE DEF z
<1>4. u = [k \in D |-> IF k - 3 * L + 1 \in 1..M THEN Message[k - 3 * L + 1] ELSE 0]
  BY <1>1, <1>3 DEF Write
<1> HIDE DEF u
<1>5. u \in [D -> Nat]
  BY <1>1, <1>4
<1>6. \A k \in 0..(3 * L - 1) : u[k] = 0
  <2> SUFFICES ASSUME NEW k \in 0..(3 * L - 1) PROVE u[k] = 0
    OBVIOUS
  <2>1. k \in D /\ ~(k - 3 * L + 1 \in 1..M)
    BY <1>1
  <2> QED BY <1>4, <2>1
<1>7. t \in Ballot(n) /\ t.tail = u /\ t.status = "Active" /\ t.index = i /\ t.owners_count = n
  BY <1>2, <1>5 DEF Ballot, Status, L, M
<1>8. \A k \in Kinds : t[Counter(k)] = 0
  BY <1>2 DEF Counter, Kinds
<1>9. ASSUME NEW k \in Kinds PROVE Marked(t, k) = {}
  <2> SUFFICES ASSUME NEW p \in 0..(BITS * L - 1), Get(t, k, p) PROVE FALSE
    BY <1>7 DEF Marked, L
  <2>1. p \in Nat
    BY <1>1
  <2>2. p \div BITS < L /\ Bit(u[Offset(t, k) + (p \div BITS)], p % BITS) = 1
    BY <1>7 DEF Get, Bit, L
  <2>3. p \div BITS \in Nat /\ p % BITS \in 0..(BITS - 1)
    BY <1>1, <2>1, DivMod
  <2>4. p \div BITS \in 0..(L - 1) /\ p % BITS \in Nat
    BY <1>1, <2>2, <2>3
  <2>5. Offset(t, k) + (p \div BITS) \in 0..(3 * L - 1)
    BY <1>7, <2>4, BitPlaces DEF L
  <2>6. Bit(0, p % BITS) = 1
    BY <1>6, <2>2, <2>5
  <2>7. Power(2)[p % BITS] \in Nat \ {0}
    BY <2>4, PowerStep, 2 \in Nat \ {0}
  <2> DEFINE b == Power(2)[p % BITS]
  <2>8. b \in Nat \ {0}
    BY <2>7
  <2> HIDE DEF b
  <2>9. 0 \div b = 0
    BY <2>8
  <2> QED BY <2>6, <2>9 DEF Bit, b
<1>10. Counted(t)
  BY <1>8, <1>9, FS_EmptySet DEF Counted
<1>11. Carries(t)
  <2> SUFFICES ASSUME NEW k \in 1..Len(Message)
               PROVE  u[3 * L + (k - 1)] = Message[k]
    BY <1>7 DEF Carries, L
  <2>1. k \in 1..M
    BY DEF M
  <2> DEFINE y == 3 * L + (k - 1)
  <2>2. y \in D /\ y - 3 * L + 1 = k
    BY <1>1, <2>1
  <2> HIDE DEF y
  <2> QED BY <1>4, <2>1, <2>2 DEF y
<1> QED BY <1>7, <1>9, <1>10, <1>11 DEF t

\* The proposal's counters tell its bits, and its message is whole.
Tallied == \E n \in Nat : proposal \in Ballot(n) /\ Counted(proposal) /\ Carries(proposal)

\* A vote on the bytes, told in the configuration they hold.
LEMMA VoteTold ==
    ASSUME LaidOut, Tallied, NEW kind \in Kinds, NEW a \in Address, Vote(kind, a)
    PROVE  LET c == ConfigOf(account)
               p == Position(c.owners, a)
               need == IF kind = "rejected" THEN Cutoff(c) ELSE c.threshold
           IN  /\ Tallied'
               /\ UNCHANGED account
               /\ a \in Voters(c)
               /\ proposal.status = IF kind = "cancelled" THEN "Approved" ELSE "Active"
               /\ proposal.index > c.stale_transaction_index
               /\ p \notin Marked(proposal, kind)
               /\ kind # "cancelled" => \A k \in Kinds : p \notin Marked(proposal, k)
               /\ Voted(proposal, proposal', kind, p,
                        IF Cardinality(Marked(proposal, kind) \cup {p}) >= need
                        THEN Latch(kind) ELSE proposal.status)
<1> DEFINE m == account
           t == proposal
           u == proposal'
           c == ConfigOf(m)
           p == Position(c.owners, a)
           need == IF kind = "rejected" THEN Cutoff(c) ELSE c.threshold
<1>1. PICK o, q : Holds(m, o, q) /\ Sane(m)
  BY DEF LaidOut
<1>2. PICK n \in Nat : t \in Ballot(n) /\ Counted(t) /\ Carries(t)
  BY DEF Tallied
<1>3. /\ c.owners = Range(o) /\ c.permissions = Masked(o, q)
      /\ c.voter_count = m.voter_count /\ c.threshold = m.threshold
      /\ c.stale_transaction_index = m.stale_transaction_index
  BY <1>1, HoldsReads
<1>4. /\ IsOwner(m, a).found <=> a \in Range(o)
      /\ IsOwner(m, a).index = p
      /\ p \in 0..m.owners_count
      /\ a \in Range(o) => PermissionAt(m, p) = Masked(o, q)[a]
  BY <1>1, <1>3, HoldsFinds
<1>5. /\ m.owners_count \in Nat /\ m.voter_count \in Nat /\ m.threshold \in Nat
      /\ m.threshold <= m.voter_count
  <2>1. m.owners_count \in Nat
    BY <1>1 DEF Holds, Header
  <2> QED BY <1>1, <2>1 DEF Sane
<1>6. p \in Nat
  BY <1>4, <1>5
<1>7. need = IF kind # "rejected" THEN m.threshold ELSE 1 + m.voter_count - m.threshold
  BY <1>3, <1>5 DEF Cutoff
<1>8. /\ a \in Range(o)
      /\ MaskCanVote(PermissionAt(m, p))
      /\ t.status = IF kind = "cancelled" THEN "Approved" ELSE "Active"
      /\ t.index > m.stale_transaction_index
      /\ kind # "cancelled" => ~HasVotedBytes(t, p)
      /\ Settable(t, kind, p)
      /\ UNCHANGED account
  BY <1>4 DEF Vote
<1>9. u = Tested(Cast(t, kind, p), kind, need)
  BY <1>4, <1>7 DEF Vote, Bumped, Sealed, Cast, Tested
<1> HIDE DEF c, need, p, t, u, m
<1>10. a \in Voters(c)
  BY <1>3, <1>4, <1>8 DEF Voters
<1>11. /\ u \in Ballot(n) /\ Counted(u) /\ Carries(u)
       /\ p \notin Marked(t, kind)
       /\ Voted(t, u, kind, p, IF Cardinality(Marked(t, kind) \cup {p}) >= need
                               THEN Latch(kind) ELSE t.status)
  <2>1. TellsOneMore(n, t, Tested(Cast(t, kind, p), kind, need), kind, p, need)
    BY <1>2, <1>6, <1>8, VoteMarks
  <2> QED BY <1>9, <2>1 DEF TellsOneMore
<1>12. Tallied'
  BY <1>11 DEF Tallied, u
<1>13. kind # "cancelled" => \A k \in Kinds : p \notin Marked(t, k)
  BY <1>2, <1>6, <1>8, GetMarked DEF HasVotedBytes, Kinds
<1> QED BY <1>3, <1>8, <1>10, <1>11, <1>12, <1>13 DEF c, p, need, t, u, m

\* The first proposal has nothing to count.
LEMMA TalliedInit == Init => Tallied
<1> SUFFICES ASSUME Init PROVE Tallied
  OBVIOUS
<1>1. PICK g \in Genesis : proposal = NewProposal(1, Len(g.owners))
  BY DEF Init
<1>2. Len(g.owners) \in Nat
  BY PayloadAssumption
<1>3. proposal \in Ballot(Len(g.owners)) /\ Counted(proposal) /\ Carries(proposal)
  BY <1>1, <1>2, NewBallot
<1> QED BY <1>2, <1>3 DEF Tallied

\* What a new proposal is, and who may make it.
LEMMA ProposeTold ==
    ASSUME LaidOut, Tallied, NEW a \in Address, Propose(a)
    PROVE  LET c == ConfigOf(account)
           IN  /\ Tallied'
               /\ HasPermission(c, a, INITIATE)
               /\ ConfigOf(account)' = [c EXCEPT !.transaction_index = @ + 1]
               /\ \A k \in Kinds : Marked(proposal, k)' = {}
               /\ proposal'.status = "Active"
               /\ proposal'.index = c.transaction_index + 1
<1> DEFINE m == account
           c == ConfigOf(m)
           i == m.transaction_index + 1
<1>1. PICK o, q : Holds(m, o, q) /\ Sane(m)
  BY DEF LaidOut
<1>2. /\ c.owners = Range(o) /\ c.permissions = Masked(o, q)
      /\ c.transaction_index = m.transaction_index
  BY <1>1, HoldsReads
<1>3. /\ IsOwner(m, a).found <=> a \in Range(o)
      /\ IsOwner(m, a).index = Position(Range(o), a)
      /\ a \in Range(o) => PermissionAt(m, Position(Range(o), a)) = Masked(o, q)[a]
  BY <1>1, HoldsFinds
<1>4. /\ IsOwner(m, a).found /\ MaskAllows(PermissionAt(m, IsOwner(m, a).index), INITIATE)
      /\ account' = [account EXCEPT !.transaction_index = @ + 1]
      /\ proposal' = NewProposal(i, m.owners_count)
  BY DEF Propose
<1>5. HasPermission(c, a, INITIATE)
  BY <1>2, <1>3, <1>4 DEF HasPermission
<1>6. ConfigOf(account') = [c EXCEPT !.transaction_index = @ + 1]
  BY <1>1, <1>4, IndexHolds
<1>7. i \in Nat /\ m.owners_count \in Nat
  BY <1>1 DEF Holds, Header
<1>8. LET t == NewProposal(i, m.owners_count)
      IN  /\ t \in Ballot(m.owners_count) /\ Counted(t) /\ Carries(t)
          /\ \A k \in Kinds : Marked(t, k) = {}
          /\ t.status = "Active" /\ t.index = i
  BY <1>7, NewBallot
<1>9. /\ proposal' \in Ballot(m.owners_count) /\ Counted(proposal') /\ Carries(proposal')
      /\ \A k \in Kinds : Marked(proposal', k) = {}
      /\ proposal'.status = "Active" /\ proposal'.index = i
  BY <1>4, <1>8
<1>10. Tallied'
  BY <1>7, <1>9 DEF Tallied
<1> QED BY <1>2, <1>5, <1>6, <1>9, <1>10

\* No instruction parts a counter from its bits or runs over the message.
LEMMA TalliedStep == LaidOut /\ Tallied /\ [Next]_vars => Tallied'
<1> SUFFICES ASSUME LaidOut, Tallied, [Next]_vars PROVE Tallied'
  OBVIOUS
<1>1. ASSUME NEW i \in Actions, Reconfigure(i) PROVE UNCHANGED proposal
  BY <1>1 DEF Reconfigure
<1>2. ASSUME NEW a \in Address, Propose(a) PROVE Tallied'
  BY <1>2, ProposeTold
<1>3. ASSUME NEW kind \in Kinds, NEW a \in Address, Vote(kind, a) PROVE Tallied'
  BY <1>3, VoteTold
<1>4. CASE UNCHANGED proposal
  BY <1>4 DEF Tallied
<1> QED BY <1>1, <1>2, <1>3, <1>4 DEF Next, vars, Kinds

\* Whatever votes are cast, each counter of a proposal is the number of bits
\* in its bitmap, and the message behind the bitmaps stays whole.
THEOREM AlwaysTallied == Spec => []Tallied
BY LaidOutInit, LaidOutStep, TalliedInit, TalliedStep, PTL DEF Spec

\* For every size of a bitmap cell and every number of owners, the counters of
\* a proposal are the numbers of bits set in its bitmaps.
THEOREM CountersAlwaysMatch == Spec => []CountersMatchBits
<1>1. Tallied => CountersMatchBits
  BY DEF Tallied, Counted, CountersMatchBits, Kinds
<1> QED BY <1>1, AlwaysTallied, PTL

(***************************************************************************)
(* Records: the operators it takes from Accounts are those used here.      *)
(***************************************************************************)
LEMMA SameCount == \A S : Values!Cardinality(S) = Cardinality(S)
BY DEF Values!Cardinality, Cardinality, Values!IsFiniteSet, IsFiniteSet

\* An owner's position.
LEMMA SamePosition == \A S, a : Values!Position(S, a) = Position(S, a)
BY SameCount DEF Values!Position, Position

\* The test of one permission.
LEMMA SameMask ==
    ASSUME NEW mask, NEW permission
    PROVE  Values!MaskAllows(mask, permission) <=> MaskAllows(mask, permission)
BY DEF Values!MaskAllows, MaskAllows

\* The test for a voter.
LEMMA SameCanVote ==
    ASSUME NEW mask
    PROVE  Values!MaskCanVote(mask) <=> MaskCanVote(mask)
BY SameMask DEF Values!MaskCanVote, MaskCanVote, Values!VOTE, VOTE

\* The voters.
LEMMA SameVoters == \A c : Values!Voters(c) = Voters(c)
BY SameCanVote DEF Values!Voters, Voters

\* Who may initiate.
LEMMA SameHasPermission ==
    ASSUME NEW c, NEW a
    PROVE  Values!HasPermission(c, a, Values!INITIATE) <=> HasPermission(c, a, INITIATE)
BY SameMask DEF Values!HasPermission, HasPermission, Values!INITIATE, INITIATE

\* The rejections that settle.
LEMMA SameCutoff == \A c : Values!Cutoff(c) = Cutoff(c)
BY DEF Values!Cutoff, Cutoff

\* The configurations.
LEMMA SameConfig == Values!Config = Config
BY DEF Values!Config, Config, Values!Masks, Masks, Values!ALL, ALL

\* The header check.
LEMMA SameInvariant ==
    ASSUME NEW c
    PROVE  Values!MultisigInvariant(c) <=> MultisigInvariant(c)
BY SameCount DEF Values!MultisigInvariant, MultisigInvariant, Values!OwnersCount, OwnersCount

\* The end of every action.
LEMMA SameSettled == \A c : Values!Settled(c) = Settled(c)
<1> SUFFICES ASSUME NEW c PROVE Values!Settled(c) = Settled(c)
  OBVIOUS
<1>1. Values!Invalidate(c) = Invalidate(c)
  BY DEF Values!Invalidate, Invalidate
<1>2. Values!MultisigInvariant(Invalidate(c)) <=> MultisigInvariant(Invalidate(c))
  BY SameInvariant
<1> QED BY <1>1, <1>2 DEF Values!Settled, Settled

\* The actions modelled here.
LEMMA SameAction ==
    ASSUME NEW c, NEW i \in Actions
    PROVE  Values!ApplyConfigAction(c, i) = ApplyConfigAction(c, i)
<1> DEFINE a == i.address
           x == i.value
<1>1. i.tag \in {"AddOwner", "RemoveOwner", "SetPermission", "ChangeThreshold"}
  BY PayloadAssumption
<1>2. Values!AddOwner(c, a) = AddOwner(c, a)
  <2> DEFINE d == [c EXCEPT !.owners = @ \cup {a}, !.permissions[a] = 0, !.voter_count = @ + 1]
  <2>1. Values!AddOwner(c, a) =
            IF a \in c.owners \/ Values!OwnersCount(c) >= MAX_OWNER THEN Err ELSE Values!Settled(d)
    BY DEF Values!AddOwner
  <2>2. AddOwner(c, a) = IF a \in c.owners \/ OwnersCount(c) >= MAX_OWNER THEN Err ELSE Settled(d)
    BY DEF AddOwner
  <2> HIDE DEF d
  <2>3. Values!OwnersCount(c) = OwnersCount(c)
    BY SameCount DEF Values!OwnersCount, OwnersCount
  <2> QED BY <2>1, <2>2, <2>3, SameSettled
<1>3. Values!RemoveOwner(c, a) = RemoveOwner(c, a)
  <2> DEFINE New(b) == [c EXCEPT !.owners = @ \ {a}, !.permissions[a] = 0,
                                 !.voter_count = IF b THEN @ - 1 ELSE @]
             d == New(MaskCanVote(c.permissions[a]))
             e == New(Values!MaskCanVote(c.permissions[a]))
  <2>1. d = e
    <3>1. CASE MaskCanVote(c.permissions[a])
      BY <3>1, SameCanVote
    <3>2. CASE ~MaskCanVote(c.permissions[a])
      BY <3>2, SameCanVote
    <3> QED BY <3>1, <3>2
  <2>2. Values!RemoveOwner(c, a) = IF a \notin c.owners THEN Err ELSE Values!Settled(e)
    BY DEF Values!RemoveOwner
  <2>3. RemoveOwner(c, a) = IF a \notin c.owners THEN Err ELSE Settled(d)
    BY DEF RemoveOwner
  <2> HIDE DEF d, e
  <2> QED BY <2>1, <2>2, <2>3, SameSettled
<1>4. Values!SetPermission(c, a, x) = SetPermission(c, a, x)
  <2> DEFINE New(b, s) == [c EXCEPT !.permissions[a] = x,
                                    !.voter_count = CASE ~b /\ s -> @ + 1
                                                      [] b /\ ~s -> @ - 1
                                                      [] OTHER -> @]
             d == New(MaskCanVote(c.permissions[a]), MaskCanVote(x))
             e == New(Values!MaskCanVote(c.permissions[a]), Values!MaskCanVote(x))
  <2>1. d = e
    <3>1. Values!MaskCanVote(c.permissions[a]) <=> MaskCanVote(c.permissions[a])
      BY SameCanVote
    <3>2. Values!MaskCanVote(x) <=> MaskCanVote(x)
      BY SameCanVote
    <3> QED BY <3>1, <3>2
  <2>2. Values!SetPermission(c, a, x) =
            IF x > Values!ALL \/ a \notin c.owners THEN Err ELSE Values!Settled(e)
    BY DEF Values!SetPermission
  <2>3. SetPermission(c, a, x) = IF x > ALL \/ a \notin c.owners THEN Err ELSE Settled(d)
    BY DEF SetPermission
  <2> HIDE DEF d, e
  <2>4. Values!ALL = ALL
    BY DEF Values!ALL, ALL
  <2> QED BY <2>1, <2>2, <2>3, <2>4, SameSettled
<1>5. CASE i.tag = "AddOwner"
  BY <1>2, <1>5 DEF Values!ApplyConfigAction, ApplyConfigAction
<1>6. CASE i.tag = "RemoveOwner"
  BY <1>3, <1>6 DEF Values!ApplyConfigAction, ApplyConfigAction
<1>7. CASE i.tag = "SetPermission"
  BY <1>4, <1>7 DEF Values!ApplyConfigAction, ApplyConfigAction
<1>8. CASE i.tag = "ChangeThreshold"
  <2> DEFINE d == [c EXCEPT !.threshold = x]
  <2>1. Values!ApplyConfigAction(c, i) = Values!Settled(d) /\ ApplyConfigAction(c, i) = Settled(d)
    BY <1>8 DEF Values!ApplyConfigAction, ApplyConfigAction
  <2> HIDE DEF d
  <2> QED BY <2>1, SameSettled
<1> QED BY <1>1, <1>5, <1>6, <1>7, <1>8

(***************************************************************************)
(* Every step on the bytes is a step of Records on their values.           *)
(***************************************************************************)
LEMMA HoldsConfig ==
    ASSUME NEW m, NEW o, NEW q, Holds(m, o, q), Sane(m)
    PROVE  ConfigOf(m) \in Config /\ MultisigInvariant(ConfigOf(m))
<1> DEFINE c == ConfigOf(m)
           n == m.owners_count
<1>1. /\ n \in Nat /\ m.transaction_index \in Nat /\ m.stale_transaction_index \in Nat
      /\ m.threshold \in Nat /\ m.voter_count \in Nat
  <2>1. n \in Nat /\ m.transaction_index \in Nat /\ m.stale_transaction_index \in Nat
        /\ m.threshold \in Nat
    BY DEF Holds, Header
  <2> QED BY <2>1 DEF Sane
<1>2. /\ o \in [0..(n - 1) -> Address] /\ q \in [0..(n - 1) -> Masks] /\ Ascends(o, n)
      /\ OwnersCount(c) = n
  BY HoldsReads
<1>3. c = Valued(m.transaction_index, m.stale_transaction_index,
                 Range(o), Masked(o, q), m.voter_count, m.threshold)
  BY HoldsValued
<1> HIDE DEF c
<1>4. Masked(o, q) \in [Address -> Masks] /\ DEFAULT \in Address /\ Range(o) \in SUBSET Address
  BY <1>1, <1>2, MaskedReads, PositionAt, AddressAssumption
<1>5. c \in Config
  BY <1>1, <1>3, <1>4 DEF Valued, Config
<1>6. /\ c.voter_count = m.voter_count /\ c.threshold = m.threshold
      /\ c.stale_transaction_index = m.stale_transaction_index
      /\ c.transaction_index = m.transaction_index
      /\ c.closed_transaction_count = 0 /\ c.time_lock = 0
  BY <1>3 DEF Valued
<1>7. 0 <= MAX_TIME_LOCK /\ 0 <= m.transaction_index
  BY <1>1, OwnerLimitAssumption
<1>8. MultisigInvariant(c)
  BY <1>2, <1>6, <1>7 DEF MultisigInvariant, Sane
<1> QED BY <1>5, <1>8 DEF c

\* The value a proposal stands for, field by field.
LEMMA VotesRead ==
    ASSUME NEW n \in Nat, NEW t \in Ballot(n), Carries(t)
    PROVE  VotesOf(t) = [approved |-> Marked(t, "approved"), rejected |-> Marked(t, "rejected"),
                         cancelled |-> Marked(t, "cancelled"), status |-> t.status,
                         index |-> t.index,
                         message |-> [k \in 1..Len(Message) |-> Message[k]]]
<1>1. t.owners_count = n /\ t.message_len = Len(Message)
  BY DEF Ballot
<1> DEFINE f == [k \in 1..t.message_len |-> t.tail[3 * LenFor(t.owners_count) + k - 1]]
<1>2. f = [k \in 1..Len(Message) |-> Message[k]]
  BY <1>1 DEF Carries
<1> HIDE DEF f
<1> QED BY <1>2 DEF VotesOf, f

\* The accounts as first written stand for an initial state of Records.
LEMMA RecordsInit == Init => Values!Init
<1> SUFFICES ASSUME Init PROVE Values!Init
  OBVIOUS
<1>1. PICK g \in Genesis : account = NewAccount(g) /\ proposal = NewProposal(1, Len(g.owners))
  BY DEF Init
<1> DEFINE n == Len(g.owners)
           o == [k \in 0..(n - 1) |-> g.owners[k + 1]]
           q == [k \in 0..(n - 1) |-> 0]
           c == ConfigOf(account)
           v == VotesOf(proposal)
<1>2. Holds(account, o, q) /\ Sane(account)
  BY <1>1, NewHolds
<1>3. account.owners_count = n /\ account.voter_count = n /\ n \in Nat
  BY <1>1, PayloadAssumption DEF NewAccount
<1>4. \A k \in 0..(n - 1) : q[k] = 0
  OBVIOUS
<1> HIDE DEF o, q
<1>5. c \in Config /\ MultisigInvariant(c)
  BY <1>2, HoldsConfig
<1>6. /\ o \in [0..(n - 1) -> Address] /\ q \in [0..(n - 1) -> Masks] /\ Ascends(o, n)
      /\ c.owners = Range(o) /\ c.permissions = Masked(o, q) /\ OwnersCount(c) = n
      /\ c.voter_count = n
  BY <1>2, <1>3, HoldsReads
<1> HIDE DEF c
<1>7. Voters(c) = c.owners
  <2>1. ASSUME NEW a \in Range(o) PROVE MaskCanVote(Masked(o, q)[a])
    <3>1. PICK k \in 0..(n - 1) : a = o[k]
      BY <1>6 DEF Range
    <3>2. Masked(o, q)[a] = q[k]
      BY <1>3, <1>6, <3>1, MaskedReads
    <3> QED BY <1>4, <3>2 DEF MaskCanVote, MaskAllows
  <2> QED BY <1>6, <2>1 DEF Voters
<1>8. c.voter_count = Cardinality(Voters(c))
  BY <1>6, <1>7 DEF OwnersCount
<1>9. Values!Fresh(v)
  <2>1. /\ proposal \in Ballot(n) /\ Carries(proposal) /\ proposal.status = "Active"
        /\ \A k \in Kinds : Marked(proposal, k) = {}
    BY <1>1, <1>3, NewBallot
  <2>2. v = [approved |-> Marked(proposal, "approved"), rejected |-> Marked(proposal, "rejected"),
             cancelled |-> Marked(proposal, "cancelled"), status |-> proposal.status,
             index |-> proposal.index,
             message |-> [k \in 1..Len(Message) |-> Message[k]]]
    BY <1>3, <2>1, VotesRead
  <2> HIDE DEF v
  <2>3. v.approved = {} /\ v.rejected = {} /\ v.cancelled = {} /\ v.status = "Active"
    BY <2>1, <2>2 DEF Kinds
  <2> QED BY <2>3 DEF Values!Fresh
<1> QED BY <1>5, <1>8, <1>9, SameConfig, SameInvariant, SameVoters, SameCount
        DEF Values!Init, c

\* A config action on the bytes is one on the values.
LEMMA RecordsReconfigure ==
    ASSUME LaidOut, NEW i \in Actions, Reconfigure(i)
    PROVE  Values!Reconfigure
<1> DEFINE c == ConfigOf(account)
           d == ApplyConfigAction(c, i)
<1>1. PICK o, q : Holds(account, o, q)
  BY DEF LaidOut
<1>2. Agree(ApplyBytes(account, i), d)
  BY <1>1, ActionAgrees
<1>3. account' = ApplyBytes(account, i) /\ account' # Err /\ UNCHANGED proposal
  BY DEF Reconfigure
<1>4. ConfigOf(account') = d /\ d # Err
  <2> HIDE DEF d
  <2> QED BY <1>2, <1>3 DEF Agree
<1>5. Values!ApplyConfigAction(c, i) = d
  BY SameAction
<1>6. d \in Values!Outcomes(c)
  BY <1>5 DEF Values!Outcomes
<1>7. VotesOf(proposal') = VotesOf(proposal)
  BY <1>3
<1> HIDE DEF d
<1> QED BY <1>4, <1>6, <1>7 DEF Values!Reconfigure

\* A new proposal on the bytes is one on the values.
LEMMA RecordsPropose ==
    ASSUME LaidOut, Tallied, NEW a \in Address, Propose(a)
    PROVE  Values!Propose(a)
<1> DEFINE c == ConfigOf(account)
           t == proposal
           u == proposal'
<1>1. /\ Tallied'
      /\ HasPermission(c, a, INITIATE)
      /\ ConfigOf(account') = [c EXCEPT !.transaction_index = @ + 1]
      /\ \A k \in Kinds : Marked(u, k) = {}
      /\ u.status = "Active"
      /\ u.index = c.transaction_index + 1
  BY ProposeTold
<1>2. PICK n \in Nat : t \in Ballot(n) /\ Carries(t)
  BY DEF Tallied
<1>3. PICK l \in Nat : u \in Ballot(l) /\ Carries(u)
  BY <1>1 DEF Tallied
<1> DEFINE f == [k \in 1..Len(Message) |-> Message[k]]
           v == VotesOf(t)
           w == VotesOf(u)
<1>4. v = [approved |-> Marked(t, "approved"), rejected |-> Marked(t, "rejected"),
           cancelled |-> Marked(t, "cancelled"), status |-> t.status,
           index |-> t.index, message |-> f]
  BY <1>2, VotesRead
<1>5. w = [approved |-> Marked(u, "approved"), rejected |-> Marked(u, "rejected"),
           cancelled |-> Marked(u, "cancelled"), status |-> u.status,
           index |-> u.index, message |-> f]
  BY <1>3, VotesRead
<1> HIDE DEF f, v, w, c
<1>6. w.approved = {} /\ w.rejected = {} /\ w.cancelled = {} /\ w.status = "Active"
      /\ w.message = v.message /\ w.index = c.transaction_index + 1
  BY <1>1, <1>4, <1>5 DEF Kinds
<1>7. Values!Fresh(w)
  BY <1>6 DEF Values!Fresh
<1>8. c.transaction_index \in Nat /\ c \in Config
  <2>1. PICK o, q : Holds(account, o, q) /\ Sane(account)
    BY DEF LaidOut
  <2>2. c \in Config
    BY <2>1, HoldsConfig DEF c
  <2> QED BY <2>2 DEF Config
<1>9. ConfigOf(account').transaction_index = c.transaction_index + 1
  BY <1>1, <1>8 DEF Config
<1> QED BY <1>1, <1>6, <1>7, <1>9, SameHasPermission DEF Values!Propose, c, v, w

\* A vote on the bytes is a vote on the values.
LEMMA RecordsVote ==
    ASSUME LaidOut, Tallied, NEW kind \in Kinds, NEW a \in Address, Vote(kind, a)
    PROVE  Values!Vote(kind, a)
<1> DEFINE c == ConfigOf(account)
           p == Position(c.owners, a)
           need == IF kind = "rejected" THEN Cutoff(c) ELSE c.threshold
           t == proposal
           u == proposal'
           now == Marked(t, kind) \cup {p}
           st == IF Cardinality(now) >= need THEN Latch(kind) ELSE t.status
           f == [k \in 1..Len(Message) |-> Message[k]]
           v == VotesOf(t)
           w == VotesOf(u)
<1>1. /\ Tallied'
      /\ UNCHANGED account
      /\ a \in Voters(c)
      /\ t.status = IF kind = "cancelled" THEN "Approved" ELSE "Active"
      /\ t.index > c.stale_transaction_index
      /\ p \notin Marked(t, kind)
      /\ kind # "cancelled" => \A k \in Kinds : p \notin Marked(t, k)
      /\ Voted(t, u, kind, p, st)
  BY VoteTold
<1>2. PICK n \in Nat : t \in Ballot(n) /\ Carries(t)
  BY DEF Tallied
<1>3. PICK l \in Nat : u \in Ballot(l) /\ Carries(u)
  BY <1>1 DEF Tallied
<1>4. v = [approved |-> Marked(t, "approved"), rejected |-> Marked(t, "rejected"),
           cancelled |-> Marked(t, "cancelled"), status |-> t.status,
           index |-> t.index, message |-> f]
  BY <1>2, VotesRead
<1>5. w = [approved |-> Marked(u, "approved"), rejected |-> Marked(u, "rejected"),
           cancelled |-> Marked(u, "cancelled"), status |-> u.status,
           index |-> u.index, message |-> f]
  BY <1>3, VotesRead
<1> HIDE DEF f, v, w, c, p, need, t, u, st
<1>6. /\ u.index = t.index /\ u.status = st
      /\ \A k \in Kinds : Marked(u, k) = IF k = kind THEN now ELSE Marked(t, k)
  BY <1>1 DEF Voted
<1> HIDE DEF now
<1>7. w = [v EXCEPT ![kind] = now, !.status = st]
  <2>1. CASE kind = "approved"
    <3>1. w = [approved |-> now, rejected |-> Marked(t, "rejected"),
               cancelled |-> Marked(t, "cancelled"), status |-> st,
               index |-> t.index, message |-> f]
      BY <1>5, <1>6, <2>1 DEF Kinds
    <3> DEFINE x == [v EXCEPT ![kind] = now]
    <3>2. x = [approved |-> now, rejected |-> Marked(t, "rejected"),
               cancelled |-> Marked(t, "cancelled"), status |-> t.status,
               index |-> t.index, message |-> f]
      BY <1>4, <2>1
    <3>3. [v EXCEPT ![kind] = now, !.status = st] = [x EXCEPT !.status = st]
      OBVIOUS
    <3> HIDE DEF x
    <3>4. [x EXCEPT !.status = st] = w
      BY <3>1, <3>2
    <3> QED BY <3>3, <3>4
  <2>2. CASE kind = "rejected"
    <3>1. w = [approved |-> Marked(t, "approved"), rejected |-> now,
               cancelled |-> Marked(t, "cancelled"), status |-> st,
               index |-> t.index, message |-> f]
      BY <1>5, <1>6, <2>2 DEF Kinds
    <3> DEFINE x == [v EXCEPT ![kind] = now]
    <3>2. x = [approved |-> Marked(t, "approved"), rejected |-> now,
               cancelled |-> Marked(t, "cancelled"), status |-> t.status,
               index |-> t.index, message |-> f]
      BY <1>4, <2>2
    <3>3. [v EXCEPT ![kind] = now, !.status = st] = [x EXCEPT !.status = st]
      OBVIOUS
    <3> HIDE DEF x
    <3>4. [x EXCEPT !.status = st] = w
      BY <3>1, <3>2
    <3> QED BY <3>3, <3>4
  <2>3. CASE kind = "cancelled"
    <3>1. w = [approved |-> Marked(t, "approved"), rejected |-> Marked(t, "rejected"),
               cancelled |-> now, status |-> st,
               index |-> t.index, message |-> f]
      BY <1>5, <1>6, <2>3 DEF Kinds
    <3> DEFINE x == [v EXCEPT ![kind] = now]
    <3>2. x = [approved |-> Marked(t, "approved"), rejected |-> Marked(t, "rejected"),
               cancelled |-> now, status |-> t.status,
               index |-> t.index, message |-> f]
      BY <1>4, <2>3
    <3>3. [v EXCEPT ![kind] = now, !.status = st] = [x EXCEPT !.status = st]
      OBVIOUS
    <3> HIDE DEF x
    <3>4. [x EXCEPT !.status = st] = w
      BY <3>1, <3>2
    <3> QED BY <3>3, <3>4
  <2> QED BY <2>1, <2>2, <2>3 DEF Kinds
<1>8. /\ v.status = t.status /\ v.index = t.index
      /\ v[kind] = Marked(t, kind)
      /\ v.approved = Marked(t, "approved") /\ v.rejected = Marked(t, "rejected")
      /\ v.cancelled = Marked(t, "cancelled")
  BY <1>4 DEF Kinds
<1>9. IF kind = "cancelled" THEN p \notin v.cancelled ELSE ~Values!HasVoted(v, p)
  BY <1>1, <1>8 DEF Values!HasVoted, Kinds
<1>10. Values!Latched[kind] = Latch(kind)
  BY DEF Values!Latched, Latch, Kinds
<1>11. st = IF Values!Cardinality(now) >= need THEN Values!Latched[kind] ELSE v.status
  BY <1>8, <1>10, SameCount DEF st
<1>12. /\ Values!Position(c.owners, a) = p /\ Values!Cutoff(c) = Cutoff(c)
       /\ Values!Voters(c) = Voters(c)
  BY SamePosition, SameCutoff, SameVoters DEF p
<1>13. /\ v.status = IF kind = "cancelled" THEN "Approved" ELSE "Active"
       /\ v.index > c.stale_transaction_index
       /\ a \in Values!Voters(c)
       /\ now = v[kind] \cup {p}
       /\ ConfigOf(account') = c
  BY <1>1, <1>8, <1>12 DEF now, c
<1> QED BY <1>7, <1>9, <1>11, <1>12, <1>13 DEF Values!Vote, c, v, w, t, u, need

\* So is every step.
LEMMA RecordsStep ==
    ASSUME LaidOut, Tallied, [Next]_vars
    PROVE  Values!Next \/ (UNCHANGED <<ConfigOf(account), VotesOf(proposal)>>)
<1>1. ASSUME NEW i \in Actions, Reconfigure(i) PROVE Values!Next
  BY <1>1, RecordsReconfigure DEF Values!Next
<1>2. ASSUME NEW a \in Address, Propose(a) PROVE Values!Next
  BY <1>2, RecordsPropose DEF Values!Next
<1>3. ASSUME NEW kind \in Kinds, NEW a \in Address, Vote(kind, a) PROVE Values!Next
  <2>1. Values!Vote(kind, a)
    BY <1>3, RecordsVote
  <2>2. kind \in DOMAIN Values!Latched
    BY DEF Values!Latched, Kinds
  <2> QED BY <2>1, <2>2 DEF Values!Next
<1>4. CASE UNCHANGED vars
  BY <1>4 DEF vars
<1> QED BY <1>1, <1>2, <1>3, <1>4 DEF Next, Kinds

\* The accounts as the program stores them implement the accounts as values,
\* for every width of an address, size of a bitmap cell and number of owners:
\* every handler on the bytes does what its namesake does to an owner set with
\* masks and to the sets of positions that voted.
THEOREM BytesImplementRecords == Spec => ImplementsRecords
<1>1. LaidOut /\ Tallied /\ [Next]_vars => [Values!Next]_<<ConfigOf(account), VotesOf(proposal)>>
  BY RecordsStep
<1> QED BY <1>1, RecordsInit, AlwaysLaidOut, AlwaysTallied, PTL
        DEF Spec, ImplementsRecords, Values!Spec
=============================================================================
