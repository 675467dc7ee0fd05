----------------------------- MODULE PolicyProofs -----------------------------
(***************************************************************************)
(* What a left fold computes, and with it what the decision rule promises: *)
(* for every grid of confidence levels, every bound that a fit may give    *)
(* and every delta, an answer is served within its error budget.           *)
(***************************************************************************)
EXTENDS Policy, TLAPS, FiniteSetTheorems, SequenceTheorems, WellFoundedInduction

\* Induction up to a number, for a set of numbers: among the intervals it does not reach
\* one would be smallest.
LEMMA StepsReach ==
  ASSUME NEW n \in Nat, NEW G, 0 \in G, \A m \in 0 .. n - 1 : m \in G => m + 1 \in G
  PROVE  0 .. n \subseteq G
<1> DEFINE Bad == {u \in SUBSET (1 .. n) : \E m \in 0 .. n : u = 1 .. m /\ m \notin G}
<1>1. IsFiniteSet(1 .. n)
  BY FS_Interval
<1>2. Bad \subseteq FiniteSubsetsOf(1 .. n)
  BY <1>1, FS_FiniteSubsetsOfFinite
<1>3. ASSUME NEW m \in 0 .. n, m \notin G PROVE FALSE
  <2>1. 1 .. m \in Bad
    BY <1>3
  <2> HIDE DEF Bad
  <2>2. PICK u \in Bad : \A y \in Bad : ~(<<y, u>> \in StrictSubsetOrdering(1 .. n))
    BY <1>1, <1>2, <2>1, FS_StrictSubsetOrderingWellFounded, WFMin
  <2>3. PICK k \in 0 .. n : u = 1 .. k /\ k \notin G
    BY <2>2 DEF Bad
  <2>4. k # 0 /\ k - 1 \in 0 .. n - 1
    BY <2>3
  <2>5. k - 1 \notin G
    BY <2>3, <2>4
  <2>6. 1 .. k - 1 \in Bad
    BY <2>4, <2>5 DEF Bad
  <2>7. 1 .. k - 1 \subseteq 1 .. k /\ k \in 1 .. k /\ k \notin 1 .. k - 1
    BY <2>4
  <2>8. 1 .. k - 1 \in FiniteSubsetsOf(1 .. n) /\ 1 .. k \in FiniteSubsetsOf(1 .. n)
    BY <1>2, <2>2, <2>3, <2>6
  <2>9. <<1 .. k - 1, 1 .. k>> \in StrictSubsetOrdering(1 .. n)
    BY <2>7, <2>8 DEF StrictSubsetOrdering, FiniteSubsetsOf
  <2> QED
    BY <2>2, <2>3, <2>6, <2>9
<1> QED
  BY <1>3

\* The greatest number of an interval.
LEMMA MaxOfInterval ==
  ASSUME NEW m \in Nat \ {0}, NEW s \in SUBSET (1 .. m), m \in s
  PROVE  Max(s) = m
<1>1. \A y \in s : y \in Nat /\ m >= y
  OBVIOUS
<1>2. Max(s) \in s /\ \A y \in s : Max(s) >= y
  BY <1>1 DEF Max
<1>3. PICK x \in s : x = Max(s) /\ \A y \in s : x >= y
  BY <1>2
<1>4. x \in Nat /\ m >= x /\ x >= m /\ m \in Nat
  BY <1>1, <1>3
<1>5. x = m
  BY <1>4
<1> QED
  BY <1>3, <1>5

\* Every set of numbers up to n has one.
LEMMA MaxInside ==
  ASSUME NEW n \in Nat, NEW s \in SUBSET (1 .. n), s # {}
  PROVE  Max(s) \in s
<1> DEFINE G == {m \in 0 .. n : \A t \in SUBSET (1 .. m) : t # {} => Max(t) \in t}
<1>1. 0 \in G
  <2>1. \A t \in SUBSET (1 .. 0) : t = {}
    OBVIOUS
  <2>2. \A t \in SUBSET (1 .. 0) : t # {} => Max(t) \in t
    BY <2>1
  <2>3. 0 \in 0 .. n
    OBVIOUS
  <2> QED
    BY <2>2, <2>3
<1>2. ASSUME NEW m \in 0 .. n - 1, m \in G
      PROVE  m + 1 \in G
  <2>1. ASSUME NEW t \in SUBSET (1 .. m + 1), t # {}
        PROVE  Max(t) \in t
    <3>1. CASE m + 1 \in t
      BY <3>1, MaxOfInterval
    <3>2. CASE m + 1 \notin t
      <4>1. t \in SUBSET (1 .. m)
        BY <3>2
      <4> QED
        BY <1>2, <2>1, <4>1
    <3> QED
      BY <3>1, <3>2
  <2> QED
    BY <2>1
<1> HIDE DEF G
<1>3. 0 .. n \subseteq G
  BY <1>1, <1>2, StepsReach
<1> QED
  BY <1>3 DEF G

\* A left fold over the numbers up to n, with its step st as a function.
IsFold(f, n, base, st) ==
  f = [s \in SUBSET (1 .. n) |-> IF s = {} THEN base ELSE st[<<Max(s), f[s \ {Max(s)}]>>]]

\* There is one.
LEMMA FoldExists ==
  ASSUME NEW n \in Nat, NEW V, NEW base \in V, NEW st \in [(1 .. n) \X V -> V]
  PROVE  \E f : f \in [SUBSET (1 .. n) -> V] /\ IsFold(f, n, base, st)
<1> DEFINE Step(f, s) == IF s = {} THEN base ELSE st[<<Max(s), f[s \ {Max(s)}]>>]
           Reached(m) == \E f \in [SUBSET (1 .. m) -> V] : \A s \in SUBSET (1 .. m) : f[s] = Step(f, s)
           G == {m \in 0 .. n : Reached(m)}
<1>1. 0 \in G
  <2>1. SUBSET (1 .. 0) = {{}}
    OBVIOUS
  <2> DEFINE z == [s \in SUBSET (1 .. 0) |-> base]
  <2>2. z \in [SUBSET (1 .. 0) -> V]
    OBVIOUS
  <2>3. \A s \in SUBSET (1 .. 0) : z[s] = Step(z, s)
    BY <2>1
  <2> HIDE DEF z
  <2>4. Reached(0)
    BY <2>2, <2>3
  <2> HIDE DEF Reached
  <2> QED
    BY <2>4
<1>2. ASSUME NEW m \in 0 .. n - 1, m \in G
      PROVE  m + 1 \in G
  <2>1. PICK f \in [SUBSET (1 .. m) -> V] : \A s \in SUBSET (1 .. m) : f[s] = Step(f, s)
    BY <1>2
  <2>2. PICK j \in 1 .. n : j = m + 1
    OBVIOUS
  <2> DEFINE g == [s \in SUBSET (1 .. j) |-> IF j \in s THEN st[<<j, f[s \ {j}]>>] ELSE f[s]]
  <2>3. \A s \in SUBSET (1 .. j) : /\ s \ {j} \in SUBSET (1 .. m)
                                   /\ j \notin s => s \in SUBSET (1 .. m)
    BY <2>2
  <2>4. g \in [SUBSET (1 .. j) -> V]
    BY <2>3
  <2>5. ASSUME NEW s \in SUBSET (1 .. j) PROVE g[s] = Step(g, s)
    <3>1. CASE j \in s
      <4>1. Max(s) = j
        BY <3>1, MaxOfInterval
      <4>2. g[s \ {j}] = f[s \ {j}]
        OBVIOUS
      <4>3. g[s] = st[<<j, f[s \ {j}]>>]
        BY <3>1
      <4> HIDE DEF g
      <4> QED
        BY <3>1, <4>1, <4>2, <4>3
    <3>2. CASE j \notin s
      <4>1. s \in SUBSET (1 .. m) /\ g[s] = f[s]
        BY <2>3, <3>2
      <4>2. g[s \ {Max(s)}] = f[s \ {Max(s)}]
        BY <3>2, <4>1
      <4> HIDE DEF g
      <4> QED
        BY <2>1, <4>1, <4>2
    <3> QED
      BY <3>1, <3>2
  <2> HIDE DEF g
  <2>6. Reached(j)
    BY <2>4, <2>5
  <2> HIDE DEF Reached
  <2>7. j \in G
    BY <2>6
  <2> QED
    BY <2>2, <2>7
<1> HIDE DEF G
<1>3. 0 .. n \subseteq G
  BY <1>1, <1>2, StepsReach
<1>4. n \in G
  BY <1>3
<1>5. PICK f \in [SUBSET (1 .. n) -> V] : \A s \in SUBSET (1 .. n) : f[s] = Step(f, s)
  BY <1>4 DEF G
<1>6. f = [s \in SUBSET (1 .. n) |-> Step(f, s)]
  BY <1>5
<1> QED
  BY <1>6 DEF IsFold

-----------------------------------------------------------------------------
\* Numbers proper, of the fractions.
Proper == {x \in Int \X Nat : x[2] # 0}

\* Products and comparisons.
LEMMA Times ==
  ASSUME NEW a \in Int, NEW b \in Int, NEW c \in Nat \ {0}
  PROVE  a * c \in Int /\ b * c \in Int /\ (a < b <=> a * c < b * c)
<1>1. a * c \in Int /\ b * c \in Int
  OBVIOUS
<1>2. a < b => a * c < b * c
  OBVIOUS
<1>3. b < a => b * c < a * c
  OBVIOUS
<1>4. a = b => a * c = b * c
  OBVIOUS
<1> QED
  BY <1>1, <1>2, <1>3, <1>4

\* What is less than the least is less.
LEMMA LessThrough ==
  ASSUME NEW x \in Proper, NEW y \in Proper, NEW z \in Proper, Less(x, y), ~Less(z, y)
  PROVE  Less(x, z)
<1>1. PICK a \in Int, b \in Nat \ {0}, c \in Int, d \in Nat \ {0}, e \in Int, f \in Nat \ {0} :
        a = x[1] /\ b = x[2] /\ c = y[1] /\ d = y[2] /\ e = z[1] /\ f = z[2]
  BY DEF Proper
<1>2. a * d < c * b /\ ~(e * d < c * f)
  BY <1>1 DEF Less
<1>3. (a * d) * f < (c * b) * f
  <2>1. a * d \in Int /\ c * b \in Int
    OBVIOUS
  <2> QED
    BY <1>2, <2>1, Times
<1>4. ~((e * d) * b < (c * f) * b)
  <2>1. e * d \in Int /\ c * f \in Int
    OBVIOUS
  <2> QED
    BY <1>2, <2>1, Times
<1>5. /\ (a * d) * f = (a * f) * d /\ (e * d) * b = (e * b) * d /\ (c * f) * b = (c * b) * f
      /\ a * f \in Int /\ e * b \in Int /\ (a * f) * d \in Int /\ (e * b) * d \in Int /\ (c * b) * f \in Int
  OBVIOUS
<1>6. (a * f) * d < (e * b) * d
  BY <1>3, <1>4, <1>5
<1>7. a * f < e * b
  BY <1>5, <1>6, Times
<1> QED
  BY <1>1, <1>7 DEF Less

\* How NaN and infinity compare.
LEMMA Limits ==
  /\ \A x : ~Less(NaN, x) \/ ~(x \in Proper \cup {Inf, NaN})
  /\ \A x \in Proper : Less(x, Inf) /\ x # NaN /\ x # Inf
  /\ ~Less(Inf, Inf) /\ NaN # Inf
<1>1. ASSUME NEW x \in Proper \cup {Inf, NaN} PROVE ~Less(NaN, x)
  BY DEF Proper, Less, NaN, Inf
<1>2. ASSUME NEW x \in Proper PROVE Less(x, Inf) /\ x # NaN /\ x # Inf
  BY DEF Proper, Less, NaN, Inf
<1>3. ~Less(Inf, Inf) /\ NaN # Inf
  BY DEF Less, NaN, Inf
<1> QED
  BY <1>1, <1>2, <1>3

\* The search of tauHat finds a least of the grid's taus that are numbers, and without
\* one it stays at +Inf.
LEMMA TauHatIsLeast ==
  ASSUME NEW alpha, NEW delta, NEW t \in [Grid -> Proper \cup {NaN}],
         \A k \in Grid : t[k] = Tau(alpha[k], delta)
  PROVE  \E r : /\ TauHat(alpha, delta) = Clamp(r)
                /\ r = Inf \/ (r \in Proper /\ \E k \in Grid : r = t[k])
                /\ \A k \in Grid : ~Less(t[k], r)
<1> DEFINE seq == [k \in Grid |-> Tau(alpha[k], delta)]
           Folds(f) == f = [s \in SUBSET DOMAIN seq |->
                              IF s = {} THEN Inf ELSE Smaller(f[s \ {Max(s)}], seq[Max(s)])]
           V == Proper \cup {Inf, NaN}
<1>1. TauHat(alpha, delta) = Clamp((CHOOSE f : Folds(f))[DOMAIN seq])
  BY DEF TauHat, FoldLeft, MapThenFoldSet
<1>2. PICK n \in Nat : n = GridSize
  BY PolicyAssumption
<1>3. DOMAIN seq = 1 .. n /\ Grid = 1 .. n /\ \A k \in 1 .. n : seq[k] = t[k]
  BY <1>2 DEF Grid
<1> DEFINE st == [p \in (1 .. n) \X V |-> Smaller(p[2], t[p[1]])]
<1>4. st \in [(1 .. n) \X V -> V]
  BY <1>3 DEF Smaller
<1>5. \A i \in 1 .. n, b \in V : st[<<i, b>>] = Smaller(b, t[i])
  OBVIOUS
<1>6. Inf \in V
  OBVIOUS
<1> HIDE DEF st, seq
<1>7. PICK g : g \in [SUBSET (1 .. n) -> V] /\ IsFold(g, n, Inf, st)
  <2> HIDE DEF V
  <2> QED
    BY <1>4, <1>6, FoldExists
<1>8. Folds(g)
  <2>1. \A s \in SUBSET (1 .. n) : s # {} => Max(s) \in 1 .. n /\ g[s \ {Max(s)}] \in V
    BY <1>7, MaxInside
  <2>2. g = [s \in SUBSET (1 .. n) |-> g[s]]
    BY <1>7
  <2> HIDE DEF V
  <2>3. ASSUME NEW s \in SUBSET (1 .. n)
        PROVE  g[s] = IF s = {} THEN Inf ELSE Smaller(g[s \ {Max(s)}], seq[Max(s)])
    <3>1. CASE s = {}
      BY <1>7, <3>1 DEF IsFold
    <3>2. CASE s # {}
      <4>1. g[s] = st[<<Max(s), g[s \ {Max(s)}]>>]
        BY <1>7, <3>2 DEF IsFold
      <4> QED
        BY <1>3, <1>5, <2>1, <3>2, <4>1
    <3> QED
      BY <3>1, <3>2
  <2> QED
    BY <1>3, <2>2, <2>3
<1> DEFINE f == CHOOSE h : Folds(h)
<1>9. Folds(f)
  BY <1>8
<1> HIDE DEF f
<1>10. f[{}] = Inf /\ \A m \in 1 .. n : f[1 .. m] = Smaller(f[1 .. m - 1], t[m])
  <2>1. f[{}] = Inf
    BY <1>9
  <2>2. ASSUME NEW m \in 1 .. n
        PROVE  f[1 .. m] = Smaller(f[1 .. m - 1], t[m])
    <3>1. Max(1 .. m) = m
      BY MaxOfInterval
    <3>2. (1 .. m) \ {m} = 1 .. m - 1
      OBVIOUS
    <3>3. m \in 1 .. m /\ \A i \in 1 .. m : i \in 1 .. n
      OBVIOUS
    <3>4. 1 .. m \in SUBSET DOMAIN seq /\ 1 .. m # {}
      BY <1>3, <3>3
    <3>5. f[1 .. m] = Smaller(f[(1 .. m) \ {Max(1 .. m)}], seq[Max(1 .. m)])
      BY <1>9, <3>4
    <3> QED
      BY <1>3, <3>1, <3>2, <3>5
  <2> QED
    BY <2>1, <2>2
<1> HIDE DEF Folds
<1> DEFINE Least(m, r) == /\ r = Inf \/ (r \in Proper /\ \E k \in 1 .. n : r = t[k])
                          /\ \A k \in 1 .. m : ~Less(t[k], r)
           G == {m \in 0 .. n : Least(m, f[1 .. m])}
<1>11. 0 \in G
  <2>1. 1 .. 0 = {}
    OBVIOUS
  <2> QED
    BY <1>10, <2>1
<1>12. ASSUME NEW m \in 0 .. n - 1, m \in G
       PROVE  m + 1 \in G
  <2>1. PICK j \in 1 .. n : j = m + 1 /\ j - 1 = m /\ \A k \in 1 .. j : k = j \/ k \in 1 .. m
    OBVIOUS
  <2>2. PICK a, b : a = f[1 .. m] /\ b = f[1 .. j]
    OBVIOUS
  <2>3. Least(m, a)
    BY <1>12, <2>2
  <2>4. b = IF Less(t[j], a) THEN t[j] ELSE a
    BY <1>10, <2>1, <2>2 DEF Smaller
  <2>5. Least(j, b)
    <3>1. CASE ~Less(t[j], a)
      BY <2>1, <2>3, <2>4, <3>1
    <3>2. CASE Less(t[j], a)
      <4>1. t[j] \in Proper /\ b = t[j]
        BY <1>3, <2>3, <2>4, <3>2, Limits
      <4>2. ASSUME NEW k \in 1 .. j
            PROVE  ~Less(t[k], b)
        <5>1. CASE k = j
          BY <4>1, <5>1 DEF Less, Proper
        <5>2. CASE k # j /\ t[k] = NaN
          BY <4>1, <5>2, Limits
        <5>3. CASE k # j /\ t[k] # NaN
          <6>1. k \in 1 .. m /\ t[k] \in Proper /\ ~Less(t[k], a)
            BY <1>3, <2>1, <2>3, <5>3
          <6>2. a \in Proper
            BY <2>3, <6>1, Limits
          <6>3. Less(b, t[k])
            BY <3>2, <4>1, <6>1, <6>2, LessThrough
          <6> QED
            BY <4>1, <6>1, <6>3 DEF Less, Proper
        <5> QED
          BY <5>1, <5>2, <5>3
      <4> QED
        BY <4>1, <4>2
    <3> QED
      BY <3>1, <3>2
  <2> HIDE DEF Least
  <2> QED
    BY <2>1, <2>2, <2>5
<1> HIDE DEF G
<1>13. 0 .. n \subseteq G
  BY <1>11, <1>12, StepsReach
<1>14. Least(n, f[1 .. n])
  BY <1>13 DEF G
<1> QED
  BY <1>1, <1>3, <1>14 DEF f

-----------------------------------------------------------------------------
\* A delta that a comparison with 0 and with 1 does not reject.
Deltas == {NaN} \cup {x \in Proper : 0 < x[1] /\ x[1] < x[2]}

\* Those are what Load's check lets through.
LEMMA DeltaRange ==
  ASSUME NEW x, IsFloat(x), ~AtMost(x, Zero), ~AtMost(One, x)
  PROVE  x \in Deltas
<1>1. x \in Int \X Nat /\ (x[2] = 0 => x[1] \in -1 .. 1) /\ x = <<x[1], x[2]>>
  BY DEF IsFloat
<1>2. CASE x # NaN
  <2>1. Less(Zero, x) /\ Less(x, One)
    BY <1>2 DEF AtMost, NaN, Zero, One
  <2> QED
    BY <1>1, <2>1 DEF Deltas, Proper, Less, Zero, One
<1> QED
  BY <1>2 DEF Deltas

\* A tau is a number if the bound and delta are.
LEMMA TauProper ==
  ASSUME NEW a \in 0 .. Scale - 1, NEW delta \in Proper
  PROVE  /\ Tau(<<a, Scale>>, delta) = <<(Scale - a) * delta[2] - delta[1] * Scale, (Scale - a) * delta[2]>>
         /\ Tau(<<a, Scale>>, delta) \in Proper
<1>1. PICK s \in Nat \ {0}, d1 \in Int, d2 \in Nat \ {0} : s = Scale /\ d1 = delta[1] /\ d2 = delta[2]
  BY PolicyAssumption DEF Proper
<1>2. PICK b \in Nat \ {0} : b = s - a
  BY <1>1
<1>3. b * d2 \in Nat /\ b * d2 # 0 /\ b * d2 - d1 * s \in Int
  OBVIOUS
<1>4. <<a, Scale>> # NaN /\ delta # NaN
  BY <1>1 DEF NaN
<1>5. Tau(<<a, Scale>>, delta) = <<b * d2 - d1 * s, b * d2>>
  BY <1>1, <1>2, <1>4 DEF Tau
<1> QED
  BY <1>1, <1>2, <1>3, <1>5 DEF Proper

\* The taus of a band.
LEMMA TausOfBand ==
  ASSUME NEW alpha \in Bands, NEW delta \in Deltas
  PROVE  \E t \in [Grid -> Proper \cup {NaN}] :
            /\ \A k \in Grid : t[k] = Tau(alpha[k], delta)
            /\ \A k \in Grid : t[k] \in Proper =>
                 delta \in Proper /\ \E a \in 0 .. Scale - 1 : alpha[k] = <<a, Scale>>
<1> DEFINE t == [k \in Grid |-> Tau(alpha[k], delta)]
<1>1. delta = NaN \/ delta \in Proper
  BY DEF Deltas
<1>2. ASSUME NEW k \in Grid
      PROVE  alpha[k] = NaN \/ \E a \in 0 .. Scale - 1 : alpha[k] = <<a, Scale>>
  BY DEF Bands
<1>3. ASSUME NEW k \in Grid
      PROVE  \/ Tau(alpha[k], delta) = NaN
             \/ /\ Tau(alpha[k], delta) \in Proper /\ delta \in Proper
                /\ \E a \in 0 .. Scale - 1 : alpha[k] = <<a, Scale>>
  <2>1. CASE NaN \in {alpha[k], delta}
    BY <2>1 DEF Tau
  <2>2. CASE NaN \notin {alpha[k], delta}
    <3>1. PICK a \in 0 .. Scale - 1 : alpha[k] = <<a, Scale>>
      BY <1>2, <2>2
    <3>2. delta \in Proper
      BY <1>1, <2>2
    <3> QED
      BY <3>1, <3>2, TauProper
  <2> QED
    BY <2>1, <2>2
<1>4. NaN \notin Proper
  BY DEF NaN, Proper
<1>5. t \in [Grid -> Proper \cup {NaN}]
  BY <1>3
<1>6. /\ \A k \in Grid : t[k] = Tau(alpha[k], delta)
      /\ \A k \in Grid : t[k] \in Proper =>
           delta \in Proper /\ \E a \in 0 .. Scale - 1 : alpha[k] = <<a, Scale>>
  BY <1>3, <1>4
<1> HIDE DEF t
<1> QED
  BY <1>5, <1>6

\* Counting the coins behind one: at most f of them are at or above the fraction n/d.
LEMMA CoinsAbove ==
  ASSUME NEW f \in Nat \ {0}, NEW n \in Int, NEW d \in Nat \ {0}, NEW s,
         \A u \in s : u \in {<<j, f>> : j \in 0 .. f - 1} /\ n * f < u[1] * d, s # {}
  PROVE  IsFiniteSet(s) /\ Cardinality(s) \in Nat /\ Cardinality(s) * d <= (d - n) * f
<1>1. PICK p \in Int : p = n * f
  OBVIOUS
<1>2. PICK q \in Int : q = p \div d
  OBVIOUS
<1>3. q * d <= p /\ p < (q + 1) * d
  BY <1>2
<1>4. PICK lo \in Nat : lo >= q + 1 /\ (lo = q + 1 \/ lo = 0)
  <2>1. CASE q + 1 >= 0
    BY <2>1
  <2>2. CASE q + 1 < 0
    BY <2>2
  <2> QED
    BY <2>1, <2>2
<1>5. ASSUME NEW u \in s
      PROVE  u = <<u[1], f>> /\ u[1] \in lo .. f - 1
  <2>1. PICK j \in 0 .. f - 1 : u = <<j, f>> /\ p < j * d
    BY <1>1
  <2>2. ~(j <= q)
    <3>1. ASSUME j < q PROVE j * d < q * d
      BY <3>1
    <3> QED
      BY <1>3, <2>1, <3>1
  <2> QED
    BY <1>4, <2>1, <2>2
<1>6. IsFiniteSet(lo .. f - 1) /\ (lo <= f - 1 => Cardinality(lo .. f - 1) = f - lo)
  <2>1. lo \in Int /\ f - 1 \in Int
    OBVIOUS
  <2>2. IsFiniteSet(lo .. f - 1) /\ Cardinality(lo .. f - 1) = IF lo > f - 1 THEN 0 ELSE (f - 1) - lo + 1
    BY <2>1, FS_Interval
  <2> QED
    BY <2>2
<1> DEFINE g == [u \in s |-> u[1]]
<1>7. g \in Injection(s, lo .. f - 1)
  BY <1>5 DEF Injection, IsInjective
<1>8. IsFiniteSet(s) /\ Cardinality(s) <= Cardinality(lo .. f - 1)
  BY <1>6, <1>7, FS_Injection
<1>9. lo <= f - 1
  BY <1>5
<1>10. PICK c \in Nat : c = Cardinality(s)
  BY <1>8, FS_CardinalityType
<1>11. c <= f - lo /\ f - lo <= f - (q + 1) /\ f - lo >= 0
  BY <1>4, <1>6, <1>8, <1>9, <1>10
<1>12. c * d <= (f - (q + 1)) * d
  <2>1. PICK e \in Int : e = f - (q + 1) /\ c <= e
    BY <1>11
  <2>2. e < c \/ c * d <= e * d
    <3>1. c = e \/ c < e
      BY <2>1
    <3> QED
      BY <3>1
  <2> QED
    BY <2>1, <2>2
<1>13. (f - (q + 1)) * d = f * d - (q + 1) * d /\ (d - n) * f = f * d - p
  BY <1>1
<1>14. PICK cd \in Int, qd \in Int, fd \in Int : cd = c * d /\ qd = (q + 1) * d /\ fd = f * d
  OBVIOUS
<1>15. p < qd /\ cd <= fd - qd
  BY <1>3, <1>12, <1>13, <1>14
<1>16. cd <= fd - p
  BY <1>15
<1>17. c * d <= (d - n) * f
  BY <1>13, <1>14, <1>16
<1> QED
  BY <1>8, <1>10, <1>17

\* What is served from the cache stays within its error budget: for some level of the
\* grid, the share of the coin's faces that serve times the chance of being wrong that
\* the level allows is at most delta (Decide, tauHat).
THEOREM ServedWithinDelta ==
  ASSUME NEW delta \in Deltas, NEW nmin, NEW n, NEW fit, fit.alpha \in Bands,
         NEW served, served = {u \in Coins : ~Decide(delta, nmin, n, fit, u).explore},
         served # {}
  PROVE  \E k \in Grid : AtMost(<<Cardinality(served) * (Scale - fit.alpha[k][1]), Faces * Scale>>, delta)
<1>1. PICK alpha \in Bands : alpha = fit.alpha
  OBVIOUS
<1>2. PICK tau : tau = TauHat(alpha, delta)
  OBVIOUS
<1>3. \A u \in served : u \in Coins /\ ~AtMost(u, tau) /\ tau # NaN
  BY <1>1, <1>2 DEF Decide, Forced
<1>4. PICK f \in Nat \ {0}, sc \in Nat \ {0} : f = Faces /\ sc = Scale
  BY PolicyAssumption
<1>5. \A u \in served : u # NaN /\ u \in {<<j, f>> : j \in 0 .. f - 1}
  BY <1>3, <1>4 DEF Coins, NaN
<1>6. \A u \in served : Less(tau, u)
  BY <1>3, <1>5 DEF AtMost
<1>7. PICK t \in [Grid -> Proper \cup {NaN}] :
        /\ \A k \in Grid : t[k] = Tau(alpha[k], delta)
        /\ \A k \in Grid : t[k] \in Proper =>
             delta \in Proper /\ \E a \in 0 .. Scale - 1 : alpha[k] = <<a, Scale>>
  BY TausOfBand
<1>8. PICK r : /\ tau = Clamp(r)
               /\ r = Inf \/ (r \in Proper /\ \E k \in Grid : r = t[k])
  BY <1>2, <1>7, TauHatIsLeast
<1>9. \A u \in served : ~Less(One, u) /\ u[2] = f /\ u[1] \in Nat
  BY <1>5 DEF Less, One
<1>10. r # Inf /\ ~Less(One, r)
  <2>1. PICK u \in served : TRUE
    OBVIOUS
  <2>2. tau # One
    BY <1>6, <1>9, <2>1
  <2>3. Less(Inf, Zero) = FALSE /\ Less(One, Inf)
    BY DEF Less, Inf, Zero, One
  <2>4. Clamp(Inf) = One
    BY <2>3 DEF Clamp
  <2>5. Less(One, r) => r = Inf \/ ~Less(r, Zero)
    BY <1>8 DEF Less, One, Zero, Proper
  <2> QED
    BY <1>8, <2>2, <2>4, <2>5 DEF Clamp
<1>11. PICK k \in Grid : r = t[k] /\ r \in Proper
  BY <1>8, <1>10
<1>12. PICK a \in 0 .. Scale - 1 : alpha[k] = <<a, Scale>> /\ delta \in Proper
  BY <1>7, <1>11
<1>13. PICK b \in Nat \ {0}, d1 \in Int, d2 \in Nat \ {0} : b = sc - a /\ d1 = delta[1] /\ d2 = delta[2]
  <2>1. sc - a \in Nat \ {0}
    BY <1>4, <1>12
  <2>2. delta[1] \in Int /\ delta[2] \in Nat \ {0}
    BY <1>12 DEF Proper
  <2> QED
    BY <2>1, <2>2
<1>14. PICK d \in Nat \ {0}, m \in Int : d = b * d2 /\ m = b * d2 - d1 * sc
  <2>1. b * d2 \in Nat \ {0} /\ b * d2 - d1 * sc \in Int
    OBVIOUS
  <2> QED
    BY <2>1
<1>15. r[1] = m /\ r[2] = d
  <2>1. r = Tau(<<a, Scale>>, delta)
    BY <1>7, <1>11, <1>12
  <2>2. r = <<(Scale - a) * delta[2] - delta[1] * Scale, (Scale - a) * delta[2]>>
    BY <1>12, <2>1, TauProper
  <2> QED
    BY <1>4, <1>13, <1>14, <2>2
<1>16. ASSUME NEW u \in served
       PROVE  m * f < u[1] * d
  <2>1. PICK j \in Nat : j = u[1] /\ u[2] = f
    BY <1>9
  <2>2. CASE Less(r, Zero)
    <3>1. m < 0
      BY <1>14, <1>15, <2>2 DEF Less, Zero
    <3>2. m * f < 0 /\ j * d >= 0
      BY <3>1
    <3> QED
      BY <2>1, <3>2
  <2>3. CASE ~Less(r, Zero)
    <3>1. tau = r
      BY <1>8, <1>10, <2>3 DEF Clamp
    <3> QED
      BY <1>6, <1>15, <2>1, <3>1 DEF Less
  <2> QED
    BY <2>2, <2>3
<1>17. Cardinality(served) \in Nat /\ Cardinality(served) * d <= (d - m) * f
  BY <1>5, <1>16, CoinsAbove
<1>18. PICK c \in Nat : c = Cardinality(served) /\ c * d <= (d - m) * f
  BY <1>17
<1>19. d - m = d1 * sc /\ c * d = c * (b * d2)
  BY <1>14
<1>20. (c * b) * d2 <= d1 * (f * sc)
  <2>1. (c * b) * d2 = c * (b * d2) /\ (d1 * sc) * f = d1 * (f * sc)
    OBVIOUS
  <2> QED
    BY <1>18, <1>19, <2>1
<1>21. ~Less(delta, <<c * b, f * sc>>)
  <2>1. (c * b) * d2 \in Int /\ d1 * (f * sc) \in Int
    OBVIOUS
  <2> QED
    BY <1>13, <1>20, <2>1 DEF Less
<1>22. <<c * b, f * sc>> # NaN /\ delta # NaN
  <2>1. f * sc # 0
    OBVIOUS
  <2> QED
    BY <1>12, <2>1, Limits DEF NaN
<1>23. AtMost(<<c * b, f * sc>>, delta)
  BY <1>21, <1>22 DEF AtMost
<1>24. Scale - fit.alpha[k][1] = b
  BY <1>1, <1>4, <1>12, <1>13
<1>25. AtMost(<<Cardinality(served) * (Scale - fit.alpha[k][1]), Faces * Scale>>, delta)
  BY <1>4, <1>18, <1>23, <1>24
<1> QED
  BY <1>11, <1>25

-----------------------------------------------------------------------------
\* Below the floor every decision explores.
LEMMA ServesFromTheFloor ==
  ASSUME NEW delta, NEW nmin, NEW n, MayServe(delta, nmin, n)
  PROVE  ~(n < nmin)
<1>1. PICK fit, u : ~Decide(delta, nmin, n, fit, u).explore
  BY DEF MayServe, Decisions
<1> QED
  BY <1>1 DEF Decide, Forced

\* A delta that is not a number explores always.
LEMMA ServesForANumber ==
  ASSUME NEW delta \in Deltas, NEW nmin, NEW n, MayServe(delta, nmin, n)
  PROVE  delta # NaN
<1>1. PICK fit \in Fits(n), u \in Coins : ~Decide(delta, nmin, n, fit, u).explore
  BY DEF MayServe, Decisions
<1>2. fit.alpha \in Bands
  BY DEF Fits
<1> DEFINE served == {v \in Coins : ~Decide(delta, nmin, n, fit, v).explore}
<1>3. served # {}
  BY <1>1
<1> HIDE DEF served
<1>4. PICK x : AtMost(x, delta)
  BY <1>2, <1>3, ServedWithinDelta DEF served
<1> QED
  BY <1>4 DEF AtMost

\* A delta that may serve is one that the coin resolves, by the bound that showed it.
LEMMA ServesWhatItResolves ==
  ASSUME NEW delta \in Deltas, NEW nmin, NEW n, MayServe(delta, nmin, n)
  PROVE  Resolves(delta)
<1>1. PICK fit \in Fits(n), u \in Coins : ~Decide(delta, nmin, n, fit, u).explore
  BY DEF MayServe, Decisions
<1>2. PICK alpha \in Bands : alpha = fit.alpha
  BY DEF Fits
<1> DEFINE tau == TauHat(alpha, delta)
<1>3. ~AtMost(u, tau) /\ tau # NaN
  BY <1>1, <1>2 DEF Decide, Forced
<1> HIDE DEF tau
<1>4. PICK f \in Nat \ {0}, sc \in Nat \ {0}, g \in Nat \ {0} : f = Faces /\ sc = Scale /\ g = GridSize
  BY PolicyAssumption
<1>5. PICK j \in 0 .. f - 1 : u = <<j, f>>
  BY <1>4 DEF Coins
<1>6. Less(tau, u)
  BY <1>3, <1>4, <1>5 DEF AtMost, NaN
<1>7. PICK t \in [Grid -> Proper \cup {NaN}] :
        /\ \A k \in Grid : t[k] = Tau(alpha[k], delta)
        /\ \A k \in Grid : t[k] \in Proper =>
             delta \in Proper /\ \E a \in 0 .. Scale - 1 : alpha[k] = <<a, Scale>>
  BY TausOfBand
<1>8. PICK r : /\ tau = Clamp(r)
               /\ r = Inf \/ (r \in Proper /\ \E k \in Grid : r = t[k])
  BY <1>7, TauHatIsLeast DEF tau
<1>9. ~Less(One, u)
  BY <1>4, <1>5 DEF Less, One
<1>10. tau # One
  BY <1>6, <1>9
<1>11. r # Inf /\ ~Less(One, r)
  <2>1. Less(Inf, Zero) = FALSE /\ Less(One, Inf)
    BY DEF Less, Inf, Zero, One
  <2>2. Clamp(Inf) = One
    BY <2>1 DEF Clamp
  <2>3. Less(One, r) => r = Inf \/ ~Less(r, Zero)
    BY <1>8 DEF Less, One, Zero, Proper
  <2> QED
    BY <1>8, <1>10, <2>2, <2>3 DEF Clamp
<1>12. PICK k \in Grid : r = t[k] /\ r \in Proper
  BY <1>8, <1>11
<1>13. PICK a \in 0 .. Scale - 1 : alpha[k] = <<a, Scale>> /\ r = Tau(<<a, Scale>>, delta)
  BY <1>7, <1>12
<1>14. MayBound(1, a)
  <2>1. alpha # [i \in Grid |-> NaN]
    <3>1. <<a, Scale>> # NaN
      BY <1>4 DEF NaN
    <3> QED
      BY <1>12, <1>13, <3>1
  <2>2. PICK b \in [Grid -> 0 .. Scale - 1] :
          alpha = [i \in Grid |-> <<b[i], Scale>>] /\ \A i \in Grid : MayBound(i, b[i])
    BY <2>1 DEF Bands
  <2>3. alpha[k] = <<b[k], Scale>> /\ MayBound(k, b[k])
    BY <1>12, <2>2
  <2>4. MayBound(k, a)
    BY <1>13, <2>3
  <2>5. PICK e \in Int, p \in Int, q \in Nat : e = 2 * g - 2 * k + 1 /\ p = 2 * g * a /\ q = 2 * g - 1 - e
    BY <1>4, <1>12, <1>13 DEF Grid
  <2>6. sc * e + sc * q = sc * (2 * g - 1) /\ 0 <= sc * q /\ sc * e \in Int
    <3>1. e + q = 2 * g - 1
      BY <2>5
    <3>2. sc * e + sc * q = sc * (e + q) /\ 0 <= sc * q /\ sc * e \in Int
      OBVIOUS
    <3> QED
      BY <3>1, <3>2
  <2>7. p <= sc * e
    BY <1>4, <2>4, <2>5 DEF MayBound
  <2>8. p <= sc * (2 * g - 1)
    BY <2>6, <2>7
  <2> QED
    BY <1>4, <2>5, <2>8 DEF MayBound
<1>15. PICK x \in Int, y \in Nat \ {0} : x = r[1] /\ y = r[2]
  BY <1>12 DEF Proper
<1>16. 0 < j /\ x * f < j * y
  <2>1. 0 <= j * y /\ (j = 0 => j * y = 0) /\ j * y \in Int /\ x * f \in Int
    BY <1>5
  <2>2. CASE x < 0
    <3>1. x * f < 0
      <4>1. x * f < 0 * f
        BY <2>2, Times
      <4> QED
        BY <4>1
    <3>2. Less(r, Zero)
      BY <1>15, <2>2 DEF Less, Zero
    <3>3. tau = Zero
      BY <1>8, <3>2 DEF Clamp
    <3>4. 0 < j
      BY <1>5, <1>6, <3>3 DEF Less, Zero
    <3> QED
      BY <2>1, <3>1, <3>4
  <2>3. CASE ~(x < 0)
    <3>1. ~Less(r, Zero)
      BY <1>15, <2>3 DEF Less, Zero
    <3>2. tau = r
      BY <1>8, <1>11, <3>1 DEF Clamp
    <3>3. x * f < j * y
      BY <1>5, <1>6, <1>15, <3>2 DEF Less
    <3>4. 0 <= x * f
      BY <2>3
    <3> QED
      BY <1>5, <2>1, <3>3, <3>4
  <2> QED
    BY <2>2, <2>3
<1>17. Less(r, <<f - 1, f>>)
  <2>1. PICK i \in Nat : i = f - 1 - j
    BY <1>5
  <2>2. j * y + i * y = (f - 1) * y /\ 0 <= i * y /\ j * y \in Int
    <3>1. j + i = f - 1
      BY <1>5, <2>1
    <3>2. j * y + i * y = (j + i) * y /\ 0 <= i * y /\ j * y \in Int
      BY <1>5
    <3> QED
      BY <3>1, <3>2
  <2>3. x * f < (f - 1) * y
    BY <1>16, <2>2
  <2> QED
    BY <1>15, <2>3 DEF Less
<1>18. Faces > 1
  BY <1>4, <1>5, <1>16
<1> QED
  BY <1>4, <1>13, <1>14, <1>17, <1>18 DEF Resolves

\* From the floor on, a delta that the coin resolves may serve: with the bound that shows
\* it at the first level, whatever the others say.
LEMMA ServesFromTheFloorOn ==
  ASSUME NEW delta \in Deltas, delta # NaN, Resolves(delta),
         NEW nmin \in Int, NEW n \in Nat \ {0}, nmin <= n
  PROVE  MayServe(delta, nmin, n)
<1>1. PICK a \in 0 .. Scale - 1 :
        Faces > 1 /\ MayBound(1, a) /\ Less(Tau(<<a, Scale>>, delta), <<Faces - 1, Faces>>)
  BY DEF Resolves
<1>2. delta \in Proper /\ Scale \in Nat \ {0} /\ Faces \in Nat /\ GridSize \in Nat \ {0} /\ 1 \in Grid
  BY PolicyAssumption DEF Deltas, Grid
<1> DEFINE b == [k \in Grid |-> IF k = 1 THEN a ELSE 0]
           alpha == [k \in Grid |-> <<b[k], Scale>>]
           fit == [usable |-> TRUE, alpha |-> alpha]
           u == <<Faces - 1, Faces>>
<1>3. alpha \in Bands
  <2>1. b \in [Grid -> 0 .. Scale - 1]
    BY <1>2
  <2>2. ASSUME NEW k \in Grid, k # 1
        PROVE  MayBound(k, 0)
    <3>1. PICK e \in Nat : e = 2 * GridSize - 2 * k + 1
      BY <1>2 DEF Grid
    <3>2. Scale * e >= 0 /\ 2 * GridSize * 0 = 0
      BY <1>2
    <3> QED
      BY <3>1, <3>2 DEF MayBound
  <2>3. \A k \in Grid : MayBound(k, b[k])
    BY <1>1, <2>2
  <2> HIDE DEF b
  <2> QED
    BY <2>1, <2>3 DEF Bands
<1>4. fit \in Fits(n) /\ u \in Coins
  <2>1. "rising" \in ShapesOf(n)
    BY DEF ShapesOf
  <2>2. Faces - 1 \in 0 .. Faces - 1
    BY <1>1, <1>2
  <2>3. u \in Coins
    BY <2>2 DEF Coins
  <2> HIDE DEF alpha, u
  <2>4. PICK shape \in ShapesOf(n) : shape = "rising"
    BY <2>1
  <2>5. fit = [usable |-> shape = "rising", alpha |-> alpha]
    BY <2>4
  <2> HIDE DEF fit
  <2>6. fit \in Fits(n)
    BY <1>3, <2>5 DEF Fits
  <2> QED
    BY <2>3, <2>6
<1>5. alpha[1] = <<a, Scale>>
  BY <1>2
<1> HIDE DEF alpha
<1>6. PICK t \in [Grid -> Proper \cup {NaN}] : \A k \in Grid : t[k] = Tau(alpha[k], delta)
  BY <1>3, TausOfBand
<1>7. t[1] \in Proper /\ Less(t[1], u)
  BY <1>1, <1>2, <1>5, <1>6, TauProper
<1>8. PICK r : /\ TauHat(alpha, delta) = Clamp(r) /\ r \in Proper \cup {Inf}
               /\ ~Less(t[1], r)
  BY <1>2, <1>6, TauHatIsLeast
<1>9. r \in Proper
  BY <1>7, <1>8, Limits
<1>10. u \in Proper /\ u[1] = Faces - 1 /\ u[2] = Faces
  BY <1>1, <1>2 DEF Proper
<1>11. Less(r, u)
  <2>1. CASE Less(r, t[1])
    <3>1. ~Less(u, t[1])
      BY <1>7, <1>10 DEF Less, Proper
    <3> QED
      BY <1>7, <1>9, <1>10, <2>1, <3>1, LessThrough
  <2>2. CASE ~Less(r, t[1])
    <3>1. PICK x1 \in Int, x2 \in Nat \ {0}, y1 \in Int, y2 \in Nat \ {0}, v1 \in Int, v2 \in Nat \ {0} :
            x1 = t[1][1] /\ x2 = t[1][2] /\ y1 = r[1] /\ y2 = r[2] /\ v1 = u[1] /\ v2 = u[2]
      BY <1>7, <1>9, <1>10 DEF Proper
    <3>2. x1 * y2 = y1 * x2 /\ x1 * v2 < v1 * x2
      BY <1>7, <1>8, <2>2, <3>1 DEF Less
    <3>3. (x1 * v2) * y2 < (v1 * x2) * y2
      <4>1. x1 * v2 \in Int /\ v1 * x2 \in Int
        OBVIOUS
      <4> QED
        BY <3>2, <4>1, Times
    <3>4. (x1 * v2) * y2 = (x1 * y2) * v2 /\ (y1 * x2) * v2 = (y1 * v2) * x2 /\ (v1 * x2) * y2 = (v1 * y2) * x2
      OBVIOUS
    <3>5. (y1 * v2) * x2 < (v1 * y2) * x2
      BY <3>2, <3>3, <3>4
    <3>6. y1 * v2 < v1 * y2
      <4>1. y1 * v2 \in Int /\ v1 * y2 \in Int
        OBVIOUS
      <4> QED
        BY <3>5, <4>1, Times
    <3> QED
      BY <3>1, <3>6 DEF Less
  <2> QED
    BY <2>1, <2>2
<1>12. Less(Clamp(r), u) /\ Clamp(r) # NaN
  <2>1. Less(Zero, u) /\ ~Less(One, u)
    BY <1>1, <1>2, <1>10 DEF Less, Zero, One
  <2>2. ~Less(One, r)
    <3>1. PICK y1 \in Int, y2 \in Nat \ {0}, f \in Nat : y1 = r[1] /\ y2 = r[2] /\ f = Faces /\ f > 1
      BY <1>1, <1>2, <1>9 DEF Proper
    <3>2. y1 * f < (f - 1) * y2
      BY <1>10, <1>11, <3>1 DEF Less
    <3>3. (f - 1) * y2 <= f * y2 /\ f * y2 = y2 * f /\ y2 * f \in Int
      OBVIOUS
    <3>4. y1 * f < y2 * f
      BY <3>2, <3>3
    <3>5. y1 < y2
      BY <3>1, <3>4, Times
    <3> QED
      BY <3>1, <3>5 DEF Less, One
  <2>3. CASE Less(r, Zero)
    BY <2>1, <2>3 DEF Clamp, Zero, NaN
  <2>4. CASE ~Less(r, Zero)
    BY <1>9, <1>11, <2>2, <2>4, Limits DEF Clamp
  <2> QED
    BY <2>3, <2>4
<1>13. ~Decide(delta, nmin, n, fit, u).explore
  <2>1. ~(n < nmin)
    OBVIOUS
  <2>2. fit.usable /\ fit.alpha = alpha
    OBVIOUS
  <2>3. ~AtMost(u, TauHat(alpha, delta)) /\ TauHat(alpha, delta) # NaN
    BY <1>8, <1>12 DEF AtMost
  <2> HIDE DEF fit, u
  <2> QED
    BY <2>1, <2>2, <2>3 DEF Decide
<1> QED
  BY <1>4, <1>13 DEF MayServe, Decisions
=============================================================================
