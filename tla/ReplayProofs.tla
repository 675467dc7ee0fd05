----------------------------- MODULE ReplayProofs -----------------------------
(***************************************************************************)
(* The replay's parallel scan, its list, its windows and its score, for    *)
(* every file of records, every capacity, window and number of workers.    *)
(***************************************************************************)
EXTENDS Replay, PolicyProofs

-----------------------------------------------------------------------------
Similarity == Int \cup {NotANumber}
Found      == [idx : Nat, sim : Similarity]

\* c[k]: how similar entry k is.  best is the first of the most similar behind lo and up
\* to hi, or nobody where none can be compared.
IsBest(c, lo, hi, best) ==
  /\ best \in Found
  /\ IF \A k \in lo + 1 .. hi : c[k] = NotANumber THEN best = Nobody
     ELSE /\ best.idx \in lo + 1 .. hi /\ best.sim = c[best.idx] /\ best.sim # NotANumber
          /\ \A k \in lo + 1 .. hi : c[k] # NotANumber =>
                c[k] <= best.sim /\ (c[k] = best.sim => best.idx <= k)

\* The best of a range, then of the one behind it: the first keeps a tie.
LEMMA MergeBest ==
  ASSUME NEW n \in Nat, NEW c \in [1 .. n -> Similarity],
         NEW lo \in Nat, NEW mid \in Nat, NEW hi \in Nat, lo <= mid, mid <= hi, hi <= n,
         NEW a, NEW b, IsBest(c, lo, mid, a), IsBest(c, mid, hi, b),
         NEW r, r = (IF b.idx > 0 /\ Beats(b.sim, a) THEN b ELSE a)
  PROVE  IsBest(c, lo, hi, r)
<1> DEFINE Number(k) == c[k] # NotANumber
<1>1. /\ a \in Found /\ b \in Found /\ Nobody.idx = 0 /\ Nobody.sim = NotANumber
      /\ a.idx \in Nat /\ a.sim \in Similarity /\ b.idx \in Nat /\ b.sim \in Similarity
  BY DEF IsBest, Found, Nobody
<1>2. \A k \in 1 .. n : Number(k) => c[k] \in Int
  BY DEF Similarity
<1>3. \A k \in lo + 1 .. hi : k \in 1 .. n /\ (k \in lo + 1 .. mid \/ k \in mid + 1 .. hi)
  OBVIOUS
<1>4. /\ \A k \in lo + 1 .. mid : k \in lo + 1 .. hi
      /\ \A k \in mid + 1 .. hi : k \in lo + 1 .. hi
      /\ \A j \in lo + 1 .. mid, k \in mid + 1 .. hi : j < k
  OBVIOUS
<1>5. CASE \A k \in mid + 1 .. hi : ~Number(k)
  <2>1. b = Nobody /\ r = a
    BY <1>1, <1>5 DEF IsBest
  <2> QED
    BY <1>3, <1>4, <1>5, <2>1 DEF IsBest
<1>6. CASE /\ \E k \in mid + 1 .. hi : Number(k)
           /\ \A k \in lo + 1 .. mid : ~Number(k)
  <2>1. a = Nobody /\ b.idx \in mid + 1 .. hi /\ b.sim # NotANumber
    BY <1>6 DEF IsBest
  <2>2. r = b
    BY <1>1, <2>1 DEF Beats
  <2> QED
    BY <1>3, <1>4, <1>6, <2>2 DEF IsBest
<1>7. CASE /\ \E k \in mid + 1 .. hi : Number(k)
           /\ \E k \in lo + 1 .. mid : Number(k)
  <2>1. /\ a.idx \in lo + 1 .. mid /\ a.sim = c[a.idx] /\ a.sim # NotANumber
        /\ \A k \in lo + 1 .. mid : Number(k) => c[k] <= a.sim /\ (c[k] = a.sim => a.idx <= k)
    BY <1>7 DEF IsBest
  <2>2. /\ b.idx \in mid + 1 .. hi /\ b.sim = c[b.idx] /\ b.sim # NotANumber
        /\ \A k \in mid + 1 .. hi : Number(k) => c[k] <= b.sim /\ (c[k] = b.sim => b.idx <= k)
    BY <1>7 DEF IsBest
  <2>3. a.sim \in Int /\ b.sim \in Int /\ r = IF b.sim > a.sim THEN b ELSE a
    BY <1>1, <2>1, <2>2 DEF Beats, Similarity
  <2>4. /\ r \in Found /\ r.idx \in lo + 1 .. hi /\ r.sim = c[r.idx] /\ r.sim # NotANumber
    BY <1>1, <1>4, <2>1, <2>2, <2>3
  <2>5. ASSUME NEW k \in lo + 1 .. hi, Number(k)
        PROVE  c[k] <= r.sim /\ (c[k] = r.sim => r.idx <= k)
    <3>1. c[k] \in Int
      BY <1>2, <1>3, <2>5
    <3>2. CASE k \in lo + 1 .. mid
      BY <1>4, <2>1, <2>2, <2>3, <2>5, <3>1, <3>2
    <3>3. CASE k \in mid + 1 .. hi
      BY <1>4, <2>1, <2>2, <2>3, <2>5, <3>1, <3>3
    <3> QED
      BY <1>3, <3>2, <3>3
  <2>6. ~\A k \in lo + 1 .. hi : c[k] = NotANumber
    BY <1>4, <1>7
  <2> QED
    BY <2>4, <2>5, <2>6 DEF IsBest
<1> QED
  BY <1>5, <1>6, <1>7

\* Lists of entries, and how similar each is to a query.
Observed == [by : Nat, c : BOOLEAN]
Entry    == [vec : Vecs, set : IdSets, src : Nat, obs : Seq(Observed)]

Sims(es, q) == [k \in 1 .. Len(es) |-> Sim[<<q, es[k].vec>>]]

\* What is compared, as numbers.
LEMMA SimsFacts ==
  ASSUME NEW es \in Seq(Entry), NEW q \in Vecs
  PROVE  /\ Len(es) \in Nat /\ DOMAIN es = 1 .. Len(es)
         /\ Sims(es, q) \in [1 .. Len(es) -> Similarity]
<1>0. \A e \in Entry : e.vec \in Vecs
  BY DEF Entry
<1>1. Len(es) \in Nat /\ \A k \in 1 .. Len(es) : es[k].vec \in Vecs
  BY <1>0
<1>2. \A k \in 1 .. Len(es) : Sim[<<q, es[k].vec>>] \in Similarity
  BY <1>1, ReplayAssumption DEF Similarity
<1>3. Sims(es, q) \in [1 .. Len(es) -> Similarity]
  BY <1>2 DEF Sims
<1> QED
  BY <1>1, <1>3

\* Nothing is best of nothing.
LEMMA BestOfNone ==
  ASSUME NEW c, NEW lo \in Nat
  PROVE  IsBest(c, lo, lo, Nobody)
<1>1. Nobody \in Found
  BY DEF Nobody, Found, Similarity
<1>2. \A k \in lo + 1 .. lo : FALSE
  OBVIOUS
<1> QED
  BY <1>1, <1>2 DEF IsBest

\* A serial scan finds the best of its range.
LEMMA RangeFindsBest ==
  ASSUME NEW es \in Seq(Entry), NEW q \in Vecs, NEW lo \in Nat, NEW hi \in Nat, lo <= hi, hi <= Len(es)
  PROVE  IsBest(Sims(es, q), lo, hi, NearestRange(es, q, lo, hi))
<1> DEFINE Next1(best, k) == LET s == Sim[<<q, es[k].vec>>]
                             IN  IF Beats(s, best) THEN [idx |-> k, sim |-> s] ELSE best
           seq == [i \in 1 .. hi - lo |-> lo + i]
           Folds(f) == f = [s \in SUBSET DOMAIN seq |->
                              IF s = {} THEN Nobody ELSE Next1(f[s \ {Max(s)}], seq[Max(s)])]
<1>1. NearestRange(es, q, lo, hi) = (CHOOSE f : Folds(f))[DOMAIN seq]
  BY DEF NearestRange, FoldLeft, MapThenFoldSet
<1>2. PICK n \in Nat : n = hi - lo
  OBVIOUS
<1>3. DOMAIN seq = 1 .. n /\ \A i \in 1 .. n : seq[i] = lo + i
  BY <1>2
<1>4. PICK c \in [1 .. Len(es) -> Similarity] : c = Sims(es, q) /\ Len(es) \in Nat
  BY SimsFacts
<1>5. \A k \in 1 .. Len(es) : Sim[<<q, es[k].vec>>] = c[k]
  BY <1>4 DEF Sims
<1>6. \A i \in 1 .. n, b \in Found : Next1(b, seq[i]) = (IF Beats(c[lo + i], b) THEN [idx |-> lo + i, sim |-> c[lo + i]] ELSE b)
  BY <1>2, <1>3, <1>4, <1>5
<1> DEFINE st == [p \in (1 .. n) \X Found |-> Next1(p[2], seq[p[1]])]
<1>7. st \in [(1 .. n) \X Found -> Found]
  <2>1. \A i \in 1 .. n : lo + i \in Nat /\ c[lo + i] \in Similarity
    BY <1>2, <1>4
  <2> HIDE DEF Next1, seq
  <2>2. \A i \in 1 .. n, b \in Found : Next1(b, seq[i]) \in Found
    <3> SUFFICES ASSUME NEW i \in 1 .. n, NEW b \in Found
                 PROVE  Next1(b, seq[i]) \in Found
      OBVIOUS
    <3>1. [idx |-> lo + i, sim |-> c[lo + i]] \in Found
      BY <2>1 DEF Found
    <3> QED
      BY <1>6, <3>1
  <2> QED
    BY <2>2
<1>8. Nobody \in Found
  BY DEF Nobody, Found, Similarity
<1>9. \A i \in 1 .. n, b \in Found : st[<<i, b>>] = Next1(b, seq[i])
  OBVIOUS
<1> HIDE DEF Next1, seq, st
<1>10. PICK g : g \in [SUBSET (1 .. n) -> Found] /\ IsFold(g, n, Nobody, st)
  BY <1>7, <1>8, FoldExists
<1>11. Folds(g)
  <2>1. \A s \in SUBSET (1 .. n) : s # {} => Max(s) \in 1 .. n /\ g[s \ {Max(s)}] \in Found
    BY <1>2, <1>10, MaxInside
  <2> QED
    BY <1>3, <1>9, <1>10, <2>1 DEF IsFold
<1> DEFINE f == CHOOSE h : Folds(h)
<1>12. Folds(f)
  BY <1>11
<1> HIDE DEF f
<1>13. f[{}] = Nobody /\ \A m \in 1 .. n : f[1 .. m] = Next1(f[1 .. m - 1], seq[m])
  <2>1. f[{}] = Nobody
    BY <1>12
  <2>2. ASSUME NEW m \in 1 .. n
        PROVE  f[1 .. m] = Next1(f[1 .. m - 1], seq[m])
    <3>1. Max(1 .. m) = m
      BY MaxOfInterval
    <3>2. (1 .. m) \ {m} = 1 .. m - 1
      OBVIOUS
    <3>3. m \in 1 .. m /\ \A i \in 1 .. m : i \in 1 .. n
      BY <1>2
    <3> QED
      BY <1>3, <1>12, <3>1, <3>2, <3>3
  <2> QED
    BY <2>1, <2>2
<1> HIDE DEF Folds
<1> DEFINE G == {m \in 0 .. n : IsBest(c, lo, lo + m, f[1 .. m])}
<1>14. 0 \in G
  <2>1. 1 .. 0 = {} /\ lo + 0 = lo
    OBVIOUS
  <2> QED
    BY <1>13, <2>1, BestOfNone
<1>15. ASSUME NEW m \in 0 .. n - 1, m \in G
       PROVE  m + 1 \in G
  <2>1. PICK j \in 1 .. n : j = m + 1 /\ j - 1 = m
    OBVIOUS
  <2>2. PICK a : a = f[1 .. m] /\ IsBest(c, lo, lo + m, a)
    BY <1>15
  <2>3. PICK k \in 1 .. Len(es) : k = lo + j /\ k \in Nat /\ lo + m \in Nat /\ lo + m + 1 = k
    BY <1>2, <1>4, <2>1
  <2>4. f[1 .. j] = IF Beats(c[k], a) THEN [idx |-> k, sim |-> c[k]] ELSE a
    BY <1>6, <1>13, <2>1, <2>2, <2>3 DEF IsBest
  <2> DEFINE b == IF c[k] = NotANumber THEN Nobody ELSE [idx |-> k, sim |-> c[k]]
  <2>5. IsBest(c, lo + m, k, b)
    <3>1. \A i \in lo + m + 1 .. k : i = k
      BY <2>3
    <3>2. k \in lo + m + 1 .. k
      BY <2>3
    <3>3. c[k] \in Similarity /\ k > 0
      BY <1>4
    <3>4. c[k] # NotANumber => c[k] \in Int
      BY <3>3 DEF Similarity
    <3> QED
      BY <1>8, <3>1, <3>2, <3>3, <3>4 DEF IsBest, Found
  <2>6. f[1 .. j] = IF b.idx > 0 /\ Beats(b.sim, a) THEN b ELSE a
    BY <2>3, <2>4 DEF Beats, Nobody
  <2>7. IsBest(c, lo, k, f[1 .. j])
    <3> HIDE DEF b
    <3>1. PICK mid \in Nat : mid = lo + m /\ lo <= mid /\ mid <= k
      BY <2>3
    <3>2. IsBest(c, lo, mid, a) /\ IsBest(c, mid, k, b)
      BY <2>2, <2>5, <3>1
    <3>3. k \in Nat /\ k <= Len(es) /\ Len(es) \in Nat /\ lo \in Nat
      BY <1>4, <2>3
    <3> QED
      BY <2>6, <3>1, <3>2, <3>3, MergeBest
  <2> QED
    BY <2>1, <2>3, <2>7
<1> HIDE DEF G
<1>16. 0 .. n \subseteq G
  BY <1>14, <1>15, StepsReach
<1>17. IsBest(c, lo, lo + n, f[1 .. n]) /\ lo + n = hi
  BY <1>2, <1>16 DEF G
<1> QED
  BY <1>1, <1>3, <1>4, <1>17 DEF f

\* The workers' chunks cover the list, whatever its length and their number.
LEMMA ChunksCover ==
  ASSUME NEW n \in Nat, NEW w \in Nat, w > 1
  PROVE  Chunk(n, w) \in Nat /\ w * Chunk(n, w) >= n
<1>1. PICK a \in Nat : a = n + w - 1
  OBVIOUS
<1>2. PICK d : d = a \div w
  OBVIOUS
<1>3. d \in Nat /\ a < d * w + w
  BY <1>2
<1>4. d * w = w * d /\ d * w \in Nat
  BY <1>3
<1>5. d * w >= n
  BY <1>1, <1>3, <1>4
<1> QED
  BY <1>1, <1>2, <1>3, <1>4, <1>5 DEF Chunk

\* A parallel scan finds the best of the list.
LEMMA ScanFindsBest ==
  ASSUME NEW es \in Seq(Entry), NEW q \in Vecs, NEW workers \in Int
  PROVE  IsBest(Sims(es, q), 0, Len(es), Nearest(es, q, workers))
<1>1. PICK n \in Nat : n = Len(es)
  BY SimsFacts
<1>2. CASE n < ParThreshold \/ workers <= 1
  <2>1. Nearest(es, q, workers) = NearestRange(es, q, 0, n)
    BY <1>1, <1>2 DEF Nearest
  <2> QED
    BY <1>1, <2>1, RangeFindsBest
<1>3. CASE ~(n < ParThreshold \/ workers <= 1)
  <2>1. workers \in Nat /\ workers > 1
    BY <1>3
  <2>2. PICK chunk \in Nat : chunk = Chunk(n, workers) /\ workers * chunk >= n
    BY <2>1, ChunksCover
  <2>3. PICK c \in [1 .. n -> Similarity] : c = Sims(es, q)
    BY <1>1, SimsFacts
  <2> DEFINE Part(w) == IF (w - 1) * chunk >= n THEN Nobody
                        ELSE NearestRange(es, q, (w - 1) * chunk, IF w * chunk > n THEN n ELSE w * chunk)
             seq == [w \in 1 .. workers |-> Part(w)]
             Better(best, r) == IF r.idx > 0 /\ Beats(r.sim, best) THEN r ELSE best
             Folds(f) == f = [s \in SUBSET DOMAIN seq |->
                                IF s = {} THEN Nobody ELSE Better(f[s \ {Max(s)}], seq[Max(s)])]
             End(w) == IF w * chunk > n THEN n ELSE w * chunk
  <2>4. Nearest(es, q, workers) = (CHOOSE f : Folds(f))[DOMAIN seq]
    BY <1>1, <1>3, <2>2 DEF Nearest, FoldLeft, MapThenFoldSet
  <2>5. DOMAIN seq = 1 .. workers /\ \A w \in 1 .. workers : seq[w] = Part(w)
    OBVIOUS
  <2>6. ASSUME NEW w \in 1 .. workers
        PROVE  /\ End(w - 1) \in Nat /\ End(w) \in Nat /\ End(w - 1) <= End(w) /\ End(w) <= n
               /\ IsBest(c, End(w - 1), End(w), Part(w))
    <3>1. PICK a \in Nat, b \in Nat : a = (w - 1) * chunk /\ b = w * chunk /\ a <= b
      <4>1. w - 1 \in Nat /\ w \in Nat /\ w = (w - 1) + 1
        BY <2>1
      <4>2. (w - 1) * chunk \in Nat /\ w * chunk = (w - 1) * chunk + chunk
        BY <4>1
      <4> QED
        BY <4>2
    <3>2. /\ End(w - 1) = IF a > n THEN n ELSE a
          /\ End(w) = IF b > n THEN n ELSE b
      BY <3>1
    <3>3. CASE a >= n
      <4>1. Part(w) = Nobody /\ End(w - 1) = n /\ End(w) = n
        BY <3>1, <3>2, <3>3
      <4> HIDE DEF Part, End
      <4> QED
        BY <4>1, BestOfNone
    <3>4. CASE a < n
      <4>1. PICK hi \in Nat : hi = (IF b > n THEN n ELSE b) /\ a <= hi /\ hi <= n
        BY <3>1, <3>4
      <4>2. Part(w) = NearestRange(es, q, a, hi) /\ End(w - 1) = a /\ End(w) = hi
        BY <3>1, <3>2, <3>4, <4>1
      <4>3. IsBest(c, a, hi, NearestRange(es, q, a, hi))
        BY <1>1, <2>3, <4>1, RangeFindsBest
      <4> HIDE DEF Part, End
      <4> QED
        BY <4>1, <4>2, <4>3
    <3> QED
      BY <3>1, <3>3, <3>4
  <2>7. End(0) = 0 /\ End(workers) = n
    BY <2>1, <2>2
  <2> HIDE DEF Part, End, seq
  <2>8. \A w \in 1 .. workers : seq[w] \in Found
    BY <2>5, <2>6 DEF IsBest
  <2> DEFINE st == [p \in (1 .. workers) \X Found |-> Better(p[2], seq[p[1]])]
  <2>9. st \in [(1 .. workers) \X Found -> Found] /\ Nobody \in Found
    BY <2>8, BestOfNone DEF IsBest
  <2>10. \A w \in 1 .. workers, b \in Found : st[<<w, b>>] = Better(b, seq[w])
    OBVIOUS
  <2> HIDE DEF Better, st
  <2>11. PICK g : g \in [SUBSET (1 .. workers) -> Found] /\ IsFold(g, workers, Nobody, st)
    BY <2>1, <2>9, FoldExists
  <2>12. Folds(g)
    <3>1. \A s \in SUBSET (1 .. workers) : s # {} => Max(s) \in 1 .. workers /\ g[s \ {Max(s)}] \in Found
      BY <2>1, <2>11, MaxInside
    <3> QED
      BY <2>5, <2>10, <2>11, <3>1 DEF IsFold
  <2> DEFINE f == CHOOSE h : Folds(h)
  <2>13. Folds(f)
    BY <2>12
  <2> HIDE DEF f
  <2>14. f[{}] = Nobody
    BY <2>13
  <2>15. ASSUME NEW m \in 1 .. workers
         PROVE  f[1 .. m] = Better(f[1 .. m - 1], seq[m])
    <3>1. Max(1 .. m) = m
      BY MaxOfInterval
    <3>2. (1 .. m) \ {m} = 1 .. m - 1
      OBVIOUS
    <3>3. m \in 1 .. m /\ \A i \in 1 .. m : i \in 1 .. workers
      BY <2>1
    <3> QED
      BY <2>5, <2>13, <3>1, <3>2, <3>3
  <2> HIDE DEF Folds
  <2> DEFINE G == {m \in 0 .. workers : IsBest(c, 0, End(m), f[1 .. m])}
  <2>16. 0 \in G
    <3>1. 1 .. 0 = {}
      OBVIOUS
    <3> QED
      BY <2>1, <2>7, <2>14, <3>1, BestOfNone
  <2>17. ASSUME NEW m \in 0 .. workers - 1, m \in G
         PROVE  m + 1 \in G
    <3>1. PICK w \in 1 .. workers : w = m + 1 /\ w - 1 = m
      BY <2>1
    <3>2. PICK mid \in Nat, hi \in Nat : mid = End(m) /\ hi = End(w) /\ mid <= hi /\ hi <= n
      BY <2>6, <3>1
    <3>3. PICK a, b : a = f[1 .. m] /\ b = seq[w]
      OBVIOUS
    <3>4. IsBest(c, 0, mid, a) /\ IsBest(c, mid, hi, b)
      BY <2>5, <2>6, <2>17, <3>1, <3>2, <3>3
    <3>5. f[1 .. w] = IF b.idx > 0 /\ Beats(b.sim, a) THEN b ELSE a
      BY <2>15, <3>1, <3>3 DEF Better
    <3>6. IsBest(c, 0, hi, f[1 .. w])
      BY <1>1, <2>3, <3>2, <3>4, <3>5, MergeBest
    <3> QED
      BY <3>1, <3>2, <3>6
  <2> HIDE DEF G
  <2>18. 0 .. workers \subseteq G
    BY <2>1, <2>16, <2>17, StepsReach
  <2>19. IsBest(c, 0, n, f[1 .. workers])
    BY <2>1, <2>7, <2>18 DEF G
  <2> QED
    BY <1>1, <2>3, <2>4, <2>5, <2>19 DEF f
<1> QED
  BY <1>2, <1>3

\* So every scan of the list, by any number of workers, is serial.
LEMMA ScansAgree ==
  ASSUME NEW es \in Seq(Entry), NEW q \in Vecs, NEW workers \in Int
  PROVE  LET S(k) == Sim[<<q, es[k].vec>>]
             Numbers == {k \in DOMAIN es : S(k) # NotANumber}
             best == Nearest(es, q, workers).idx
         IN  IF Numbers = {} THEN best = 0
             ELSE /\ best \in Numbers
                  /\ \A k \in Numbers : S(k) <= S(best) /\ (S(k) = S(best) => best <= k)
<1>1. PICK r : r = Nearest(es, q, workers) /\ IsBest(Sims(es, q), 0, Len(es), r)
  BY ScanFindsBest
<1>2. DOMAIN es = 1 .. Len(es) /\ Len(es) \in Nat /\ 0 + 1 = 1
  BY SimsFacts
<1>3. \A k \in DOMAIN es : Sims(es, q)[k] = Sim[<<q, es[k].vec>>]
  BY <1>2 DEF Sims
<1>4. Nobody.idx = 0
  BY DEF Nobody
<1> QED
  BY <1>1, <1>2, <1>3, <1>4 DEF IsBest

-----------------------------------------------------------------------------
\* What joins and what leaves when one is appended and, at the cap, the first dropped.
Shifted(s, t, x, cap) ==
  LET d == IF cap > 0 /\ Len(s) >= cap THEN 1 ELSE 0
  IN  /\ Len(t) = Len(s) - d + 1 /\ t[Len(t)] = x
      /\ \A i \in 1 .. Len(s) - d : t[i] = s[i + d]

\* IsNewest of a sequence of length n.
NewestIn(n, s, all, cap) ==
  /\ cap > 0 => n <= cap
  /\ \A i \in 1 .. n : s[i] \in all
  /\ \A i, j \in 1 .. n : i < j => s[i] < s[j]
  /\ \A x \in all : \/ \E i \in 1 .. n : s[i] = x
                    \/ cap > 0 /\ n = cap /\ \A i \in 1 .. n : x < s[i]

\* A sequence of the newest stays one when a newer member joins and, at the cap, the
\* oldest leaves.
LEMMA NewerJoins ==
  ASSUME NEW n \in Nat, NEW s, NEW t, NEW all \in SUBSET Nat, NEW cap \in Int,
         NewestIn(n, s, all, cap), NEW x \in Nat, \A y \in all : y < x,
         NEW d \in 0 .. 1, d = 1 <=> (cap > 0 /\ n >= cap),
         \A i \in 1 .. n - d : t[i] = s[i + d], t[n - d + 1] = x
  PROVE  NewestIn(n - d + 1, t, all \cup {x}, cap)
<1>1. /\ d \in {0, 1} /\ (d = 1 => cap > 0 /\ n = cap) /\ (d = 0 /\ cap > 0 => n < cap)
      /\ (d = 1 => n > 0)
  BY DEF NewestIn
<1>2. \A i \in 1 .. n : s[i] \in all /\ s[i] \in Nat /\ s[i] < x
  BY DEF NewestIn
<1>3. \A i \in 1 .. n - d + 1 : IF i = n - d + 1 THEN t[i] = x ELSE i + d \in 1 .. n /\ t[i] = s[i + d]
  BY <1>1
<1>4. cap > 0 => n - d + 1 <= cap
  BY <1>1
<1>5. \A i \in 1 .. n - d + 1 : t[i] \in all \cup {x}
  BY <1>2, <1>3
<1>6. ASSUME NEW i \in 1 .. n - d + 1, NEW j \in 1 .. n - d + 1, i < j
      PROVE  t[i] < t[j]
  <2>1. i # n - d + 1 /\ i + d \in 1 .. n /\ t[i] = s[i + d]
    BY <1>1, <1>3, <1>6
  <2>2. CASE j = n - d + 1
    BY <1>2, <1>3, <2>1, <2>2
  <2>3. CASE j # n - d + 1
    BY <1>1, <1>3, <1>6, <2>1, <2>3 DEF NewestIn
  <2> QED
    BY <2>2, <2>3
<1>7. ASSUME NEW y \in all \cup {x}
      PROVE  \/ \E i \in 1 .. n - d + 1 : t[i] = y
             \/ cap > 0 /\ n - d + 1 = cap /\ \A i \in 1 .. n - d + 1 : y < t[i]
  <2>1. CASE y = x
    BY <1>1, <1>3, <2>1
  <2>2. CASE y # x /\ \E i \in 1 .. n : s[i] = y /\ i - d \in 1 .. n - d
    BY <1>1, <1>3, <2>2
  <2>3. CASE y # x /\ \E i \in 1 .. n : s[i] = y /\ i - d \notin 1 .. n - d
    <3>1. d = 1 /\ y = s[1] /\ 1 \in 1 .. n
      BY <1>1, <2>3
    <3>2. n - d + 1 = cap /\ cap > 0
      BY <1>1, <3>1
    <3>3. ASSUME NEW i \in 1 .. n - d + 1 PROVE y < t[i]
      <4>1. CASE i = n - d + 1
        BY <1>2, <1>3, <3>1, <4>1
      <4>2. CASE i # n - d + 1
        BY <1>3, <3>1, <4>2 DEF NewestIn
      <4> QED
        BY <4>1, <4>2
    <3> QED
      BY <3>2, <3>3
  <2>4. CASE y # x /\ ~\E i \in 1 .. n : s[i] = y
    <3>1. y \in all /\ cap > 0 /\ n = cap /\ \A i \in 1 .. n : y < s[i]
      BY <2>4 DEF NewestIn
    <3>2. y < x /\ n - d + 1 = cap
      BY <1>1, <3>1
    <3> QED
      BY <1>3, <3>1, <3>2
  <2> QED
    BY <2>1, <2>2, <2>3, <2>4
<1> QED
  BY <1>4, <1>5, <1>6, <1>7 DEF NewestIn

\* The same of sequences.
LEMMA NewestStays ==
  ASSUME NEW s \in Seq(Nat), NEW t \in Seq(Nat), NEW all \in SUBSET Nat, NEW cap \in Int,
         IsNewest(s, all, cap), NEW x \in Nat, \A y \in all : y < x, Shifted(s, t, x, cap)
  PROVE  IsNewest(t, all \cup {x}, cap)
<1>1. PICK n \in Nat : n = Len(s) /\ DOMAIN s = 1 .. n
  OBVIOUS
<1>2. PICK d \in 0 .. 1 : d = IF cap > 0 /\ n >= cap THEN 1 ELSE 0
  OBVIOUS
<1>3. Len(t) = n - d + 1 /\ t[n - d + 1] = x /\ \A i \in 1 .. n - d : t[i] = s[i + d]
  BY <1>1, <1>2 DEF Shifted
<1>4. NewestIn(n, s, all, cap)
  BY <1>1 DEF IsNewest, NewestIn
<1>5. d = 1 <=> (cap > 0 /\ n >= cap)
  BY <1>2
<1>6. NewestIn(n - d + 1, t, all \cup {x}, cap)
  <2>1. n \in Nat /\ d \in 0 .. 1
    BY <1>1, <1>2
  <2>2. (\A i \in 1 .. n - d : t[i] = s[i + d]) /\ t[n - d + 1] = x
    BY <1>3
  <2> QED
    BY <1>4, <1>5, <2>1, <2>2, NewerJoins, Zenon
<1>7. DOMAIN t = 1 .. n - d + 1
  <2>1. DOMAIN t = 1 .. Len(t)
    BY LenProperties
  <2> QED
    BY <1>3, <2>1
<1> QED
  BY <1>3, <1>6, <1>7 DEF IsNewest, NewestIn

\* Nothing is the newest of nothing.
LEMMA NewestOfNone ==
  ASSUME NEW cap \in Int
  PROVE  IsNewest(<< >>, {}, cap)
BY DEF IsNewest

-----------------------------------------------------------------------------
\* The list after an insert.
LEMMA InsertShifts ==
  ASSUME NEW es \in Seq(Entry), NEW e \in Entry
  PROVE  InsertEntry(es, e) \in Seq(Entry) /\ Shifted(es, InsertEntry(es, e), e, Capacity)
<1>1. CASE Capacity > 0 /\ Len(es) >= Capacity
  <2>1. Len(es) \in Nat /\ Len(es) > 0 /\ es # << >>
    BY <1>1, ReplayAssumption
  <2>2. PICK t : t = Tail(es)
    OBVIOUS
  <2>3. t \in Seq(Entry) /\ Len(t) = Len(es) - 1 /\ \A i \in 1 .. Len(t) : t[i] = es[i + 1]
    BY <2>1, <2>2
  <2>4. InsertEntry(es, e) = Append(t, e)
    BY <1>1, <2>2 DEF InsertEntry
  <2>5. /\ Append(t, e) \in Seq(Entry) /\ Len(Append(t, e)) = Len(t) + 1
        /\ Append(t, e)[Len(t) + 1] = e /\ \A i \in 1 .. Len(t) : Append(t, e)[i] = t[i]
    BY <2>3
  <2> QED
    BY <1>1, <2>1, <2>3, <2>4, <2>5 DEF Shifted
<1>2. CASE ~(Capacity > 0 /\ Len(es) >= Capacity)
  <2>1. InsertEntry(es, e) = Append(es, e) /\ Len(es) \in Nat
    BY <1>2 DEF InsertEntry
  <2>2. /\ Append(es, e) \in Seq(Entry) /\ Len(Append(es, e)) = Len(es) + 1
        /\ Append(es, e)[Len(es) + 1] = e /\ \A i \in 1 .. Len(es) : Append(es, e)[i] = es[i]
    OBVIOUS
  <2> QED
    BY <1>2, <2>1, <2>2 DEF Shifted
<1> QED
  BY <1>1, <1>2

\* An entry's window after an observation.
LEMMA AppendShifts ==
  ASSUME NEW obs \in Seq(Observed), NEW o \in Observed
  PROVE  AppendObs(obs, o) \in Seq(Observed) /\ Shifted(obs, AppendObs(obs, o), o, ObsWindow)
<1>1. CASE Len(obs) >= ObsWindow
  <2>1. Len(obs) \in Nat /\ Len(obs) > 0 /\ obs # << >> /\ ObsWindow > 0
    BY <1>1, ReplayAssumption
  <2>2. PICK t : t = Tail(obs)
    OBVIOUS
  <2>3. t \in Seq(Observed) /\ Len(t) = Len(obs) - 1 /\ \A i \in 1 .. Len(t) : t[i] = obs[i + 1]
    BY <2>1, <2>2
  <2>4. AppendObs(obs, o) = Append(t, o)
    BY <1>1, <2>2 DEF AppendObs
  <2>5. /\ Append(t, o) \in Seq(Observed) /\ Len(Append(t, o)) = Len(t) + 1
        /\ Append(t, o)[Len(t) + 1] = o /\ \A i \in 1 .. Len(t) : Append(t, o)[i] = t[i]
    BY <2>3
  <2> QED
    BY <1>1, <2>1, <2>3, <2>4, <2>5 DEF Shifted
<1>2. CASE ~(Len(obs) >= ObsWindow)
  <2>1. AppendObs(obs, o) = Append(obs, o) /\ Len(obs) \in Nat
    BY <1>2 DEF AppendObs
  <2>2. /\ Append(obs, o) \in Seq(Observed) /\ Len(Append(obs, o)) = Len(obs) + 1
        /\ Append(obs, o)[Len(obs) + 1] = o /\ \A i \in 1 .. Len(obs) : Append(obs, o)[i] = obs[i]
    OBVIOUS
  <2> QED
    BY <1>2, <2>1, <2>2 DEF Shifted
<1> QED
  BY <1>1, <1>2

\* What a shifted sequence holds.
LEMMA ShiftedFrom ==
  ASSUME NEW S, NEW s \in Seq(S), NEW t \in Seq(S), NEW x, NEW cap \in Int, Shifted(s, t, x, cap)
  PROVE  \A i \in DOMAIN t : t[i] = x \/ \E j \in DOMAIN s : t[i] = s[j]
<1>1. PICK n \in Nat : n = Len(s) /\ DOMAIN s = 1 .. n
  OBVIOUS
<1>2. PICK d \in 0 .. 1 : d = IF cap > 0 /\ n >= cap THEN 1 ELSE 0
  OBVIOUS
<1>3. Len(t) = n - d + 1 /\ t[n - d + 1] = x /\ \A i \in 1 .. n - d : t[i] = s[i + d] /\ i + d \in 1 .. n
  BY <1>1, <1>2 DEF Shifted
<1>4. DOMAIN t = 1 .. n - d + 1
  BY <1>3
<1>5. ASSUME NEW i \in 1 .. n - d + 1
      PROVE  t[i] = x \/ \E j \in 1 .. n : t[i] = s[j]
  <2>1. i = n - d + 1 \/ i \in 1 .. n - d
    BY <1>1, <1>2
  <2> QED
    BY <1>3, <2>1
<1> QED
  BY <1>1, <1>4, <1>5

\* The numbers of the records that a window and a list were made from.
LEMMA ByFacts ==
  ASSUME NEW obs \in Seq(Observed)
  PROVE  By(obs) \in Seq(Nat) /\ Len(By(obs)) = Len(obs) /\ \A i \in 1 .. Len(obs) : By(obs)[i] = obs[i].by
<1>1. \A o \in Observed : o.by \in Nat
  BY DEF Observed
<1>2. PICK n \in Nat : n = Len(obs) /\ DOMAIN obs = 1 .. n
  OBVIOUS
<1>3. \A i \in 1 .. n : obs[i].by \in Nat
  BY <1>1, <1>2
<1>4. By(obs) = [i \in 1 .. n |-> obs[i].by]
  BY <1>2 DEF By
<1> QED
  BY <1>2, <1>3, <1>4

\* They shift with the observations.
LEMMA ShiftedBy ==
  ASSUME NEW s \in Seq(Observed), NEW t \in Seq(Observed), NEW x, NEW cap \in Int, Shifted(s, t, x, cap)
  PROVE  Shifted(By(s), By(t), x.by, cap)
<1>1. PICK n \in Nat : n = Len(s)
  OBVIOUS
<1>2. PICK d \in 0 .. 1 : d = IF cap > 0 /\ n >= cap THEN 1 ELSE 0
  OBVIOUS
<1>3. Len(t) = n - d + 1 /\ t[n - d + 1] = x /\ \A i \in 1 .. n - d : t[i] = s[i + d]
  BY <1>1, <1>2 DEF Shifted
<1>4. /\ Len(By(s)) = n /\ \A i \in 1 .. n : By(s)[i] = s[i].by
      /\ Len(By(t)) = n - d + 1 /\ \A i \in 1 .. n - d + 1 : By(t)[i] = t[i].by
  BY <1>1, <1>3, ByFacts
<1>5. /\ \A i \in 1 .. n - d : i \in 1 .. n - d + 1 /\ i + d \in 1 .. n
      /\ n - d + 1 \in 1 .. n - d + 1
  BY <1>1, <1>2
<1>6. By(t)[n - d + 1] = x.by /\ \A i \in 1 .. n - d : By(t)[i] = By(s)[i + d]
  BY <1>3, <1>4, <1>5
<1> QED
  BY <1>1, <1>2, <1>4, <1>6 DEF Shifted

-----------------------------------------------------------------------------
\* The records of a log, and what the properties read off it.
Logged == [set : IdSets, vec : Vecs, nb : Nat, fate : {"tp", "fp", "explore"}]
Logs   == {lg \in Seq(Logged) : \A i \in 1 .. Len(lg) : lg[i].nb < i}

Labels(lg, src) == {i \in 1 .. Len(lg) : lg[i].nb = src /\ lg[i].fate = "explore"}
Ended(lg, fate) == {i \in 1 .. Len(lg) : lg[i].fate = fate}
Inserts(lg, a)  ==
  {i \in 1 .. Len(lg) : /\ lg[i].fate = "explore"
                        /\ lg[i].nb = 0 \/ a = "static" \/ lg[lg[i].nb].set # lg[i].set}

\* An entry's window, and its label, are what the log says.
WindowOf(lg, e) ==
  /\ IsNewest(By(e.obs), Labels(lg, e.src), ObsWindow)
  /\ \A i \in DOMAIN e.obs : e.obs[i].c <=> lg[e.obs[i].by].set = e.set

\* A log only grows at its end.
Grows(lg, rec, lg2) ==
  /\ Len(lg2) = Len(lg) + 1 /\ lg2[Len(lg) + 1] = rec
  /\ \A i \in 1 .. Len(lg) : lg2[i] = lg[i]

\* How it is appended to.
LEMMA LogGrows ==
  ASSUME NEW lg \in Logs, NEW rec \in Logged, rec.nb <= Len(lg)
  PROVE  Append(lg, rec) \in Logs /\ Grows(lg, rec, Append(lg, rec)) /\ Len(lg) \in Nat
<1>1. lg \in Seq(Logged) /\ Len(lg) \in Nat
  BY DEF Logs
<1>2. /\ Append(lg, rec) \in Seq(Logged) /\ Len(Append(lg, rec)) = Len(lg) + 1
      /\ Append(lg, rec)[Len(lg) + 1] = rec /\ \A i \in 1 .. Len(lg) : Append(lg, rec)[i] = lg[i]
  BY <1>1
<1>3. rec.nb \in Nat /\ \A i \in 1 .. Len(lg) : lg[i].nb < i
  BY DEF Logs, Logged
<1>4. \A i \in 1 .. Len(lg) + 1 : Append(lg, rec)[i].nb < i
  BY <1>1, <1>2, <1>3
<1> QED
  BY <1>1, <1>2, <1>4 DEF Logs, Grows

\* What that adds to the sets of its records.
LEMMA LogSets ==
  ASSUME NEW lg \in Logs, NEW rec \in Logged, rec.nb <= Len(lg), NEW lg2 \in Logs, Grows(lg, rec, lg2),
         NEW m \in Nat, m = Len(lg) + 1
  PROVE  /\ \A src : Labels(lg2, src) = IF rec.nb = src /\ rec.fate = "explore"
                                        THEN Labels(lg, src) \cup {m} ELSE Labels(lg, src)
         /\ \A fate : Ended(lg2, fate) = IF rec.fate = fate THEN Ended(lg, fate) \cup {m} ELSE Ended(lg, fate)
         /\ \A a : Inserts(lg2, a) =
              IF rec.fate = "explore" /\ (rec.nb = 0 \/ a = "static" \/ lg[rec.nb].set # rec.set)
              THEN Inserts(lg, a) \cup {m} ELSE Inserts(lg, a)
<1>1. PICK n \in Nat : n = Len(lg) /\ m = n + 1 /\ Len(lg2) = m
  BY DEF Grows, Logs
<1>2. lg2[m] = rec /\ \A i \in 1 .. n : lg2[i] = lg[i]
  BY <1>1 DEF Grows
<1>3. \A i : i \in 1 .. m <=> i \in 1 .. n \/ i = m
  BY <1>1
<1>4. /\ \A i \in 1 .. n : lg[i].nb \in Nat /\ (lg[i].nb # 0 => lg[i].nb \in 1 .. n)
      /\ rec.nb \in Nat /\ (rec.nb # 0 => rec.nb \in 1 .. n)
  <2>1. \A x \in Logged : x.nb \in Nat
    BY DEF Logged
  <2>2. \A i \in 1 .. n : lg[i] \in Logged /\ lg[i].nb < i
    BY <1>1 DEF Logs
  <2> QED
    BY <1>1, <2>1, <2>2
<1>5. ASSUME NEW src
      PROVE  Labels(lg2, src) = IF rec.nb = src /\ rec.fate = "explore"
                                THEN Labels(lg, src) \cup {m} ELSE Labels(lg, src)
  BY <1>1, <1>2, <1>3 DEF Labels
<1>6. ASSUME NEW fate
      PROVE  Ended(lg2, fate) = IF rec.fate = fate THEN Ended(lg, fate) \cup {m} ELSE Ended(lg, fate)
  BY <1>1, <1>2, <1>3 DEF Ended
<1>7. ASSUME NEW a
      PROVE  Inserts(lg2, a) =
               IF rec.fate = "explore" /\ (rec.nb = 0 \/ a = "static" \/ lg[rec.nb].set # rec.set)
               THEN Inserts(lg, a) \cup {m} ELSE Inserts(lg, a)
  <2>1. \A i \in 1 .. n : i \in Inserts(lg2, a) <=> i \in Inserts(lg, a)
    BY <1>1, <1>2, <1>3, <1>4 DEF Inserts
  <2>2. m \in Inserts(lg2, a) <=> rec.fate = "explore" /\ (rec.nb = 0 \/ a = "static" \/ lg[rec.nb].set # rec.set)
    BY <1>1, <1>2, <1>3, <1>4 DEF Inserts
  <2>3. Inserts(lg2, a) \subseteq 1 .. m /\ Inserts(lg, a) \subseteq 1 .. n
    BY <1>1 DEF Inserts
  <2>4. Inserts(lg2, a) \ {m} = Inserts(lg, a) /\ m \notin Inserts(lg, a)
    <3>1. \A i : i \in Inserts(lg2, a) \ {m} <=> i \in Inserts(lg, a)
      BY <1>1, <1>3, <2>1, <2>3
    <3> QED
      BY <1>1, <2>3, <3>1
  <2>5. CASE m \in Inserts(lg2, a)
    BY <2>2, <2>4, <2>5
  <2>6. CASE m \notin Inserts(lg2, a)
    BY <2>2, <2>4, <2>6
  <2> QED
    BY <2>5, <2>6
<1> QED
  BY <1>5, <1>6, <1>7

\* A record that taught an entry nothing leaves its window alone.
LEMMA WindowStands ==
  ASSUME NEW lg \in Logs, NEW rec \in Logged, rec.nb <= Len(lg), NEW lg2 \in Logs, Grows(lg, rec, lg2),
         NEW e \in Entry, WindowOf(lg, e), ~(rec.nb = e.src /\ rec.fate = "explore")
  PROVE  WindowOf(lg2, e)
<1>1. Labels(lg2, e.src) = Labels(lg, e.src)
  BY LogSets, LogGrows
<1>2. PICK obs \in Seq(Observed) : obs = e.obs
  BY DEF Entry
<1>3. \A i \in DOMAIN obs : obs[i].by \in Labels(lg, e.src)
  BY <1>2 DEF WindowOf, IsNewest, By
<1>4. \A i \in DOMAIN obs : lg2[obs[i].by] = lg[obs[i].by]
  BY <1>3 DEF Labels, Grows
<1> QED
  BY <1>1, <1>2, <1>4 DEF WindowOf

\* A record that taught one joins its window.
LEMMA WindowGrows ==
  ASSUME NEW lg \in Logs, NEW rec \in Logged, rec.nb <= Len(lg), NEW lg2 \in Logs, Grows(lg, rec, lg2),
         NEW e \in Entry, WindowOf(lg, e), rec.nb = e.src, rec.fate = "explore",
         NEW o \in Observed, o.by = Len(lg) + 1, o.c <=> rec.set = e.set,
         NEW e2 \in Entry, e2 = [e EXCEPT !.obs = AppendObs(@, o)]
  PROVE  WindowOf(lg2, e2) /\ e2.src = e.src /\ e2.set = e.set
<1>1. PICK m \in Nat : m = Len(lg) + 1 /\ o.by = m
  BY LogGrows
<1>2. PICK obs \in Seq(Observed) : obs = e.obs
  BY DEF Entry
<1>3. e2.src = e.src /\ e2.set = e.set /\ e2.obs = AppendObs(obs, o)
  BY <1>2 DEF Entry
<1>4. PICK obs2 : obs2 = AppendObs(obs, o)
  OBVIOUS
<1>5. obs2 \in Seq(Observed) /\ Shifted(obs, obs2, o, ObsWindow)
  BY <1>4, AppendShifts
<1>6. Labels(lg2, e.src) = Labels(lg, e.src) \cup {m}
  BY <1>1, LogSets
<1>7. /\ By(obs) \in Seq(Nat) /\ Len(By(obs)) = Len(obs) /\ \A i \in 1 .. Len(obs) : By(obs)[i] = obs[i].by
      /\ By(obs2) \in Seq(Nat) /\ Len(By(obs2)) = Len(obs2) /\ \A i \in 1 .. Len(obs2) : By(obs2)[i] = obs2[i].by
  BY <1>5, ByFacts
<1>8. ObsWindow \in Nat /\ ObsWindow > 0
  BY ReplayAssumption
<1>9. Shifted(By(obs), By(obs2), m, ObsWindow)
  BY <1>1, <1>5, <1>7, <1>8, ShiftedBy
<1>10. IsNewest(By(obs), Labels(lg, e.src), ObsWindow)
  BY <1>2 DEF WindowOf
<1>11. Labels(lg, e.src) \in SUBSET Nat /\ \A y \in Labels(lg, e.src) : y < m
  BY <1>1, LogGrows DEF Labels
<1>12. IsNewest(By(obs2), Labels(lg2, e.src), ObsWindow)
  <2>1. PICK s \in Seq(Nat), t \in Seq(Nat), all \in SUBSET Nat :
          s = By(obs) /\ t = By(obs2) /\ all = Labels(lg, e.src)
    BY <1>7, <1>11
  <2>2. Shifted(s, t, m, ObsWindow) /\ IsNewest(s, all, ObsWindow) /\ \A y \in all : y < m
    BY <1>9, <1>10, <1>11, <2>1
  <2>3. ObsWindow \in Int /\ m \in Nat
    BY <1>1, <1>8
  <2>4. IsNewest(t, all \cup {m}, ObsWindow)
    BY <2>1, <2>2, <2>3, NewestStays
  <2> QED
    BY <1>6, <2>1, <2>4
<1>13. ASSUME NEW i \in DOMAIN obs2
       PROVE  obs2[i].c <=> lg2[obs2[i].by].set = e.set
  <2>1. obs2[i] = o \/ \E j \in DOMAIN obs : obs2[i] = obs[j]
    BY <1>5, <1>8, ShiftedFrom
  <2>2. CASE obs2[i] = o
    BY <1>1, <2>2 DEF Grows
  <2>3. ASSUME NEW j \in DOMAIN obs, obs2[i] = obs[j]
        PROVE  obs2[i].c <=> lg2[obs2[i].by].set = e.set
    <3>1. obs[j].c <=> lg[obs[j].by].set = e.set
      BY <1>2 DEF WindowOf
    <3>2. obs[j].by \in Labels(lg, e.src)
      BY <1>10 DEF IsNewest, By
    <3>3. lg2[obs[j].by] = lg[obs[j].by]
      BY <3>2 DEF Labels, Grows
    <3> QED
      BY <2>3, <3>1, <3>3
  <2> QED
    BY <2>1, <2>2, <2>3
<1> QED
  BY <1>3, <1>4, <1>12, <1>13 DEF WindowOf

-----------------------------------------------------------------------------
\* The list against the log.
SourcesOf(es) == [k \in DOMAIN es |-> es[k].src]

ListIn(es, lg, a) ==
  /\ IsNewest(SourcesOf(es), Inserts(lg, a), Capacity)
  /\ \A k \in 1 .. Len(es) : es[k].set = lg[es[k].src].set

WindowsIn(es, lg) == \A k \in 1 .. Len(es) : WindowOf(lg, es[k])

\* The same entries but for what they have observed.
Alike(es, es2) ==
  /\ Len(es2) = Len(es)
  /\ \A k \in 1 .. Len(es) : es2[k].src = es[k].src /\ es2[k].set = es[k].set

\* The records of a list, as numbers.
LEMMA SourcesFacts ==
  ASSUME NEW es \in Seq(Entry)
  PROVE  /\ SourcesOf(es) \in Seq(Nat) /\ Len(SourcesOf(es)) = Len(es)
         /\ \A k \in 1 .. Len(es) : SourcesOf(es)[k] = es[k].src
<1>1. \A e \in Entry : e.src \in Nat
  BY DEF Entry
<1>2. PICK n \in Nat : n = Len(es) /\ DOMAIN es = 1 .. n
  OBVIOUS
<1>3. \A k \in 1 .. n : es[k].src \in Nat
  BY <1>1, <1>2
<1>4. SourcesOf(es) = [k \in 1 .. n |-> es[k].src]
  BY <1>2 DEF SourcesOf
<1> QED
  BY <1>2, <1>3, <1>4

\* They shift with the entries.
LEMMA ShiftedSources ==
  ASSUME NEW s \in Seq(Entry), NEW t \in Seq(Entry), NEW x, NEW cap \in Int, Shifted(s, t, x, cap)
  PROVE  Shifted(SourcesOf(s), SourcesOf(t), x.src, cap)
<1>1. PICK n \in Nat : n = Len(s)
  OBVIOUS
<1>2. PICK d \in 0 .. 1 : d = IF cap > 0 /\ n >= cap THEN 1 ELSE 0
  OBVIOUS
<1>3. Len(t) = n - d + 1 /\ t[n - d + 1] = x /\ \A i \in 1 .. n - d : t[i] = s[i + d]
  BY <1>1, <1>2 DEF Shifted
<1>4. /\ Len(SourcesOf(s)) = n /\ \A i \in 1 .. n : SourcesOf(s)[i] = s[i].src
      /\ Len(SourcesOf(t)) = n - d + 1 /\ \A i \in 1 .. n - d + 1 : SourcesOf(t)[i] = t[i].src
  BY <1>1, <1>3, SourcesFacts
<1>5. /\ \A i \in 1 .. n - d : i \in 1 .. n - d + 1 /\ i + d \in 1 .. n
      /\ n - d + 1 \in 1 .. n - d + 1
  <2>1. n - d >= 0
    <3>1. CASE d = 0
      BY <3>1
    <3>2. CASE d = 1
      BY <1>2, <3>2
    <3> QED
      BY <3>1, <3>2
  <2> QED
    BY <2>1
<1>6. SourcesOf(t)[n - d + 1] = x.src /\ \A i \in 1 .. n - d : SourcesOf(t)[i] = SourcesOf(s)[i + d]
  BY <1>3, <1>4, <1>5
<1> QED
  BY <1>1, <1>2, <1>4, <1>6 DEF Shifted

\* Every entry was made from a record of its own.
LEMMA ListFacts ==
  ASSUME NEW es \in Seq(Entry), NEW lg \in Logs, NEW a, ListIn(es, lg, a)
  PROVE  /\ \A k \in 1 .. Len(es) : es[k].src \in 1 .. Len(lg)
         /\ \A j, k \in 1 .. Len(es) : es[j].src = es[k].src => j = k
         /\ Inserts(lg, a) \in SUBSET Nat /\ \A y \in Inserts(lg, a) : y <= Len(lg)
<1>1. PICK n \in Nat, s \in Seq(Nat) : n = Len(es) /\ s = SourcesOf(es) /\ DOMAIN s = 1 .. n
  BY SourcesFacts
<1>2. Inserts(lg, a) \subseteq 1 .. Len(lg) /\ Len(lg) \in Nat
  BY DEF Inserts, Logs
<1>3. \A k \in 1 .. n : s[k] = es[k].src /\ s[k] \in Nat
  BY <1>1, SourcesFacts
<1>4. \A i \in 1 .. n : s[i] \in Inserts(lg, a)
  BY <1>1 DEF ListIn, IsNewest
<1>5. \A i, j \in 1 .. n : i < j => s[i] < s[j]
  BY <1>1 DEF ListIn, IsNewest
<1>6. \A j, k \in 1 .. n : s[j] = s[k] => j = k
  BY <1>3, <1>5
<1> QED
  BY <1>1, <1>2, <1>3, <1>4, <1>6

\* A record that is not inserted leaves the list what it should be, and so does teaching.
LEMMA ListStands ==
  ASSUME NEW es \in Seq(Entry), NEW lg \in Logs, NEW a, ListIn(es, lg, a),
         NEW rec \in Logged, rec.nb <= Len(lg), NEW lg2 \in Logs, Grows(lg, rec, lg2),
         NEW es2 \in Seq(Entry), Alike(es, es2), Inserts(lg2, a) = Inserts(lg, a)
  PROVE  ListIn(es2, lg2, a)
<1>1. PICK n \in Nat : n = Len(es) /\ Len(es2) = n
  BY DEF Alike
<1>2. DOMAIN es = 1 .. n /\ DOMAIN es2 = 1 .. n
  BY <1>1
<1>3. \A k \in 1 .. n : es2[k].src = es[k].src /\ es2[k].set = es[k].set
  BY <1>1 DEF Alike
<1>4. SourcesOf(es2) = SourcesOf(es)
  BY <1>2, <1>3 DEF SourcesOf
<1>5. \A k \in 1 .. n : lg2[es[k].src] = lg[es[k].src]
  BY <1>1, ListFacts DEF Grows
<1> QED
  BY <1>1, <1>3, <1>4, <1>5 DEF ListIn

\* One that is joins it, behind all others.
LEMMA ListGrows ==
  ASSUME NEW es \in Seq(Entry), NEW lg \in Logs, NEW a, ListIn(es, lg, a),
         NEW rec \in Logged, rec.nb <= Len(lg), NEW lg2 \in Logs, Grows(lg, rec, lg2),
         NEW es1 \in Seq(Entry), Alike(es, es1), NEW m \in Nat, m = Len(lg) + 1,
         Inserts(lg2, a) = Inserts(lg, a) \cup {m},
         NEW e \in Entry, e.src = m, e.set = rec.set,
         NEW es2, es2 = InsertEntry(es1, e)
  PROVE  es2 \in Seq(Entry) /\ ListIn(es2, lg2, a)
<1>1. PICK n \in Nat : n = Len(es) /\ Len(es1) = n /\ DOMAIN es = 1 .. n /\ DOMAIN es1 = 1 .. n
  BY DEF Alike
<1>2. \A k \in 1 .. n : es1[k].src = es[k].src /\ es1[k].set = es[k].set
  BY <1>1 DEF Alike
<1>3. SourcesOf(es1) = SourcesOf(es)
  BY <1>1, <1>2 DEF SourcesOf
<1>4. es2 \in Seq(Entry) /\ Shifted(es1, es2, e, Capacity)
  BY InsertShifts
<1>5. Capacity \in Int
  BY ReplayAssumption
<1>6. PICK s \in Seq(Nat), t \in Seq(Nat), all \in SUBSET Nat :
        s = SourcesOf(es1) /\ t = SourcesOf(es2) /\ all = Inserts(lg, a)
  BY <1>4, SourcesFacts, ListFacts
<1>7. Shifted(s, t, m, Capacity)
  BY <1>4, <1>5, <1>6, ShiftedSources
<1>8. IsNewest(s, all, Capacity)
  BY <1>3, <1>6 DEF ListIn
<1>9. \A y \in all : y < m
  <2>1. \A y \in all : y <= Len(lg) /\ y \in Nat
    BY <1>6, ListFacts
  <2>2. Len(lg) \in Nat
    BY DEF Logs
  <2> QED
    BY <2>1, <2>2
<1>10. IsNewest(t, all \cup {m}, Capacity)
  BY <1>5, <1>6, <1>7, <1>8, <1>9, NewestStays
<1>11. ASSUME NEW k \in 1 .. Len(es2)
       PROVE  es2[k].set = lg2[es2[k].src].set
  <2>1. es2[k] = e \/ \E j \in DOMAIN es1 : es2[k] = es1[j]
    BY <1>4, <1>5, ShiftedFrom
  <2>2. CASE es2[k] = e
    BY <2>2 DEF Grows
  <2>3. ASSUME NEW j \in 1 .. n, es2[k] = es1[j]
        PROVE  es2[k].set = lg2[es2[k].src].set
    <3>1. es[j].set = lg[es[j].src].set
      BY <1>1 DEF ListIn
    <3>2. lg2[es[j].src] = lg[es[j].src]
      BY <1>1, ListFacts DEF Grows
    <3> QED
      BY <1>2, <2>3, <3>1, <3>2
  <2> QED
    BY <1>1, <2>1, <2>2, <2>3
<1> QED
  BY <1>4, <1>6, <1>10, <1>11 DEF ListIn

-----------------------------------------------------------------------------
\* The windows against the log: a record that taught nobody leaves them alone.
LEMMA WindowsStand ==
  ASSUME NEW es \in Seq(Entry), NEW lg \in Logs, NEW a, ListIn(es, lg, a), WindowsIn(es, lg),
         NEW rec \in Logged, rec.nb <= Len(lg), NEW lg2 \in Logs, Grows(lg, rec, lg2),
         rec.nb = 0 \/ rec.fate # "explore"
  PROVE  WindowsIn(es, lg2)
<1> SUFFICES ASSUME NEW k \in 1 .. Len(es)
             PROVE  WindowOf(lg2, es[k])
  BY DEF WindowsIn
<1>1. es[k] \in Entry /\ WindowOf(lg, es[k])
  BY DEF WindowsIn
<1>2. es[k].src \in 1 .. Len(lg) /\ Len(lg) \in Nat
  BY ListFacts DEF Logs
<1>3. ~(rec.nb = es[k].src /\ rec.fate = "explore")
  BY <1>2
<1> QED
  BY <1>1, <1>3, WindowStands

\* The neighbor learns, at its own index, and nobody else does.
LEMMA WindowsTaught ==
  ASSUME NEW es \in Seq(Entry), NEW lg \in Logs, NEW a, ListIn(es, lg, a), WindowsIn(es, lg),
         NEW rec \in Logged, rec.nb <= Len(lg), NEW lg2 \in Logs, Grows(lg, rec, lg2),
         NEW x \in 1 .. Len(es), rec.nb = es[x].src, rec.fate = "explore",
         NEW o \in Observed, o.by = Len(lg) + 1, o.c <=> rec.set = es[x].set,
         NEW es2, es2 = [es EXCEPT ![x].obs = AppendObs(@, o)]
  PROVE  es2 \in Seq(Entry) /\ Alike(es, es2) /\ WindowsIn(es2, lg2)
<1>1. PICK n \in Nat : n = Len(es) /\ DOMAIN es = 1 .. n
  OBVIOUS
<1>2. PICK e \in Entry : e = es[x]
  OBVIOUS
<1>3. PICK obs \in Seq(Observed) : obs = AppendObs(e.obs, o)
  BY AppendShifts DEF Entry
<1>4. PICK e2 : e2 = [e EXCEPT !.obs = obs]
  OBVIOUS
<1>5. e2 \in Entry /\ e2.src = e.src /\ e2.set = e.set
  BY <1>3, <1>4 DEF Entry
<1>6. es2 = [es EXCEPT ![x] = e2]
  BY <1>2, <1>3, <1>4
<1>7. es2 \in Seq(Entry) /\ Len(es2) = n /\ es2[x] = e2 /\ \A k \in 1 .. n : k # x => es2[k] = es[k]
  BY <1>1, <1>5, <1>6
<1>8. Alike(es, es2)
  BY <1>1, <1>2, <1>5, <1>7 DEF Alike
<1>9. ASSUME NEW k \in 1 .. n
      PROVE  WindowOf(lg2, es2[k])
  <2>1. es[k] \in Entry /\ WindowOf(lg, es[k])
    BY <1>1 DEF WindowsIn
  <2>2. CASE k = x
    <3>1. e2 = [e EXCEPT !.obs = AppendObs(@, o)]
      BY <1>3, <1>4
    <3>2. WindowOf(lg, e) /\ rec.nb = e.src /\ (o.c <=> rec.set = e.set)
      BY <1>2, <2>1, <2>2
    <3>3. WindowOf(lg2, e2)
      BY <1>5, <3>1, <3>2, WindowGrows
    <3> QED
      BY <1>7, <2>2, <3>3
  <2>3. CASE k # x
    <3>1. es[k].src # rec.nb
      BY <1>1, <2>3, ListFacts
    <3>2. WindowOf(lg2, es[k])
      BY <2>1, <3>1, WindowStands
    <3> QED
      BY <1>7, <2>3, <3>2
  <2> QED
    BY <2>2, <2>3
<1> QED
  BY <1>7, <1>8, <1>9 DEF WindowsIn

\* A new entry was compared with nothing yet.
LEMMA WindowsInsert ==
  ASSUME NEW es \in Seq(Entry), NEW lg \in Logs, WindowsIn(es, lg),
         NEW e \in Entry, e.src = Len(lg), e.obs = << >>
  PROVE  WindowsIn(InsertEntry(es, e), lg)
<1>1. PICK es2 : es2 = InsertEntry(es, e)
  OBVIOUS
<1>2. es2 \in Seq(Entry) /\ Shifted(es, es2, e, Capacity) /\ Capacity \in Int
  BY <1>1, InsertShifts, ReplayAssumption
<1>3. WindowOf(lg, e)
  <2>1. \A i \in 1 .. Len(lg) : lg[i].nb # e.src
    <3>1. \A i \in 1 .. Len(lg) : lg[i] \in Logged /\ lg[i].nb < i /\ i <= Len(lg)
      BY DEF Logs
    <3>2. \A r \in Logged : r.nb \in Nat
      BY DEF Logged
    <3>3. Len(lg) \in Nat
      BY DEF Logs
    <3> QED
      BY <3>1, <3>2, <3>3
  <2>2. Labels(lg, e.src) = {}
    BY <2>1 DEF Labels
  <2>3. By(<< >>) = << >>
    BY DEF By
  <2>4. IsNewest(By(e.obs), Labels(lg, e.src), ObsWindow)
    BY <2>2, <2>3, NewestOfNone, ReplayAssumption
  <2> QED
    BY <2>4 DEF WindowOf
<1>4. ASSUME NEW k \in 1 .. Len(es2)
      PROVE  WindowOf(lg, es2[k])
  <2>1. es2[k] = e \/ \E j \in DOMAIN es : es2[k] = es[j]
    BY <1>2, ShiftedFrom
  <2> QED
    BY <1>3, <2>1 DEF WindowsIn
<1> QED
  BY <1>1, <1>4 DEF WindowsIn

-----------------------------------------------------------------------------
\* The score against the log.
ScoreIn(lg, t, f, x) ==
  /\ t \in Nat /\ f \in Nat /\ x \in Nat
  /\ t = Cardinality(Ended(lg, "tp")) /\ f = Cardinality(Ended(lg, "fp"))
  /\ t + f + x = Len(lg)

\* Every record is scored once.
LEMMA ScoreCounts ==
  ASSUME NEW lg \in Logs, NEW t, NEW f, NEW x, ScoreIn(lg, t, f, x),
         NEW rec \in Logged, rec.nb <= Len(lg), NEW lg2 \in Logs, Grows(lg, rec, lg2),
         NEW t2, t2 = (IF rec.fate = "tp" THEN t + 1 ELSE t),
         NEW f2, f2 = (IF rec.fate = "fp" THEN f + 1 ELSE f),
         NEW x2, x2 = (IF rec.fate = "explore" THEN x + 1 ELSE x)
  PROVE  ScoreIn(lg2, t2, f2, x2)
<1>1. PICK m \in Nat : m = Len(lg) + 1 /\ Len(lg2) = m
  BY LogGrows DEF Grows
<1>2. \A fate : Ended(lg2, fate) = IF rec.fate = fate THEN Ended(lg, fate) \cup {m} ELSE Ended(lg, fate)
  BY <1>1, LogSets
<1>3. Len(lg) \in Nat /\ m \notin 1 .. Len(lg)
  BY <1>1 DEF Logs
<1>4. \A fate : /\ IsFiniteSet(Ended(lg, fate)) /\ m \notin Ended(lg, fate)
                /\ Cardinality(Ended(lg, fate) \cup {m}) = Cardinality(Ended(lg, fate)) + 1
  <2> SUFFICES ASSUME NEW fate
               PROVE  /\ IsFiniteSet(Ended(lg, fate)) /\ m \notin Ended(lg, fate)
                      /\ Cardinality(Ended(lg, fate) \cup {m}) = Cardinality(Ended(lg, fate)) + 1
    OBVIOUS
  <2>1. Ended(lg, fate) \subseteq 1 .. Len(lg)
    BY DEF Ended
  <2>2. IsFiniteSet(1 .. Len(lg))
    BY <1>3, FS_Interval
  <2>3. IsFiniteSet(Ended(lg, fate))
    BY <2>1, <2>2, FS_Subset
  <2>4. m \notin Ended(lg, fate)
    BY <1>3, <2>1
  <2> QED
    BY <2>3, <2>4, FS_AddElement
<1>5. t2 = Cardinality(Ended(lg2, "tp")) /\ f2 = Cardinality(Ended(lg2, "fp"))
  BY <1>2, <1>4 DEF ScoreIn
<1>6. t2 \in Nat /\ f2 \in Nat /\ x2 \in Nat /\ t2 + f2 + x2 = m
  <2>1. rec.fate \in {"tp", "fp", "explore"}
    BY DEF Logged
  <2>2. t \in Nat /\ f \in Nat /\ x \in Nat /\ t + f + x + 1 = m
    BY <1>1, <1>3 DEF ScoreIn
  <2> QED
    BY <2>1, <2>2
<1> QED
  BY <1>1, <1>5, <1>6 DEF ScoreIn

\* Every record that was served had been preceded by NMin that its neighbor learned from.
TestedIn(lg) ==
  \A i \in 1 .. Len(lg) : lg[i].fate # "explore" =>
     /\ NMin <= ObsWindow
     /\ Cardinality({j \in 1 .. i - 1 : lg[j].nb = lg[i].nb /\ lg[j].fate = "explore"}) >= NMin

\* One more record, that was, or was not served.
LEMMA TestedGrows ==
  ASSUME NEW lg \in Logs, TestedIn(lg),
         NEW rec \in Logged, rec.nb <= Len(lg), NEW lg2 \in Logs, Grows(lg, rec, lg2),
         rec.fate # "explore" => NMin <= ObsWindow /\ Cardinality(Labels(lg, rec.nb)) >= NMin
  PROVE  TestedIn(lg2)
<1>1. PICK n \in Nat : n = Len(lg)
  BY DEF Logs
<1>2. Len(lg2) = n + 1 /\ lg2[n + 1] = rec /\ \A i \in 1 .. n : lg2[i] = lg[i]
  BY <1>1 DEF Grows
<1> SUFFICES ASSUME NEW i \in 1 .. n + 1, lg2[i].fate # "explore"
             PROVE  /\ NMin <= ObsWindow
                    /\ Cardinality({j \in 1 .. i - 1 : lg2[j].nb = lg2[i].nb /\ lg2[j].fate = "explore"}) >= NMin
  BY <1>2 DEF TestedIn
<1>3. CASE i = n + 1
  <2>1. 1 .. i - 1 = 1 .. n
    BY <1>3
  <2>2. {j \in 1 .. i - 1 : lg2[j].nb = lg2[i].nb /\ lg2[j].fate = "explore"} = Labels(lg, rec.nb)
    BY <1>1, <1>2, <1>3, <2>1 DEF Labels
  <2> QED
    BY <1>2, <1>3, <2>2
<1>4. CASE i \in 1 .. n
  <2>1. \A j \in 1 .. i - 1 : lg2[j] = lg[j]
    BY <1>2, <1>4
  <2>2. {j \in 1 .. i - 1 : lg2[j].nb = lg2[i].nb /\ lg2[j].fate = "explore"}
          = {j \in 1 .. i - 1 : lg[j].nb = lg[i].nb /\ lg[j].fate = "explore"}
    BY <1>2, <1>4, <2>1
  <2> QED
    BY <1>1, <1>2, <1>4, <2>2 DEF TestedIn
<1> QED
  BY <1>3, <1>4

\* An entry has no more observations than its window and its labels.
LEMMA WindowCounts ==
  ASSUME NEW lg \in Logs, NEW e \in Entry, WindowOf(lg, e)
  PROVE  Len(e.obs) \in Nat /\ Len(e.obs) <= ObsWindow /\ Len(e.obs) <= Cardinality(Labels(lg, e.src))
<1>1. PICK n \in Nat, s \in Seq(Nat) : n = Len(e.obs) /\ s = By(e.obs) /\ Len(s) = n /\ DOMAIN s = 1 .. n
  BY ByFacts DEF Entry
<1>2. PICK all : all = Labels(lg, e.src)
  OBVIOUS
<1>3. /\ n <= ObsWindow /\ \A i \in 1 .. n : s[i] \in all
      /\ \A i, j \in 1 .. n : i < j => s[i] < s[j]
  <2>1. ObsWindow > 0
    BY ReplayAssumption
  <2>2. IsNewest(s, all, ObsWindow)
    BY <1>1, <1>2 DEF WindowOf
  <2> QED
    BY <1>1, <2>1, <2>2 DEF IsNewest
<1>4. \A i \in 1 .. n : s[i] \in Nat
  BY <1>1
<1>5. IsFiniteSet(all)
  <2>1. all \subseteq 1 .. Len(lg) /\ Len(lg) \in Nat
    BY <1>2 DEF Labels, Logs
  <2>2. IsFiniteSet(1 .. Len(lg))
    BY <2>1, FS_Interval
  <2> QED
    BY <2>1, <2>2, FS_Subset
<1>6. \A i, j \in 1 .. n : s[i] = s[j] => i = j
  BY <1>3, <1>4
<1> DEFINE f == [i \in 1 .. n |-> s[i]]
<1>7. f \in Injection(1 .. n, all)
  BY <1>3, <1>6 DEF Injection, IsInjective
<1>8. Cardinality(1 .. n) <= Cardinality(all)
  BY <1>5, <1>7, FS_Injection
<1>9. Cardinality(1 .. n) = n
  <2>1. 0 \in Int /\ 1 \in Int /\ n \in Int
    OBVIOUS
  <2> QED
    BY <2>1, FS_Interval
<1> QED
  BY <1>1, <1>2, <1>3, <1>8, <1>9

-----------------------------------------------------------------------------
\* The inductive invariant: list, windows, score and history tell one story.
ReplayInv ==
  /\ arm \in {"static", "verified"}
  /\ entries \in Seq(Entry) /\ log \in Logs
  /\ ListIn(entries, log, arm)
  /\ arm = "verified" => WindowsIn(entries, log) /\ TestedIn(log)
  /\ arm = "static" => \A k \in 1 .. Len(entries) : entries[k].obs = << >>
  /\ ScoreIn(log, tp, fp, explores)

\* What is put down for a query.
Line(q, near, fate) ==
  [set |-> q.set, vec |-> q.vec, nb |-> IF near.idx = 0 THEN 0 ELSE entries[near.idx].src, fate |-> fate]

\* Nothing is known at the start.
LEMMA ReplayInitInv == ReplayInit => ReplayInv
<1> SUFFICES ASSUME ReplayInit PROVE ReplayInv
  OBVIOUS
<1>1. entries = << >> /\ log = << >> /\ tp = 0 /\ fp = 0 /\ explores = 0 /\ arm \in {"static", "verified"}
  BY DEF ReplayInit
<1>2. << >> \in Seq(Entry) /\ << >> \in Logs /\ Len(<< >>) = 0
  BY DEF Logs
<1>3. /\ Inserts(<< >>, arm) = {} /\ SourcesOf(<< >>) = << >>
      /\ Ended(<< >>, "tp") = {} /\ Ended(<< >>, "fp") = {}
  BY DEF Inserts, SourcesOf, Ended
<1>4. ListIn(<< >>, << >>, arm)
  <2>1. Capacity \in Int
    BY ReplayAssumption
  <2>2. IsNewest(<< >>, {}, Capacity)
    BY <2>1, NewestOfNone
  <2>3. \A k \in 1 .. Len(<< >>) : FALSE
    OBVIOUS
  <2> QED
    BY <1>3, <2>2, <2>3 DEF ListIn
<1>5. ScoreIn(<< >>, 0, 0, 0)
  <2>1. Cardinality({}) = 0
    BY FS_EmptySet
  <2>2. 0 + 0 + 0 = Len(<< >>)
    BY <1>2
  <2> QED
    BY <1>3, <2>1, <2>2 DEF ScoreIn
<1>6. WindowsIn(<< >>, << >>) /\ TestedIn(<< >>)
  BY DEF WindowsIn, TestedIn
<1> QED
  BY <1>1, <1>2, <1>4, <1>5, <1>6 DEF ReplayInv

\* The neighbor a scan names is in the list, or there is none.
LEMMA NeighborInList ==
  ASSUME ReplayInv, NEW v \in Vecs
  PROVE  Nearest(entries, v, Workers).idx \in 0 .. Len(entries)
<1>1. PICK near : near = Nearest(entries, v, Workers)
  OBVIOUS
<1>2. IsBest(Sims(entries, v), 0, Len(entries), near) /\ Len(entries) \in Nat
  BY <1>1, ScanFindsBest, SimsFacts, ReplayAssumption DEF ReplayInv
<1>3. Nobody.idx = 0 /\ 0 + 1 = 1
  BY DEF Nobody
<1> QED
  BY <1>1, <1>2, <1>3 DEF IsBest

\* What is put down is a record of the log, whose neighbor came before it.
LEMMA LineFacts ==
  ASSUME ReplayInv, NEW q \in [set : IdSets, vec : Vecs], NEW near, near.idx \in 0 .. Len(entries),
         NEW fate \in {"tp", "fp", "explore"}, Record(q, near, fate)
  PROVE  /\ Line(q, near, fate) \in Logged /\ Line(q, near, fate).nb <= Len(log)
         /\ log' \in Logs /\ Grows(log, Line(q, near, fate), log')
<1>1. log \in Logs /\ Len(log) \in Nat
  BY DEF ReplayInv, Logs
<1>2. PICK nb : nb = IF near.idx = 0 THEN 0 ELSE entries[near.idx].src
  OBVIOUS
<1>3. nb \in 0 .. Len(log)
  <2>1. near.idx # 0 => near.idx \in 1 .. Len(entries)
    BY DEF ReplayInv
  <2>2. near.idx # 0 => entries[near.idx].src \in 1 .. Len(log)
    BY <1>1, <2>1, ListFacts DEF ReplayInv
  <2> QED
    BY <1>1, <1>2, <2>2
<1>4. PICK rec : rec = Line(q, near, fate)
  OBVIOUS
<1>5. rec \in Logged /\ rec.nb <= Len(log)
  BY <1>1, <1>2, <1>3, <1>4 DEF Line, Logged
<1>6. log' = Append(log, rec)
  BY <1>4 DEF Record, Line
<1> QED
  BY <1>1, <1>4, <1>5, <1>6, LogGrows

\* The query as an entry.
LEMMA EntryFacts ==
  ASSUME ReplayInv, NEW q \in [set : IdSets, vec : Vecs]
  PROVE  /\ EntryOf(q) \in Entry /\ EntryOf(q).src = Len(log) + 1 /\ EntryOf(q).obs = << >>
         /\ EntryOf(q).set = q.set
<1>1. Len(log) + 1 \in Nat /\ << >> \in Seq(Observed)
  BY DEF ReplayInv, Logs
<1> QED
  BY <1>1 DEF EntryOf, Entry

\* A hit: the log grows, nothing else does.
LEMMA ExploitKeeps ==
  ASSUME ReplayInv, NEW q \in [set : IdSets, vec : Vecs], NEW near, near.idx \in 0 .. Len(entries),
         Exploit(q, near)
  PROVE  ReplayInv'
<1>1. PICK x : x = near.idx /\ x \in 1 .. Len(entries)
  BY DEF Exploit
<1>2. PICK fate \in {"tp", "fp"} : fate = IF entries[x].set = q.set THEN "tp" ELSE "fp"
  OBVIOUS
<1>3. /\ Record(q, near, fate) /\ MayExploit(near)
      /\ tp' = (IF fate = "tp" THEN tp + 1 ELSE tp) /\ fp' = (IF fate = "fp" THEN fp + 1 ELSE fp)
      /\ explores' = explores /\ entries' = entries /\ arm' = arm
  BY <1>1, <1>2 DEF Exploit
<1>4. PICK rec, lg2 : rec = Line(q, near, fate) /\ lg2 = log'
  OBVIOUS
<1>5. rec \in Logged /\ rec.nb <= Len(log) /\ lg2 \in Logs /\ Grows(log, rec, lg2)
  BY <1>2, <1>3, <1>4, LineFacts
<1>6. rec.fate = fate /\ rec.nb = entries[x].src /\ fate # "explore"
  BY <1>1, <1>2, <1>4 DEF Line
<1>7. log \in Logs /\ entries \in Seq(Entry) /\ ListIn(entries, log, arm) /\ ScoreIn(log, tp, fp, explores)
  BY DEF ReplayInv
<1>8. ScoreIn(lg2, tp', fp', explores')
  BY <1>3, <1>5, <1>6, <1>7, ScoreCounts
<1>9. ListIn(entries, lg2, arm)
  <2>1. Inserts(lg2, arm) = Inserts(log, arm)
    <3>1. PICK m \in Nat : m = Len(log) + 1
      BY <1>7 DEF Logs
    <3> QED
      BY <1>5, <1>6, <1>7, <3>1, LogSets
  <2>2. Alike(entries, entries)
    BY DEF Alike
  <2> QED
    BY <1>5, <1>7, <2>1, <2>2, ListStands
<1>10. ASSUME arm = "verified"
       PROVE  WindowsIn(entries, lg2) /\ TestedIn(lg2)
  <2>1. WindowsIn(entries, log) /\ TestedIn(log)
    BY <1>10 DEF ReplayInv
  <2>2. WindowsIn(entries, lg2)
    BY <1>5, <1>6, <1>7, <2>1, WindowsStand
  <2>3. PICK e \in Entry : e = entries[x] /\ WindowOf(log, e)
    BY <1>1, <1>7, <2>1 DEF WindowsIn
  <2>4. Len(e.obs) \in Nat /\ Len(e.obs) <= ObsWindow /\ Len(e.obs) <= Cardinality(Labels(log, e.src))
    BY <1>7, <2>3, WindowCounts
  <2>5. MayServe(Delta, NMin, Len(e.obs))
    BY <1>1, <1>3, <1>10, <2>3 DEF MayExploit
  <2>6. Len(e.obs) >= NMin
    BY <2>4, <2>5, ServesFromTheFloor, ReplayAssumption
  <2>7. IsFiniteSet(Labels(log, e.src))
    <3>1. Labels(log, e.src) \subseteq 1 .. Len(log) /\ Len(log) \in Nat
      BY <1>7 DEF Labels, Logs
    <3>2. IsFiniteSet(1 .. Len(log))
      BY <3>1, FS_Interval
    <3> QED
      BY <3>1, <3>2, FS_Subset
  <2>8. Cardinality(Labels(log, e.src)) \in Nat
    BY <2>7, FS_CardinalityType
  <2>9. NMin <= ObsWindow /\ Cardinality(Labels(log, rec.nb)) >= NMin
    BY <1>6, <2>3, <2>4, <2>6, <2>8, ReplayAssumption
  <2>10. TestedIn(lg2)
    BY <1>5, <1>7, <2>1, <2>9, TestedGrows
  <2> QED
    BY <2>2, <2>10
<1> QED
  BY <1>3, <1>4, <1>5, <1>7, <1>8, <1>9, <1>10 DEF ReplayInv

\* In the static arm nothing is observed.
LEMMA StaticStays ==
  ASSUME NEW es \in Seq(Entry), \A k \in 1 .. Len(es) : es[k].obs = << >>,
         NEW e \in Entry, e.obs = << >>, NEW es2, es2 = InsertEntry(es, e)
  PROVE  \A k \in 1 .. Len(es2) : es2[k].obs = << >>
<1>1. es2 \in Seq(Entry) /\ Shifted(es, es2, e, Capacity) /\ Capacity \in Int
  BY InsertShifts, ReplayAssumption
<1>2. ASSUME NEW k \in 1 .. Len(es2)
      PROVE  es2[k].obs = << >>
  <2>1. es2[k] = e \/ \E j \in DOMAIN es : es2[k] = es[j]
    BY <1>1, ShiftedFrom
  <2> QED
    BY <2>1
<1> QED
  BY <1>2

\* A miss without a neighbor: the query joins the list of either arm.
LEMMA ColdMissKeeps ==
  ASSUME ReplayInv, NEW q \in [set : IdSets, vec : Vecs], NEW near, near.idx \in 0 .. Len(entries),
         ColdMiss(q, near)
  PROVE  ReplayInv'
<1>1. /\ Record(q, near, "explore") /\ near.idx = 0 /\ entries' = InsertEntry(entries, EntryOf(q))
      /\ explores' = explores + 1 /\ tp' = tp /\ fp' = fp /\ arm' = arm
  BY DEF ColdMiss
<1>2. PICK rec, lg2, es2, e : rec = Line(q, near, "explore") /\ lg2 = log' /\ es2 = entries' /\ e = EntryOf(q)
  OBVIOUS
<1>3. rec \in Logged /\ rec.nb <= Len(log) /\ lg2 \in Logs /\ Grows(log, rec, lg2)
  BY <1>1, <1>2, LineFacts
<1>4. rec.fate = "explore" /\ rec.nb = 0 /\ rec.set = q.set
  BY <1>1, <1>2 DEF Line
<1>5. log \in Logs /\ entries \in Seq(Entry) /\ ListIn(entries, log, arm) /\ ScoreIn(log, tp, fp, explores)
  BY DEF ReplayInv
<1>6. PICK m \in Nat : m = Len(log) + 1
  BY <1>5 DEF Logs
<1>7. e \in Entry /\ e.src = m /\ e.obs = << >> /\ e.set = rec.set
  BY <1>2, <1>4, <1>6, EntryFacts
<1>8. ScoreIn(lg2, tp', fp', explores')
  BY <1>1, <1>3, <1>4, <1>5, ScoreCounts
<1>9. es2 \in Seq(Entry) /\ ListIn(es2, lg2, arm)
  <2>1. Inserts(lg2, arm) = Inserts(log, arm) \cup {m}
    BY <1>3, <1>4, <1>5, <1>6, LogSets
  <2>2. Alike(entries, entries) /\ es2 = InsertEntry(entries, e)
    BY <1>1, <1>2 DEF Alike
  <2> QED
    BY <1>3, <1>5, <1>6, <1>7, <2>1, <2>2, ListGrows
<1>10. ASSUME arm = "verified"
       PROVE  WindowsIn(es2, lg2) /\ TestedIn(lg2)
  <2>1. WindowsIn(entries, log) /\ TestedIn(log)
    BY <1>10 DEF ReplayInv
  <2>2. WindowsIn(entries, lg2)
    BY <1>3, <1>4, <1>5, <2>1, WindowsStand
  <2>3. e.src = Len(lg2)
    BY <1>3, <1>6, <1>7 DEF Grows
  <2>4. WindowsIn(InsertEntry(entries, e), lg2)
    BY <1>3, <1>5, <1>7, <2>2, <2>3, WindowsInsert
  <2>5. TestedIn(lg2)
    BY <1>3, <1>4, <1>5, <2>1, TestedGrows
  <2> QED
    BY <1>1, <1>2, <2>4, <2>5
<1>11. ASSUME arm = "static"
       PROVE  \A k \in 1 .. Len(es2) : es2[k].obs = << >>
  <2>1. \A k \in 1 .. Len(entries) : entries[k].obs = << >>
    BY <1>11 DEF ReplayInv
  <2> QED
    BY <1>1, <1>2, <1>5, <1>7, <2>1, StaticStays
<1> QED
  BY <1>1, <1>2, <1>3, <1>8, <1>9, <1>10, <1>11 DEF ReplayInv

\* A miss with a neighbor: in the verified arm the neighbor is taught before the query
\* can join, in the static one the query joins at once.
LEMMA ExploreKeeps ==
  ASSUME ReplayInv, NEW q \in [set : IdSets, vec : Vecs], NEW near, near.idx \in 0 .. Len(entries),
         Explore(q, near)
  PROVE  ReplayInv'
<1>1. PICK x : x = near.idx /\ x \in 1 .. Len(entries)
  BY DEF Explore
<1>2. PICK right, e : right \in BOOLEAN /\ right = (entries[x].set = q.set) /\ e = EntryOf(q)
  OBVIOUS
<1>3. /\ Record(q, near, "explore") /\ explores' = explores + 1 /\ tp' = tp /\ fp' = fp /\ arm' = arm
      /\ entries' = IF arm = "verified" THEN Learn(entries, near, right, e) ELSE InsertEntry(entries, e)
  BY <1>1, <1>2 DEF Explore
<1>4. PICK rec, lg2, es2 : rec = Line(q, near, "explore") /\ lg2 = log' /\ es2 = entries'
  OBVIOUS
<1>5. rec \in Logged /\ rec.nb <= Len(log) /\ lg2 \in Logs /\ Grows(log, rec, lg2)
  BY <1>3, <1>4, LineFacts
<1>6. rec.fate = "explore" /\ rec.nb = entries[x].src /\ rec.set = q.set
  BY <1>1, <1>4 DEF Line
<1>7. log \in Logs /\ entries \in Seq(Entry) /\ ListIn(entries, log, arm) /\ ScoreIn(log, tp, fp, explores)
  BY DEF ReplayInv
<1>8. PICK m \in Nat : m = Len(log) + 1
  BY <1>7 DEF Logs
<1>9. e \in Entry /\ e.src = m /\ e.obs = << >> /\ e.set = rec.set
  BY <1>2, <1>6, <1>8, EntryFacts
<1>10. ScoreIn(lg2, tp', fp', explores')
  BY <1>3, <1>5, <1>6, <1>7, ScoreCounts
<1>11. /\ rec.nb # 0 /\ (right <=> log[rec.nb].set = rec.set)
       /\ arm \in {"static", "verified"}
  <2>1. entries[x].src \in 1 .. Len(log) /\ entries[x].set = log[entries[x].src].set
    BY <1>1, <1>7, ListFacts DEF ListIn
  <2>2. rec.nb # 0
    BY <1>6, <2>1
  <2>3. log[rec.nb].set = entries[x].set
    BY <1>6, <2>1
  <2>4. right <=> entries[x].set = rec.set
    BY <1>2, <1>6
  <2>5. arm \in {"static", "verified"}
    BY DEF ReplayInv
  <2> QED
    BY <2>2, <2>3, <2>4, <2>5
<1>12. Inserts(lg2, arm) = IF arm = "static" \/ ~right THEN Inserts(log, arm) \cup {m} ELSE Inserts(log, arm)
  BY <1>5, <1>6, <1>7, <1>8, <1>11, LogSets
<1>13. CASE arm = "static"
  <2>1. es2 = InsertEntry(entries, e) /\ Alike(entries, entries)
    BY <1>3, <1>4, <1>13 DEF Alike
  <2>2. es2 \in Seq(Entry) /\ ListIn(es2, lg2, arm)
    BY <1>5, <1>7, <1>8, <1>9, <1>12, <1>13, <2>1, ListGrows
  <2>3. \A k \in 1 .. Len(es2) : es2[k].obs = << >>
    <3>1. \A k \in 1 .. Len(entries) : entries[k].obs = << >>
      BY <1>13 DEF ReplayInv
    <3> QED
      BY <1>7, <1>9, <2>1, <3>1, StaticStays
  <2> QED
    BY <1>3, <1>4, <1>5, <1>10, <1>13, <2>2, <2>3 DEF ReplayInv
<1>14. CASE arm = "verified"
  <2>1. WindowsIn(entries, log) /\ TestedIn(log)
    BY <1>14 DEF ReplayInv
  <2>2. PICK o \in Observed : o = [by |-> m, c |-> right]
    BY <1>2 DEF Observed
  <2>4. PICK taught : taught = [entries EXCEPT ![x].obs = AppendObs(@, o)]
    OBVIOUS
  <2>5. es2 = IF right THEN taught ELSE InsertEntry(taught, e)
    BY <1>1, <1>3, <1>4, <1>9, <1>14, <2>2, <2>4 DEF Learn
  <2>6. o.by = Len(log) + 1 /\ (o.c <=> rec.set = entries[x].set)
    BY <1>2, <1>6, <1>8, <2>2
  <2>7. taught \in Seq(Entry) /\ Alike(entries, taught) /\ WindowsIn(taught, lg2)
    BY <1>1, <1>5, <1>6, <1>7, <2>1, <2>4, <2>6, WindowsTaught
  <2>8. TestedIn(lg2)
    BY <1>5, <1>6, <1>7, <2>1, TestedGrows
  <2>9. es2 \in Seq(Entry) /\ ListIn(es2, lg2, arm) /\ WindowsIn(es2, lg2)
    <3>1. CASE right
      <4>1. es2 = taught /\ Inserts(lg2, arm) = Inserts(log, arm)
        BY <1>12, <1>14, <2>5, <3>1
      <4> QED
        BY <1>5, <1>7, <2>7, <4>1, ListStands
    <3>2. CASE ~right
      <4>1. es2 = InsertEntry(taught, e) /\ Inserts(lg2, arm) = Inserts(log, arm) \cup {m}
        BY <1>12, <1>14, <2>5, <3>2
      <4>2. es2 \in Seq(Entry) /\ ListIn(es2, lg2, arm)
        BY <1>5, <1>7, <1>8, <1>9, <2>7, <4>1, ListGrows
      <4>3. e.src = Len(lg2)
        BY <1>5, <1>8, <1>9 DEF Grows
      <4>4. WindowsIn(es2, lg2)
        BY <1>5, <1>9, <2>7, <4>1, <4>3, WindowsInsert
      <4> QED
        BY <4>2, <4>4
    <3> QED
      BY <1>2, <3>1, <3>2
  <2> QED
    BY <1>3, <1>4, <1>5, <1>10, <1>14, <2>8, <2>9 DEF ReplayInv
<1> QED
  BY <1>11, <1>13, <1>14

\* One more record.
LEMMA ReplayNextInv == ReplayInv /\ [ReplayNext]_replayVars => ReplayInv'
<1>1. ASSUME ReplayInv, ReplayNext
      PROVE  ReplayInv'
  <2> DEFINE Near(q) == Nearest(entries, q.vec, Workers)
  <2>1. PICK q \in [set : IdSets, vec : Vecs] :
          Exploit(q, Near(q)) \/ Explore(q, Near(q)) \/ ColdMiss(q, Near(q))
    BY <1>1 DEF ReplayNext
  <2>2. Near(q).idx \in 0 .. Len(entries)
    BY <1>1, <2>1, NeighborInList
  <2> QED
    BY <1>1, <2>1, <2>2, ExploitKeeps, ExploreKeeps, ColdMissKeeps
<1>2. ASSUME ReplayInv, UNCHANGED replayVars
      PROVE  ReplayInv'
  BY <1>2 DEF ReplayInv, replayVars
<1> QED
  BY <1>1, <1>2

\* List, windows, score and history tell one story, whatever the file.
THEOREM ReplayInvariant == ReplaySpec => []ReplayInv
BY ReplayInitInv, ReplayNextInv, PTL DEF ReplaySpec

\* The score counts every record once, and no window grows beyond its bound (evaluate's
\* counters, appendObs).
THEOREM ReplayTypeCorrect == ReplaySpec => []ReplayTypeOK
<1>1. ReplayInv => ReplayTypeOK
  <2> SUFFICES ASSUME ReplayInv PROVE ReplayTypeOK
    OBVIOUS
  <2>1. arm \in {"static", "verified"} /\ entries \in Seq(Entry) /\ log \in Logs /\ ListIn(entries, log, arm)
    BY DEF ReplayInv
  <2>2. ASSUME NEW k \in DOMAIN entries
        PROVE  entries[k].src \in Seen /\ Len(entries[k].obs) <= ObsWindow
    <3>1. k \in 1 .. Len(entries) /\ entries[k] \in Entry
      BY <2>1
    <3>2. CASE arm = "verified"
      BY <2>1, <3>1, <3>2, ListFacts, WindowCounts DEF ReplayInv, WindowsIn, Seen
    <3>3. CASE arm = "static"
      <4>1. entries[k].obs = << >>
        BY <3>1, <3>3 DEF ReplayInv
      <4> QED
        BY <2>1, <3>1, <4>1, ListFacts, ReplayAssumption DEF Seen
    <3> QED
      BY <2>1, <3>2, <3>3
  <2>3. ScoreIn(log, tp, fp, explores)
    BY DEF ReplayInv
  <2> QED
    BY <2>1, <2>2, <2>3 DEF ReplayTypeOK, ScoreIn, Ended, Seen
<1> QED
  BY <1>1, ReplayInvariant, PTL

\* The parallel scan is a serial one, for every list a replay can reach and every number
\* of workers (nearest, nearestRange).
THEOREM ScansAreSerial == ReplaySpec => []ScanIsSerial
<1>1. ReplayInv => ScanIsSerial
  <2>1. ReplayInv => entries \in Seq(Entry)
    BY DEF ReplayInv
  <2>2. \A workers \in 1 .. Len(entries) + 2 : workers \in Int
    OBVIOUS
  <2> QED
    BY <2>1, <2>2, ScansAgree DEF ScanIsSerial
<1> QED
  BY <1>1, ReplayInvariant, PTL

\* An entry's observations are the most recent explores compared with that very entry,
\* however far evictions have moved it (runArm, insertEntry, appendObs).
THEOREM WindowsAreMostRecent == ReplaySpec => []WindowIsMostRecent
<1>1. ReplayInv => WindowIsMostRecent
  <2> SUFFICES ASSUME ReplayInv, arm = "verified", NEW k \in DOMAIN entries
               PROVE  /\ IsNewest(By(entries[k].obs), LabelsFor(entries[k].src), ObsWindow)
                      /\ \A i \in DOMAIN entries[k].obs :
                           entries[k].obs[i].c <=> log[entries[k].obs[i].by].set = entries[k].set
    BY DEF WindowIsMostRecent
  <2>1. k \in 1 .. Len(entries) /\ WindowsIn(entries, log)
    BY DEF ReplayInv
  <2>2. WindowOf(log, entries[k])
    BY <2>1 DEF WindowsIn
  <2>3. LabelsFor(entries[k].src) = Labels(log, entries[k].src)
    BY DEF LabelsFor, Labels, Seen
  <2> QED
    BY <2>2, <2>3 DEF WindowOf
<1> QED
  BY <1>1, ReplayInvariant, PTL

\* The list is the newest of what the arm's rule inserts, in order (insertEntry).
THEOREM ListsAreNewest == ReplaySpec => []ListIsNewestInserted
<1>1. ReplayInv => ListIsNewestInserted
  <2> SUFFICES ASSUME ReplayInv PROVE ListIsNewestInserted
    OBVIOUS
  <2>1. ListIn(entries, log, arm) /\ DOMAIN entries = 1 .. Len(entries)
    BY DEF ReplayInv
  <2>2. Inserted = Inserts(log, arm) /\ Sources = SourcesOf(entries)
    BY DEF Inserted, Inserts, Seen, Sources, SourcesOf
  <2> QED
    BY <2>1, <2>2 DEF ListIn, ListIsNewestInserted
<1> QED
  BY <1>1, ReplayInvariant, PTL

\* The verified arm serves nothing that was not compared NMin times, whatever the fit
\* and the coin (Decide).
THEOREM ServedWereAllTested == ReplaySpec => []ServedWereTested
<1>1. ReplayInv => ServedWereTested
  BY DEF ReplayInv, ServedWereTested, TestedIn, Seen
<1> QED
  BY <1>1, ReplayInvariant, PTL
=============================================================================
