-------------------------------- MODULE Replay --------------------------------
(***************************************************************************)
(* The benchmark's replay of recorded queries (bench/replay.go): a static  *)
(* and a verified arm over a list of entries, with a parallel nearest      *)
(* scan, FIFO eviction, a sliding window of observations and the score.    *)
(*                                                                         *)
(* log is a history variable: what became of each record so far.           *)
(***************************************************************************)
EXTENDS Policy

CONSTANTS
  Vecs, IdSets,   \* embeddings and ground-truth labels of the records
  Sim,            \* Sim[<<v, w>>]: dot product of the normalized vectors, or NotANumber
  NotANumber,
  Threshold,      \* the static arm's parameter, on the scale of Sim
  Delta, NMin,    \* the verified arm's
  Capacity,       \* of the entry list; not positive: unbounded
  ObsWindow, ParThreshold, Workers,
  MaxRecords      \* records of the file (a bound)

ASSUME ReplayAssumption ==
  /\ Sim \in [Vecs \X Vecs -> Int \cup {NotANumber}]
  /\ Threshold \in Int /\ NMin \in Int /\ Capacity \in Int
  /\ ObsWindow \in Nat \ {0} /\ ParThreshold \in Int /\ Workers \in Int /\ MaxRecords \in Nat

VARIABLES
  arm,      \* "static" or "verified"
  entries,  \* the list: src is the number of the record an entry was made from
  tp, fp, explores,
  log       \* log[i]: the i-th record, its neighbor's src (0: none) and its fate

replayVars == <<arm, entries, tp, fp, explores, log>>

ReplayInit ==
  /\ arm \in {"static", "verified"}
  /\ entries = << >> /\ log = << >>
  /\ tp = 0 /\ fp = 0 /\ explores = 0

-----------------------------------------------------------------------------
\* nearestRange: the best of entries[lo + 1 .. hi], a later one only if it is
\* strictly better.  No similarity is below the initial -Inf, and NaN beats nothing.
Nobody == [idx |-> 0, sim |-> NotANumber]
Beats(s, best) == s # NotANumber /\ (best.idx = 0 \/ s > best.sim)

NearestRange(es, q, lo, hi) ==
  FoldLeft(LAMBDA best, k : LET s == Sim[<<q, es[k].vec>>]
                            IN  IF Beats(s, best) THEN [idx |-> k, sim |-> s] ELSE best,
           Nobody, [i \in 1 .. hi - lo |-> lo + i])

\* Mutant: the chunk size is rounded down.
BugChunk(n, workers) == IF n < workers THEN 1 ELSE n \div workers

Chunk(n, workers) == (n + workers - 1) \div workers

\* nearest: one chunk per worker, combined in index order; a worker whose chunk
\* would begin behind the end has none.
Nearest(es, q, workers) ==
  LET n == Len(es)
      chunk == Chunk(n, workers)
      Part(w) == IF (w - 1) * chunk >= n THEN Nobody
                 ELSE NearestRange(es, q, (w - 1) * chunk,
                                   IF w * chunk > n THEN n ELSE w * chunk)
  IN  IF n < ParThreshold \/ workers <= 1 THEN NearestRange(es, q, 0, n)
      ELSE FoldLeft(LAMBDA best, r : IF r.idx > 0 /\ Beats(r.sim, best) THEN r ELSE best,
                    Nobody, [w \in 1 .. workers |-> Part(w)])

\* Mutant: the list is evicted from when it is over capacity, not when it is full.
BugInsertEntry(es, e) ==
  Append(IF Capacity > 0 /\ Len(es) > Capacity THEN Tail(es) ELSE es, e)

\* insertEntry: the oldest makes room.
InsertEntry(es, e) ==
  Append(IF Capacity > 0 /\ Len(es) >= Capacity THEN Tail(es) ELSE es, e)

\* appendObs: the most recent ObsWindow.
AppendObs(obs, o) == IF Len(obs) >= ObsWindow THEN Append(Tail(obs), o) ELSE Append(obs, o)

\* Mutant: the entry is inserted first, and the label goes to the index it found.
BugLearn(es, near, c, e) ==
  LET grown == IF c THEN es ELSE InsertEntry(es, e)
  IN  [grown EXCEPT ![near.idx].obs = AppendObs(@, [by |-> e.src, c |-> c])]

\* What the verified arm learns from a miss with a neighbor: the neighbor's label,
\* and then the query itself unless the neighbor was right.
Learn(es, near, c, e) ==
  LET taught == [es EXCEPT ![near.idx].obs = AppendObs(@, [by |-> e.src, c |-> c])]
  IN  IF c THEN taught ELSE InsertEntry(taught, e)

-----------------------------------------------------------------------------
\* Mutant: the verified arm decides like the static one.
BugMayExploit(near) == near.sim >= Threshold

MayExploit(near) ==
  IF arm = "static" THEN near.sim >= Threshold
  ELSE MayServe(Delta, NMin, Len(entries[near.idx].obs))

\* The verified arm's coin may always say explore (u = 0 does); the static arm has none.
MayExplore(near) == arm = "verified" \/ ~MayExploit(near)

Record(q, near, fate) ==
  log' = Append(log, [set |-> q.set, vec |-> q.vec, nb |-> IF near.idx = 0 THEN 0 ELSE entries[near.idx].src,
                      fate |-> fate])

EntryOf(q) == [vec |-> q.vec, set |-> q.set, src |-> Len(log) + 1, obs |-> << >>]

\* Mutant: a hit is counted as an explore, too.
BugExploit(q, near) ==
  /\ near.idx > 0 /\ MayExploit(near)
  /\ tp' = tp + 1 /\ explores' = explores + 1
  /\ Record(q, near, "tp")
  /\ UNCHANGED <<arm, entries, fp>>

\* A hit is scored and teaches nothing.
Exploit(q, near) ==
  /\ near.idx > 0 /\ MayExploit(near)
  /\ LET right == entries[near.idx].set = q.set
     IN  /\ tp' = IF right THEN tp + 1 ELSE tp
         /\ fp' = IF right THEN fp ELSE fp + 1
         /\ Record(q, near, IF right THEN "tp" ELSE "fp")
  /\ UNCHANGED <<arm, entries, explores>>

\* The static arm inserts on every miss.
Explore(q, near) ==
  /\ near.idx > 0 /\ MayExplore(near)
  /\ entries' = IF arm = "verified"
                THEN Learn(entries, near, entries[near.idx].set = q.set, EntryOf(q))
                ELSE InsertEntry(entries, EntryOf(q))
  /\ Record(q, near, "explore")
  /\ explores' = explores + 1
  /\ UNCHANGED <<arm, tp, fp>>

ColdMiss(q, near) ==
  /\ near.idx = 0
  /\ entries' = InsertEntry(entries, EntryOf(q))
  /\ Record(q, near, "explore")
  /\ explores' = explores + 1
  /\ UNCHANGED <<arm, tp, fp>>

ReplayNext ==
  \E q \in [set : IdSets, vec : Vecs] :
     LET near == Nearest(entries, q.vec, Workers)
     IN  /\ Len(log) < MaxRecords
         /\ Exploit(q, near) \/ Explore(q, near) \/ ColdMiss(q, near)

ReplaySpec == ReplayInit /\ [][ReplayNext]_replayVars

-----------------------------------------------------------------------------
Seen == 1 .. Len(log)

\* Type correctness, with the score: every record counts once, as an explore or as
\* a hit that is right or wrong.
ReplayTypeOK ==
  /\ arm \in {"static", "verified"}
  /\ \A k \in DOMAIN entries : entries[k].src \in Seen /\ Len(entries[k].obs) <= ObsWindow
  /\ tp = Cardinality({i \in Seen : log[i].fate = "tp"})
  /\ fp = Cardinality({i \in Seen : log[i].fate = "fp"})
  /\ tp + fp + explores = Len(log)

\* The parallel scan finds what its comment promises, "identical to a serial scan
\* (first index achieving the max)", for any number of workers, whatever ties and
\* whichever chunks are short or empty.
ScanIsSerial ==
  \A v \in Vecs, workers \in 1 .. Len(entries) + 2 :
     LET S(k) == Sim[<<v, entries[k].vec>>]
         Numbers == {k \in DOMAIN entries : S(k) # NotANumber}
         best == Nearest(entries, v, workers).idx
     IN  IF Numbers = {} THEN best = 0
         ELSE /\ best \in Numbers
              /\ \A k \in Numbers : S(k) <= S(best) /\ (S(k) = S(best) => best <= k)

\* s holds the newest cap members of a set of records, in order; all of them if cap is
\* not positive.
IsNewest(s, all, cap) ==
  /\ cap > 0 => Len(s) <= cap
  /\ \A i \in DOMAIN s : s[i] \in all
  /\ \A i, j \in DOMAIN s : i < j => s[i] < s[j]
  /\ \A x \in all : \/ \E i \in DOMAIN s : s[i] = x
                    \/ cap > 0 /\ Len(s) = cap /\ \A i \in DOMAIN s : x < s[i]

\* The records compared with the entry made from record src.
LabelsFor(src) == {i \in Seen : log[i].nb = src /\ log[i].fate = "explore"}

By(obs) == [i \in DOMAIN obs |-> obs[i].by]

\* An entry's observations are the last ObsWindow explores compared with it, in
\* order and with their true labels: eviction shifts the list under the neighbor's
\* index, and a label must not go with the shift (runArm's label-then-insert order,
\* insertEntry, appendObs).
WindowIsMostRecent ==
  arm = "verified" =>
     \A k \in DOMAIN entries :
        LET obs == entries[k].obs
        IN  /\ IsNewest(By(obs), LabelsFor(entries[k].src), ObsWindow)
            /\ \A i \in DOMAIN obs : obs[i].c <=> log[obs[i].by].set = entries[k].set

\* Records the insertion rule of the arm puts into the list.
Inserted ==
  {i \in Seen : /\ log[i].fate = "explore"
                /\ \/ log[i].nb = 0 \/ arm = "static"
                   \/ log[log[i].nb].set # log[i].set}

Sources == [k \in DOMAIN entries |-> entries[k].src]

\* The list is exactly the newest Capacity records that the arm's rule inserts,
\* oldest first: hits and confirmed neighbors never push anything out (FIFO,
\* guarded insert).
ListIsNewestInserted ==
  /\ IsNewest(Sources, Inserted, Capacity)
  /\ \A k \in DOMAIN entries : entries[k].set = log[entries[k].src].set

\* The verified arm serves an entry only after NMin explores compared with that very
\* entry, so with a floor above the window it serves nothing at all (Decide, NMin).
ServedWereTested ==
  arm = "verified" =>
     \A i \in Seen : log[i].fate # "explore" =>
        /\ NMin <= ObsWindow
        /\ Cardinality({j \in 1 .. i - 1 : log[j].nb = log[i].nb /\ log[j].fate = "explore"}) >= NMin
=============================================================================
