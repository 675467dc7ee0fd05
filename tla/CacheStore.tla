------------------------------ MODULE CacheStore ------------------------------
(***************************************************************************)
(* The in-memory cache store (internal/cache/memory.go).                   *)
(*                                                                         *)
(* A store is an array of shards.  A shard owns a set of buckets, an LRU   *)
(* list and an entry-ID sequence, all behind one mutex, so every operation *)
(* of the Store interface (Nearest, Observe, Insert) is one atomic action  *)
(* here: the code takes the shard's lock on entry and holds it to the end. *)
(*                                                                         *)
(* The two structures a shard keeps about the same entries, the LRU list   *)
(* and the index bucket -> entryID -> entry, stay two variables, because   *)
(* keeping them in step is what could go wrong.                            *)
(***************************************************************************)
EXTENDS Integers, FiniteSets, SequencesExt

CONSTANTS
  Buckets,        \* bucket keys
  Vecs,           \* embedding vectors
  Responses,      \* stored responses (immutable after insert)
  Observations,   \* (similarity, verdict) labels
  Hash,           \* FNV-1a of a bucket key
  Unit,           \* normalize: the unit vector of the same direction
  Dim,            \* number of components of a vector
  Dot,            \* inner product, scaled to an integer
  TotalCapacity,  \* NewMemoryStore's arguments, not yet clamped
  MaxObs,
  ShardCount,
  MaxID           \* last number of an entry-ID sequence (a uint64, which does not wrap)

ASSUME StoreAssumption ==
  /\ TotalCapacity \in Int /\ MaxObs \in Int /\ ShardCount \in Int /\ MaxID \in Nat
  /\ Hash \in [Buckets -> Nat]
  /\ Unit \in [Vecs -> Vecs]
  /\ Dim \in [Vecs -> Nat]
  /\ Dot \in [Vecs \X Vecs -> Int]

AtLeastOne(n) == IF n < 1 THEN 1 ELSE n

\* What NewMemoryStore makes of its arguments.
NumShards == AtLeastOne(ShardCount)
ObsCap    == AtLeastOne(MaxObs)
PerShard  == AtLeastOne(TotalCapacity \div NumShards)

Shards     == 0 .. NumShards - 1
ShardOf(b) == Hash[b] % NumShards

\* An entry ID is "<shard index>-<counter>"; an entry is found by its ID in the
\* map of its bucket.
EntryIDs == Shards \X (1 .. MaxID)
Entry == [bucket : Buckets, vec : Vecs, resp : Responses,
          obs : Seq(Observations), seen : Nat]

VARIABLES
  counter,  \* counter[sh]: last number of the shard's entry-ID sequence
  lru,      \* lru[sh]: entry IDs, most recently used first
  entries   \* entries[id]: the entries the bucket maps hold

storeVars == <<counter, lru, entries>>

StoreInit ==
  /\ counter = [sh \in Shards |-> 0]
  /\ lru = [sh \in Shards |-> <<>>]
  /\ entries = << >>

Live(b, id) == id \in DOMAIN entries /\ entries[id].bucket = b

-----------------------------------------------------------------------------
\* container/list on sequences.
IndexIn(s, id) == CHOOSE i \in 1 .. Len(s) : s[i] = id

MoveToFront(s, id) ==
  [i \in 1 .. Len(s) |-> IF i = 1 THEN id
                         ELSE IF i <= IndexIn(s, id) THEN s[i - 1] ELSE s[i]]

PushFront(s, id) == [i \in 1 .. Len(s) + 1 |-> IF i = 1 THEN id ELSE s[i - 1]]

\* Mutant: the loop runs while lru.Len() >= capacity.
BugEvict(s) == [i \in 1 .. (IF Len(s) >= PerShard THEN PerShard - 1 ELSE Len(s)) |-> s[i]]

\* The loop "for lru.Len() > capacity { evictLRU() }": what stays in the list.
Evict(s) == [i \in 1 .. (IF Len(s) > PerShard THEN PerShard ELSE Len(s)) |-> s[i]]

-----------------------------------------------------------------------------
\* The entries of a bucket whose vectors can be compared with v, and those of
\* them no other beats.  The scan visits a map in random order and replaces its
\* best only on a strictly greater similarity, so any of the ties may win.
Comparable(b, v) == {id \in DOMAIN entries : Live(b, id) /\ Dim[entries[id].vec] = Dim[v]}
Similarity(v, id) == Dot[Unit[v], entries[id].vec]
Best(b, v) == {id \in Comparable(b, v) :
                 \A other \in Comparable(b, v) : Similarity(v, other) <= Similarity(v, id)}

\* Mutant: a match is not marked as recently used.
BugNearest(b, v, id) == id \in Best(b, v) /\ UNCHANGED storeVars

\* Nearest returns the snapshot of entry id, which counts as a use of it.
Nearest(b, v, id) ==
  /\ id \in Best(b, v)
  /\ lru' = [lru EXCEPT ![ShardOf(b)] = MoveToFront(@, id)]
  /\ UNCHANGED <<counter, entries>>

\* Nearest finds nothing: an empty bucket, or no vector of the same dimension.
NearestNone(b, v) ==
  /\ Comparable(b, v) = {}
  /\ UNCHANGED storeVars

\* Mutant: the cap is tested with <=.
BugReservoir(obs, seen, ob) ==
  IF Len(obs) <= ObsCap
  THEN {Append(obs, ob)}
  ELSE {IF j < ObsCap THEN [obs EXCEPT ![j + 1] = ob] ELSE obs : j \in 0 .. seen - 1}

\* Reservoir sampling: what an entry may hold after its seen-th offer ob.
Reservoir(obs, seen, ob) ==
  IF Len(obs) < ObsCap
  THEN {Append(obs, ob)}
  ELSE {IF j < ObsCap THEN [obs EXCEPT ![j + 1] = ob] ELSE obs : j \in 0 .. seen - 1}

Offered(e, obs) == [[e EXCEPT !.obs = obs] EXCEPT !.seen = e.seen + 1]

\* A no-op when the entry is gone.
Observe(b, id, ob) ==
  IF Live(b, id)
  THEN /\ \E obs \in Reservoir(entries[id].obs, entries[id].seen + 1, ob) :
            entries' = [entries EXCEPT ![id] = Offered(@, obs)]
       /\ lru' = [lru EXCEPT ![ShardOf(b)] = MoveToFront(@, id)]
       /\ UNCHANGED counter
  ELSE UNCHANGED storeVars

\* Mutants: the sequence is read before it is advanced; an ID without the shard.
BugStaleID(b)   == <<ShardOf(b), counter[ShardOf(b)]>>
BugNoShardID(b) == <<0, counter[ShardOf(b)] + 1>>

NextID(b) == <<ShardOf(b), counter[ShardOf(b)] + 1>>
NewEntry(b, v, resp) ==
  [bucket |-> b, vec |-> Unit[v], resp |-> resp, obs |-> << >>, seen |-> 0]

\* Mutant: evictLRU deletes from the inserted bucket's map, not the victim's.
BugEvicted(b, pushed) ==
  {id \in Range(pushed) \ Range(Evict(pushed)) : entries[id].bucket = b}

\* The entries that leave the bucket maps when b's shard pushes a new one.
Evicted(b, pushed) == Range(pushed) \ Range(Evict(pushed))

\* Insert evicts the least recently used entries of the shard, from the list
\* and from their buckets, until the shard is within capacity again.
Insert(b, v, resp) ==
  LET sh     == ShardOf(b)
      id     == NextID(b)
      pushed == PushFront(lru[sh], id)
  IN  /\ counter[sh] < MaxID
      /\ counter' = [counter EXCEPT ![sh] = @ + 1]
      /\ lru' = [lru EXCEPT ![sh] = Evict(pushed)]
      /\ entries' = [i \in (DOMAIN entries \cup {id}) \ Evicted(b, pushed) |->
                       IF i = id THEN NewEntry(b, v, resp) ELSE entries[i]]

StoreNext ==
  \E b \in Buckets :
     \/ \E v \in Vecs : \/ \E id \in DOMAIN entries : Nearest(b, v, id)
                        \/ NearestNone(b, v)
                        \/ \E resp \in Responses : Insert(b, v, resp)
     \/ \E id \in EntryIDs, ob \in Observations : Observe(b, id, ob)

StoreSpec == StoreInit /\ [][StoreNext]_storeVars

-----------------------------------------------------------------------------
\* Type correctness: IDs, entries and lists have the shapes the code gives them.
StoreTypeOK ==
  /\ counter \in [Shards -> 0 .. MaxID]
  /\ lru \in [Shards -> Seq(EntryIDs)]
  /\ DOMAIN entries \subseteq EntryIDs
  /\ entries \in [DOMAIN entries -> Entry]

\* The LRU lists and the bucket index hold exactly the same entries, each of
\* them once and in the shard that owns its bucket.  An eviction that misses one
\* of the two structures leaks an entry or leaves one that MoveToFront cannot
\* find (evictLRU, Insert).
IndexMatchesLRU ==
  /\ DOMAIN entries = UNION {Range(lru[sh]) : sh \in Shards}
  /\ \A sh \in Shards : IsInjective(lru[sh])
  /\ \A sh \in Shards : \A id \in Range(lru[sh]) :
        id[1] = sh /\ ShardOf(entries[id].bucket) = sh

\* A shard evicts exactly when it must: it holds everything it was ever given
\* until its capacity is reached, and its capacity from then on.
WithinCapacity ==
  \A sh \in Shards :
     Len(lru[sh]) = IF counter[sh] < PerShard THEN counter[sh] ELSE PerShard

\* An entry keeps every observation it was offered until the reservoir is full
\* and exactly ObsCap of them from then on (Observe's Algorithm R).
ReservoirCount ==
  \A id \in DOMAIN entries :
     Len(entries[id].obs) = IF entries[id].seen < ObsCap THEN entries[id].seen ELSE ObsCap
=============================================================================
