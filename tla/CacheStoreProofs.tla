--------------------------- MODULE CacheStoreProofs ---------------------------
(***************************************************************************)
(* Theorems about the cache store, for every number of shards, capacity,   *)
(* bucket hash and set of vectors: its structures agree and it is bounded.  *)
(***************************************************************************)
EXTENDS CacheStore, SequenceTheorems, TLAPS

\* Entry IDs in the lists and the index have been issued, so the next one is new.
OnlyIssuedIDs == \A id \in DOMAIN entries : id[2] <= counter[id[1]]

StoreInv ==
  /\ StoreTypeOK
  /\ IndexMatchesLRU
  /\ WithinCapacity
  /\ ReservoirCount
  /\ OnlyIssuedIDs

-----------------------------------------------------------------------------
\* NewMemoryStore's clamps leave every bound positive and every bucket a shard.
LEMMA Bounds ==
  /\ NumShards \in Nat \ {0} /\ PerShard \in Nat \ {0} /\ ObsCap \in Nat \ {0}
  /\ \A b \in Buckets : ShardOf(b) \in Shards
<1>1. NumShards \in Nat \ {0} /\ ObsCap \in Nat \ {0}
  BY StoreAssumption DEF NumShards, ObsCap, AtLeastOne
<1>2. TotalCapacity \div NumShards \in Int
  BY <1>1, StoreAssumption
<1>3. PerShard \in Nat \ {0}
  BY <1>2 DEF PerShard, AtLeastOne
<1>4. ASSUME NEW b \in Buckets PROVE ShardOf(b) \in Shards
  <2>1. Hash[b] \in Nat
    BY StoreAssumption
  <2>2. Hash[b] % NumShards \in 0 .. NumShards - 1
    BY <1>1, <2>1
  <2> QED
    BY <2>2 DEF ShardOf, Shards
<1> QED
  BY <1>1, <1>3, <1>4

\* Moving an element to the front reorders a list and changes nothing else.
LEMMA MoveToFrontProperties ==
  ASSUME NEW S, NEW s \in Seq(S), NEW id \in Range(s), IsInjective(s)
  PROVE  /\ MoveToFront(s, id) \in Seq(S)
         /\ Len(MoveToFront(s, id)) = Len(s)
         /\ Range(MoveToFront(s, id)) = Range(s)
         /\ IsInjective(MoveToFront(s, id))
<1> DEFINE p == IndexIn(s, id)
           m == MoveToFront(s, id)
<1>0. DOMAIN s = 1 .. Len(s)
  OBVIOUS
<1>1. p \in 1 .. Len(s) /\ s[p] = id
  BY <1>0 DEF IndexIn, Range
<1>2. m \in [1 .. Len(s) -> S] /\ Len(s) \in Nat
  BY <1>1 DEF MoveToFront
<1>3. m \in Seq(S) /\ Len(m) = Len(s) /\ DOMAIN m = 1 .. Len(s)
  BY <1>2
<1>4. \A i \in 1 .. Len(s) : m[i] = IF i = 1 THEN id ELSE IF i <= p THEN s[i - 1] ELSE s[i]
  BY DEF MoveToFront
<1> HIDE DEF p, m
<1>5. \A i \in 1 .. Len(s) : \E j \in 1 .. Len(s) :
         m[i] = s[j] /\ (j = p <=> i = 1) /\ (j < p => i = j + 1) /\ (j > p => i = j)
  BY <1>1, <1>2, <1>4
<1>6. \A j \in 1 .. Len(s) : \E i \in 1 .. Len(s) : m[i] = s[j]
  <2> SUFFICES ASSUME NEW j \in 1 .. Len(s) PROVE \E i \in 1 .. Len(s) : m[i] = s[j]
    OBVIOUS
  <2>1. CASE j = p
    BY <2>1, <1>1, <1>2, <1>4
  <2>2. CASE j < p
    <3>1. j + 1 \in 1 .. Len(s) /\ j + 1 # 1 /\ j + 1 <= p /\ (j + 1) - 1 = j
      BY <2>2, <1>1, <1>2
    <3> QED
      BY <3>1, <1>4
  <2>3. CASE j > p
    BY <2>3, <1>1, <1>2, <1>4
  <2> QED
    BY <2>1, <2>2, <2>3, <1>1, <1>2
<1>7. Range(m) = Range(s)
  <2>1. ASSUME NEW i \in 1 .. Len(s) PROVE m[i] \in Range(s)
    <3>1. PICK j \in 1 .. Len(s) : m[i] = s[j]
      BY <1>5
    <3> QED
      BY <1>0, <3>1 DEF Range
  <2>2. \A x \in Range(s) : x \in Range(m)
    BY <1>0, <1>3, <1>6 DEF Range
  <2> QED
    BY <1>3, <2>1, <2>2 DEF Range
<1>8. IsInjective(m)
  <2> SUFFICES ASSUME NEW i \in 1 .. Len(s), NEW k \in 1 .. Len(s), m[i] = m[k]
               PROVE  i = k
    BY <1>3 DEF IsInjective
  <2>1. PICK j \in 1 .. Len(s) : m[i] = s[j] /\ (j = p <=> i = 1)
                                 /\ (j < p => i = j + 1) /\ (j > p => i = j)
    BY <1>5
  <2>2. PICK l \in 1 .. Len(s) : m[k] = s[l] /\ (l = p <=> k = 1)
                                 /\ (l < p => k = l + 1) /\ (l > p => k = l)
    BY <1>5
  <2>3. j = l
    BY <1>0, <2>1, <2>2 DEF IsInjective
  <2> QED
    BY <2>1, <2>2, <2>3, <1>1, <1>2
<1> QED
  BY <1>3, <1>7, <1>8 DEF m

\* Where an element behind the front came from.
SourceIndex(s, id, i) == IF i <= IndexIn(s, id) THEN i - 1 ELSE i

\* MoveToFront puts the element it is given first.
LEMMA MoveToFrontFirst ==
  ASSUME NEW S, NEW s \in Seq(S), NEW id \in Range(s)
  PROVE  MoveToFront(s, id)[1] = id
<1>1. Len(s) \in Nat /\ 1 \in 1 .. Len(s)
  BY DEF Range
<1> QED
  BY <1>1 DEF MoveToFront

\* The elements behind the front keep their order.
LEMMA MoveToFrontOrder ==
  ASSUME NEW S, NEW s \in Seq(S), NEW id \in Range(s), IsInjective(s),
         NEW i \in 1 .. Len(s), i # 1
  PROVE  /\ SourceIndex(s, id, i) \in 1 .. Len(s)
         /\ s[SourceIndex(s, id, i)] # id
         /\ MoveToFront(s, id)[i] = s[SourceIndex(s, id, i)]
         /\ \A j \in 1 .. Len(s) : i < j => SourceIndex(s, id, i) < SourceIndex(s, id, j)
<1> DEFINE p == IndexIn(s, id)
<1>1. DOMAIN s = 1 .. Len(s) /\ Len(s) \in Nat
  OBVIOUS
<1>2. p \in 1 .. Len(s) /\ s[p] = id
  BY <1>1 DEF IndexIn, Range
<1>3. MoveToFront(s, id)[i] = s[SourceIndex(s, id, i)]
  BY DEF MoveToFront, SourceIndex
<1> HIDE DEF p
<1>4. \A j \in 1 .. Len(s) : SourceIndex(s, id, j) = IF j <= p THEN j - 1 ELSE j
  BY DEF SourceIndex, p
<1>5. SourceIndex(s, id, i) \in 1 .. Len(s) /\ SourceIndex(s, id, i) # p
  BY <1>1, <1>2, <1>4
<1>6. s[SourceIndex(s, id, i)] # id
  BY <1>1, <1>2, <1>5 DEF IsInjective
<1>7. \A j \in 1 .. Len(s) : i < j => SourceIndex(s, id, i) < SourceIndex(s, id, j)
  BY <1>1, <1>2, <1>4
<1> QED
  BY <1>3, <1>5, <1>6, <1>7

\* Pushing a new element adds it and keeps the rest.
LEMMA PushFrontProperties ==
  ASSUME NEW S, NEW s \in Seq(S), NEW id \in S, id \notin Range(s), IsInjective(s)
  PROVE  /\ PushFront(s, id) \in Seq(S)
         /\ Len(PushFront(s, id)) = Len(s) + 1
         /\ PushFront(s, id)[1] = id
         /\ Range(PushFront(s, id)) = Range(s) \cup {id}
         /\ IsInjective(PushFront(s, id))
<1> DEFINE q == PushFront(s, id)
<1>0. DOMAIN s = 1 .. Len(s)
  OBVIOUS
<1>1. q \in [1 .. Len(s) + 1 -> S] /\ Len(s) \in Nat
  BY DEF PushFront
<1>2. q \in Seq(S) /\ Len(q) = Len(s) + 1 /\ DOMAIN q = 1 .. Len(s) + 1
  BY <1>1
<1>3. \A i \in 1 .. Len(s) + 1 : q[i] = IF i = 1 THEN id ELSE s[i - 1]
  BY DEF PushFront
<1> HIDE DEF q
<1>4. \A i \in 1 .. Len(s) : q[i + 1] = s[i] /\ i + 1 \in DOMAIN q
  BY <1>1, <1>2, <1>3
<1>5. \A i \in DOMAIN q : q[i] = id \/ \E j \in 1 .. Len(s) : q[i] = s[j]
  BY <1>1, <1>2, <1>3
<1>6. q[1] = id /\ 1 \in DOMAIN q
  BY <1>1, <1>2, <1>3
<1>7. Range(q) = Range(s) \cup {id}
  <2>1. \A x \in Range(q) : x \in Range(s) \cup {id}
    BY <1>0, <1>5 DEF Range
  <2>2. \A x \in Range(s) : x \in Range(q)
    BY <1>0, <1>4 DEF Range
  <2>3. id \in Range(q)
    BY <1>6 DEF Range
  <2> QED
    BY <2>1, <2>2, <2>3
<1>8. IsInjective(q)
  <2> SUFFICES ASSUME NEW i \in DOMAIN q, NEW k \in DOMAIN q, q[i] = q[k] PROVE i = k
    BY DEF IsInjective
  <2>1. \A j \in 1 .. Len(s) : s[j] # id
    BY <1>0 DEF Range
  <2>2. CASE i = 1 \/ k = 1
    BY <2>1, <2>2, <1>1, <1>2, <1>3
  <2>3. CASE i # 1 /\ k # 1
    <3>1. i - 1 \in 1 .. Len(s) /\ k - 1 \in 1 .. Len(s) /\ s[i - 1] = s[k - 1]
      BY <2>3, <1>1, <1>2, <1>3
    <3>2. i - 1 = k - 1
      BY <3>1, <1>0 DEF IsInjective
    <3> QED
      BY <3>2, <1>1, <1>2
  <2> QED
    BY <2>2, <2>3
<1> QED
  BY <1>2, <1>6, <1>7, <1>8 DEF q

\* PushFront shifts the old elements by one.
LEMMA PushFrontOrder ==
  ASSUME NEW S, NEW s \in Seq(S), NEW id, NEW i \in 1 .. Len(s) + 1, i # 1
  PROVE  i - 1 \in 1 .. Len(s) /\ PushFront(s, id)[i] = s[i - 1]
BY DEF PushFront

\* The eviction loop keeps a prefix within capacity, and never the empty one.
LEMMA EvictProperties ==
  ASSUME NEW S, NEW s \in Seq(S), IsInjective(s)
  PROVE  /\ Evict(s) \in Seq(S)
         /\ Len(Evict(s)) = IF Len(s) < PerShard THEN Len(s) ELSE PerShard
         /\ \A i \in 1 .. Len(Evict(s)) : i \in 1 .. Len(s) /\ Evict(s)[i] = s[i]
         /\ Range(Evict(s)) \subseteq Range(s)
         /\ IsInjective(Evict(s))
         /\ Len(s) > 0 => s[1] \in Range(Evict(s))
<1> DEFINE n == IF Len(s) > PerShard THEN PerShard ELSE Len(s)
           e == Evict(s)
<1>1. n \in Nat /\ n <= Len(s) /\ Len(s) \in Nat /\ PerShard \in Nat \ {0}
  BY Bounds
<1>2. e \in [1 .. n -> S] /\ \A i \in 1 .. n : e[i] = s[i]
  BY <1>1 DEF Evict
<1>3. e \in Seq(S) /\ Len(e) = n /\ DOMAIN e = 1 .. n
  BY <1>1, <1>2
<1>4. \A i \in 1 .. Len(e) : i \in 1 .. Len(s) /\ e[i] = s[i]
  BY <1>1, <1>2, <1>3
<1>5. Len(e) = IF Len(s) < PerShard THEN Len(s) ELSE PerShard
  BY <1>1, <1>3
<1> HIDE DEF n, e
<1>6. Range(e) \subseteq Range(s) /\ IsInjective(e)
  BY <1>1, <1>3, <1>4 DEF Range, IsInjective
<1>7. Len(s) > 0 => s[1] \in Range(e)
  BY <1>1, <1>3, <1>4, <1>5 DEF Range
<1> QED
  BY <1>3, <1>4, <1>5, <1>6, <1>7 DEF e
-----------------------------------------------------------------------------
\* A live entry is in the list of the shard that owns its bucket.
LEMMA LiveIsListed ==
  ASSUME StoreInv, NEW b \in Buckets, NEW id, Live(b, id)
  PROVE  id \in EntryIDs /\ entries[id] \in Entry /\ id \in Range(lru[ShardOf(b)])
<1>1. id \in DOMAIN entries /\ entries[id].bucket = b
  BY DEF Live
<1>2. PICK sh \in Shards : id \in Range(lru[sh])
  BY <1>1 DEF StoreInv, IndexMatchesLRU
<1>3. sh = ShardOf(b)
  BY <1>1, <1>2 DEF StoreInv, IndexMatchesLRU
<1> QED
  BY <1>1, <1>2, <1>3 DEF StoreInv, StoreTypeOK

\* Using an entry, and changing no entry's bucket, keeps the structures in step.
LEMMA TouchKeepsIndex ==
  ASSUME StoreInv, NEW b \in Buckets, NEW id, Live(b, id),
         lru' = [lru EXCEPT ![ShardOf(b)] = MoveToFront(@, id)],
         counter' = counter,
         DOMAIN entries' = DOMAIN entries,
         \A e \in DOMAIN entries : entries'[e].bucket = entries[e].bucket
  PROVE  /\ lru' \in [Shards -> Seq(EntryIDs)]
         /\ IndexMatchesLRU' /\ WithinCapacity' /\ OnlyIssuedIDs'
<1> DEFINE sh == ShardOf(b)
           moved == MoveToFront(lru[sh], id)
<1>1. sh \in Shards
  BY Bounds
<1>2. lru \in [Shards -> Seq(EntryIDs)]
  BY DEF StoreInv, StoreTypeOK
<1>3. lru[sh] \in Seq(EntryIDs) /\ IsInjective(lru[sh]) /\ id \in Range(lru[sh])
  BY <1>1, <1>2, LiveIsListed DEF StoreInv, IndexMatchesLRU
<1>4. /\ moved \in Seq(EntryIDs) /\ Len(moved) = Len(lru[sh])
      /\ Range(moved) = Range(lru[sh]) /\ IsInjective(moved)
  BY <1>3, MoveToFrontProperties
<1> HIDE DEF moved, sh
<1>5. lru' = [lru EXCEPT ![sh] = moved]
  BY DEF moved, sh
<1>6. lru' \in [Shards -> Seq(EntryIDs)]
  BY <1>2, <1>4, <1>5
<1>7. ASSUME NEW s \in Shards
      PROVE  Len(lru'[s]) = Len(lru[s]) /\ Range(lru'[s]) = Range(lru[s]) /\ IsInjective(lru'[s])
  <2>1. IsInjective(lru[s])
    BY DEF StoreInv, IndexMatchesLRU
  <2>2. CASE s = sh
    <3>1. lru'[s] = moved
      BY <1>2, <1>5, <2>2
    <3> QED
      BY <1>4, <2>2, <3>1
  <2>3. CASE s # sh
    <3>1. lru'[s] = lru[s]
      BY <1>2, <1>5, <2>3
    <3> QED
      BY <2>1, <3>1
  <2> QED
    BY <2>2, <2>3
<1>8. IndexMatchesLRU'
  <2>1. DOMAIN entries' = UNION {Range(lru'[s]) : s \in Shards}
    <3>1. {Range(lru'[s]) : s \in Shards} = {Range(lru[s]) : s \in Shards}
      BY <1>7
    <3> QED
      BY <3>1 DEF StoreInv, IndexMatchesLRU
  <2>3. ASSUME NEW s \in Shards, NEW e \in Range(lru'[s])
        PROVE  e[1] = s /\ ShardOf(entries'[e].bucket) = s
    <3>1. e \in Range(lru[s])
      BY <1>7
    <3>2. e \in DOMAIN entries /\ e[1] = s /\ ShardOf(entries[e].bucket) = s
      BY <3>1 DEF StoreInv, IndexMatchesLRU
    <3> QED
      BY <3>2
  <2> QED
    BY <1>7, <2>1, <2>3 DEF IndexMatchesLRU, ShardOf, Shards
<1>9. WithinCapacity'
  BY <1>7 DEF StoreInv, WithinCapacity
<1>10. OnlyIssuedIDs'
  BY DEF StoreInv, OnlyIssuedIDs
<1> QED
  BY <1>6, <1>8, <1>9, <1>10

\* A step that changes nothing keeps the invariant.
LEMMA StutterKeepsInv ==
  ASSUME StoreInv, UNCHANGED storeVars
  PROVE  StoreInv'
<1>1. counter' = counter /\ lru' = lru /\ entries' = entries
  BY DEF storeVars
<1>2. StoreTypeOK' /\ WithinCapacity' /\ ReservoirCount' /\ OnlyIssuedIDs'
  BY <1>1 DEF StoreInv, StoreTypeOK, WithinCapacity, ReservoirCount, OnlyIssuedIDs
<1>3. IndexMatchesLRU'
  BY <1>1 DEF StoreInv, IndexMatchesLRU, ShardOf, Shards
<1> QED
  BY <1>2, <1>3 DEF StoreInv

\* Nearest reorders one LRU list and keeps the invariant.
LEMMA NearestKeepsInv ==
  ASSUME StoreInv, NEW b \in Buckets, NEW v \in Vecs, NEW id, Nearest(b, v, id)
  PROVE  StoreInv'
<1>1. Live(b, id)
  BY DEF Nearest, Best, Comparable
<1>2. /\ lru' = [lru EXCEPT ![ShardOf(b)] = MoveToFront(@, id)]
      /\ counter' = counter /\ entries' = entries
  BY DEF Nearest
<1>3. /\ lru' \in [Shards -> Seq(EntryIDs)]
      /\ IndexMatchesLRU' /\ WithinCapacity' /\ OnlyIssuedIDs'
  BY <1>1, <1>2, TouchKeepsIndex
<1>4. StoreTypeOK'
  BY <1>2, <1>3 DEF StoreInv, StoreTypeOK
<1>5. ReservoirCount'
  BY <1>2 DEF StoreInv, ReservoirCount
<1> QED
  BY <1>3, <1>4, <1>5 DEF StoreInv

\* The reservoir grows by one until it is full and keeps its size from then on.
LEMMA ReservoirProperties ==
  ASSUME NEW obs \in Seq(Observations), NEW seen \in Nat, NEW ob \in Observations,
         Len(obs) = IF seen < ObsCap THEN seen ELSE ObsCap,
         NEW new \in Reservoir(obs, seen + 1, ob)
  PROVE  /\ new \in Seq(Observations)
         /\ Len(new) = IF seen + 1 < ObsCap THEN seen + 1 ELSE ObsCap
         /\ \/ Len(obs) < ObsCap /\ new = Append(obs, ob)
            \/ Len(obs) >= ObsCap /\ (new = obs \/ \E j \in 1 .. Len(obs) : new = [obs EXCEPT ![j] = ob])
<1>1. ObsCap \in Nat \ {0}
  BY Bounds
<1>2. CASE Len(obs) < ObsCap
  <2>1. new = Append(obs, ob)
    BY <1>2 DEF Reservoir
  <2> QED
    BY <2>1, <1>1, <1>2
<1>3. CASE ~(Len(obs) < ObsCap)
  <2>1. Len(obs) = ObsCap /\ seen >= ObsCap
    BY <1>1, <1>3
  <2>2. PICK j \in 0 .. seen : new = IF j < ObsCap THEN [obs EXCEPT ![j + 1] = ob] ELSE obs
    BY <1>3 DEF Reservoir
  <2>3. CASE j < ObsCap
    <3>1. j + 1 \in 1 .. Len(obs) /\ new = [obs EXCEPT ![j + 1] = ob]
      BY <2>1, <2>2, <2>3, <1>1
    <3>2. new \in Seq(Observations) /\ Len(new) = Len(obs)
      BY <3>1, ExceptSeq
    <3>3. \E k \in 1 .. Len(obs) : new = [obs EXCEPT ![k] = ob]
      BY <3>1
    <3>4. Len(new) = IF seen + 1 < ObsCap THEN seen + 1 ELSE ObsCap
      BY <3>2, <2>1, <1>1
    <3>5. Len(obs) >= ObsCap
      BY <2>1, <1>1
    <3> QED
      BY <3>2, <3>3, <3>4, <3>5
  <2>4. CASE ~(j < ObsCap)
    BY <2>4, <2>1, <2>2, <1>1
  <2> QED
    BY <2>3, <2>4
<1> QED
  BY <1>2, <1>3

\* An offered entry differs in its reservoir and its count alone.
LEMMA OfferedProperties ==
  ASSUME NEW e \in Entry, NEW obs \in Seq(Observations)
  PROVE  /\ Offered(e, obs) \in Entry
         /\ Offered(e, obs).obs = obs /\ Offered(e, obs).seen = e.seen + 1
         /\ Offered(e, obs).bucket = e.bucket
         /\ Offered(e, obs).vec = e.vec /\ Offered(e, obs).resp = e.resp
<1> DEFINE f == [e EXCEPT !.obs = obs]
<1>1. /\ f \in Entry /\ f.obs = obs /\ f.seen = e.seen
      /\ f.bucket = e.bucket /\ f.vec = e.vec /\ f.resp = e.resp
  BY DEF Entry
<1>2. Offered(e, obs) = [f EXCEPT !.seen = e.seen + 1]
  BY DEF Offered
<1> HIDE DEF f
<1>3. e.seen + 1 \in Nat
  BY DEF Entry
<1> QED
  BY <1>1, <1>2, <1>3 DEF Entry

\* Observe keeps the invariant, on a live entry and as a no-op.
LEMMA ObserveKeepsInv ==
  ASSUME StoreInv, NEW b \in Buckets, NEW id, NEW ob \in Observations, Observe(b, id, ob)
  PROVE  StoreInv'
<1>1. CASE ~Live(b, id)
  BY <1>1, StutterKeepsInv DEF Observe
<1>2. CASE Live(b, id)
  <2>1. id \in DOMAIN entries /\ entries[id] \in Entry
    BY <1>2, LiveIsListed DEF Live
  <2>2. PICK obs \in Reservoir(entries[id].obs, entries[id].seen + 1, ob) :
           entries' = [entries EXCEPT ![id] = Offered(@, obs)]
    BY <1>2 DEF Observe
  <2>3. /\ lru' = [lru EXCEPT ![ShardOf(b)] = MoveToFront(@, id)]
        /\ counter' = counter
    BY <1>2 DEF Observe
  <2>4. Len(entries[id].obs) = IF entries[id].seen < ObsCap THEN entries[id].seen ELSE ObsCap
    BY <2>1 DEF StoreInv, ReservoirCount
  <2>5. /\ obs \in Seq(Observations)
        /\ Len(obs) = IF entries[id].seen + 1 < ObsCap THEN entries[id].seen + 1 ELSE ObsCap
    BY <2>1, <2>2, <2>4, ReservoirProperties DEF Entry
  <2> DEFINE new == Offered(entries[id], obs)
  <2>6. entries \in [DOMAIN entries -> Entry]
    BY DEF StoreInv, StoreTypeOK
  <2>7. /\ new \in Entry
        /\ new.obs = obs /\ new.seen = entries[id].seen + 1
        /\ new.bucket = entries[id].bucket
    BY <2>1, <2>5, OfferedProperties
  <2>8. entries' = [entries EXCEPT ![id] = new]
    BY <2>2
  <2> HIDE DEF new
  <2>9. /\ DOMAIN entries' = DOMAIN entries
         /\ \A e \in DOMAIN entries : entries'[e] = IF e = id THEN new ELSE entries[e]
    BY <2>1, <2>6, <2>8
  <2>10. /\ lru' \in [Shards -> Seq(EntryIDs)]
        /\ IndexMatchesLRU' /\ WithinCapacity' /\ OnlyIssuedIDs'
    BY <1>2, <2>3, <2>7, <2>9, TouchKeepsIndex
  <2>11. StoreTypeOK'
    <3>1. entries' \in [DOMAIN entries' -> Entry]
      BY <2>6, <2>7, <2>8, <2>9
    <3> QED
      BY <2>3, <2>9, <2>10, <3>1 DEF StoreInv, StoreTypeOK
  <2>12. ReservoirCount'
    BY <2>5, <2>7, <2>9 DEF StoreInv, ReservoirCount
  <2> QED
    BY <2>10, <2>11, <2>12 DEF StoreInv
<1> QED
  BY <1>1, <1>2

\* Insert keeps the invariant: the new ID is fresh, and what leaves the list
\* leaves the index.
LEMMA InsertKeepsInv ==
  ASSUME StoreInv, NEW b \in Buckets, NEW v \in Vecs, NEW resp \in Responses,
         Insert(b, v, resp)
  PROVE  StoreInv'
<1> DEFINE sh     == ShardOf(b)
           id     == NextID(b)
           pushed == PushFront(lru[sh], id)
           kept   == Evict(pushed)
           gone   == Range(pushed) \ Range(kept)
           fresh  == NewEntry(b, v, resp)
<1>1. sh \in Shards /\ counter[sh] \in 0 .. MaxID /\ counter[sh] < MaxID /\ MaxID \in Nat
  BY Bounds, StoreAssumption DEF StoreInv, StoreTypeOK, Insert
<1>2. id = <<sh, counter[sh] + 1>> /\ id \in EntryIDs
  BY <1>1 DEF NextID, EntryIDs
<1>3. /\ counter' = [counter EXCEPT ![sh] = @ + 1]
      /\ lru' = [lru EXCEPT ![sh] = kept]
      /\ entries' = [i \in (DOMAIN entries \cup {id}) \ gone |-> IF i = id THEN fresh ELSE entries[i]]
  BY DEF Insert, Evicted
<1>4. lru[sh] \in Seq(EntryIDs) /\ IsInjective(lru[sh])
  BY <1>1 DEF StoreInv, StoreTypeOK, IndexMatchesLRU
<1>5. id \notin DOMAIN entries
  BY <1>1, <1>2 DEF StoreInv, OnlyIssuedIDs
<1>6. id \notin Range(lru[sh])
  BY <1>1, <1>5 DEF StoreInv, IndexMatchesLRU
<1>7. /\ pushed \in Seq(EntryIDs) /\ Len(pushed) = Len(lru[sh]) + 1 /\ pushed[1] = id
      /\ Range(pushed) = Range(lru[sh]) \cup {id} /\ IsInjective(pushed)
  <2>1. id \in EntryIDs /\ lru[sh] \in Seq(EntryIDs)
    BY <1>2, <1>4
  <2> HIDE DEF id
  <2> QED
    BY <1>4, <1>6, <2>1, PushFrontProperties
<1>8. /\ kept \in Seq(EntryIDs) /\ IsInjective(kept)
      /\ Len(kept) = IF Len(pushed) < PerShard THEN Len(pushed) ELSE PerShard
      /\ Range(kept) \subseteq Range(lru[sh]) \cup {id}
      /\ id \in Range(kept)
  BY <1>4, <1>7, EvictProperties
<1>9. fresh \in Entry /\ fresh.bucket = b /\ fresh.obs = << >> /\ fresh.seen = 0
  BY StoreAssumption DEF fresh, NewEntry, Entry
<1>10. gone = (Range(lru[sh]) \cup {id}) \ Range(kept)
  BY <1>7
<1> HIDE DEF sh, id, pushed, kept, gone, fresh
<1>11. counter \in [Shards -> 0 .. MaxID] /\ lru \in [Shards -> Seq(EntryIDs)]
  BY DEF StoreInv, StoreTypeOK
<1>12. \A s \in Shards : lru'[s] = IF s = sh THEN kept ELSE lru[s]
  BY <1>3, <1>11
<1>13. \A s \in Shards : counter'[s] = IF s = sh THEN counter[s] + 1 ELSE counter[s]
  BY <1>3, <1>11
<1>14. /\ DOMAIN entries' = (DOMAIN entries \cup {id}) \ gone
       /\ \A i \in DOMAIN entries' : entries'[i] = IF i = id THEN fresh ELSE entries[i]
  BY <1>3
<1>15. StoreTypeOK'
  <2>1. counter' \in [Shards -> 0 .. MaxID]
    BY <1>1, <1>3, <1>11
  <2>2. lru' \in [Shards -> Seq(EntryIDs)]
    BY <1>3, <1>8, <1>11
  <2>3. DOMAIN entries' \subseteq EntryIDs
    BY <1>2, <1>14 DEF StoreInv, StoreTypeOK
  <2>4. \A i \in DOMAIN entries' : entries'[i] \in Entry
    BY <1>9, <1>14 DEF StoreInv, StoreTypeOK
  <2>5. entries' \in [DOMAIN entries' -> Entry]
    BY <1>3, <1>14, <2>4
  <2> QED
    BY <2>1, <2>2, <2>3, <2>5 DEF StoreTypeOK, EntryIDs, Shards
<1>16. IndexMatchesLRU'
  \* No list of another shard holds the new ID or anything this shard gave up.
  <2>1. ASSUME NEW s \in Shards, s # sh, NEW i \in Range(lru[s])
        PROVE  i # id /\ i \notin gone
    <3>1. i[1] = s
      BY <2>1 DEF StoreInv, IndexMatchesLRU
    <3>2. i \notin Range(lru[sh])
      BY <3>1, <2>1, <1>1 DEF StoreInv, IndexMatchesLRU
    <3>3. i # id
      BY <3>1, <2>1, <1>2
    <3> QED
      BY <3>2, <3>3, <1>10
  <2>2. ASSUME NEW i \in DOMAIN entries'
        PROVE  \E s \in Shards : i \in Range(lru'[s])
    <3>1. CASE i = id
      BY <3>1, <1>1, <1>8, <1>12
    <3>2. CASE i # id
      <4>1. i \in DOMAIN entries /\ i \notin gone
        BY <3>2, <1>14
      <4>2. PICK s \in Shards : i \in Range(lru[s])
        BY <4>1 DEF StoreInv, IndexMatchesLRU
      <4>3. i \in Range(lru'[s])
        BY <4>1, <4>2, <1>10, <1>12
      <4> QED
        BY <4>3
    <3> QED
      BY <3>1, <3>2
  <2>3. ASSUME NEW s \in Shards, NEW i \in Range(lru'[s])
        PROVE  i \in DOMAIN entries' /\ i[1] = s /\ ShardOf(entries'[i].bucket) = s
    <3>1. CASE i = id /\ s = sh
      <4>1. i \in DOMAIN entries' /\ entries'[i] = fresh
        BY <3>1, <1>8, <1>10, <1>14
      <4>2. i[1] = s
        BY <3>1, <1>2
      <4> QED
        BY <3>1, <4>1, <4>2, <1>9 DEF sh
    <3>2. CASE i # id /\ s = sh
      <4>1. i \in Range(lru[sh]) /\ i \notin gone
        BY <2>3, <3>2, <1>8, <1>10, <1>12
      <4>2. i \in DOMAIN entries /\ i[1] = s /\ ShardOf(entries[i].bucket) = s
        BY <4>1, <3>2, <1>1 DEF StoreInv, IndexMatchesLRU
      <4> QED
        BY <4>1, <4>2, <3>2, <1>14
    <3>3. CASE s # sh
      <4>1. i \in Range(lru[s])
        BY <2>3, <3>3, <1>12
      <4>2. i # id /\ i \notin gone
        BY <4>1, <3>3, <2>1
      <4>3. i \in DOMAIN entries /\ i[1] = s /\ ShardOf(entries[i].bucket) = s
        BY <4>1 DEF StoreInv, IndexMatchesLRU
      <4> QED
        BY <4>2, <4>3, <1>14
    <3>4. CASE i = id /\ s # sh
      BY <3>3, <3>4
    <3> QED
      BY <3>1, <3>2, <3>3
  <2>4. \A s \in Shards : IsInjective(lru'[s])
    <3> SUFFICES ASSUME NEW s \in Shards PROVE IsInjective(lru'[s])
      OBVIOUS
    <3>1. IsInjective(lru[s])
      BY DEF StoreInv, IndexMatchesLRU
    <3>2. CASE s = sh
      BY <3>2, <1>8, <1>12
    <3>3. CASE s # sh
      BY <3>1, <3>3, <1>12
    <3> QED
      BY <3>2, <3>3
  <2>5. DOMAIN entries' = UNION {Range(lru'[s]) : s \in Shards}
    BY <2>2, <2>3
  <2> QED
    BY <2>3, <2>4, <2>5 DEF IndexMatchesLRU, ShardOf, Shards
<1>17. WithinCapacity'
  <2> SUFFICES ASSUME NEW s \in Shards
               PROVE  Len(lru'[s]) = IF counter'[s] < PerShard THEN counter'[s] ELSE PerShard
    BY DEF WithinCapacity, Shards
  <2>1. /\ Len(lru[s]) = IF counter[s] < PerShard THEN counter[s] ELSE PerShard
        /\ counter[s] \in Nat /\ PerShard \in Nat \ {0}
    BY Bounds, <1>11 DEF StoreInv, WithinCapacity
  <2>2. CASE s = sh
    <3>1. lru'[s] = kept /\ counter'[s] = counter[s] + 1
      BY <2>2, <1>12, <1>13
    <3>2. Len(kept) = IF Len(lru[s]) + 1 < PerShard THEN Len(lru[s]) + 1 ELSE PerShard
      BY <2>2, <1>7, <1>8
    <3> QED
      BY <3>1, <3>2, <2>1
  <2>3. CASE s # sh
    BY <2>1, <2>3, <1>12, <1>13
  <2> QED
    BY <2>2, <2>3
<1>18. ReservoirCount'
  <2>1. ObsCap \in Nat \ {0}
    BY Bounds
  <2>2. ASSUME NEW i \in DOMAIN entries'
        PROVE  Len(entries'[i].obs) = IF entries'[i].seen < ObsCap THEN entries'[i].seen ELSE ObsCap
    <3>1. CASE i = id
      BY <3>1, <2>1, <1>9, <1>14
    <3>2. CASE i # id
      BY <3>2, <1>14 DEF StoreInv, ReservoirCount
    <3> QED
      BY <3>1, <3>2
  <2> QED
    BY <2>2 DEF ReservoirCount
<1>19. OnlyIssuedIDs'
  <2> SUFFICES ASSUME NEW i \in DOMAIN entries' PROVE i[2] <= counter'[i[1]]
    BY DEF OnlyIssuedIDs
  <2>1. CASE i = id
    BY <2>1, <1>1, <1>2, <1>13
  <2>2. CASE i # id
    <3>1. i \in DOMAIN entries /\ i[2] <= counter[i[1]] /\ i[1] \in Shards /\ i[2] \in Nat
      BY <2>2, <1>14 DEF StoreInv, StoreTypeOK, OnlyIssuedIDs, EntryIDs
    <3>2. counter[i[1]] \in Nat
      BY <3>1, <1>11
    <3> QED
      BY <3>1, <3>2, <1>13
  <2> QED
    BY <2>1, <2>2
<1> QED
  BY <1>15, <1>16, <1>17, <1>18, <1>19 DEF StoreInv

\* The empty store satisfies the invariant.
LEMMA InitEstablishesInv == StoreInit => StoreInv
<1> SUFFICES ASSUME StoreInit PROVE StoreInv
  OBVIOUS
<1>1. /\ counter = [sh \in Shards |-> 0] /\ lru = [sh \in Shards |-> << >>]
      /\ entries = << >> /\ DOMAIN entries = {}
  BY DEF StoreInit
<1>2. StoreTypeOK
  BY <1>1, StoreAssumption DEF StoreTypeOK
<1>3. IndexMatchesLRU
  BY <1>1 DEF IndexMatchesLRU, Range, IsInjective
<1>4. WithinCapacity
  BY <1>1, Bounds DEF WithinCapacity
<1>5. ReservoirCount /\ OnlyIssuedIDs
  BY <1>1 DEF ReservoirCount, OnlyIssuedIDs
<1> QED
  BY <1>2, <1>3, <1>4, <1>5 DEF StoreInv

\* The invariant is inductive.
LEMMA NextKeepsInv == StoreInv /\ [StoreNext]_storeVars => StoreInv'
<1> SUFFICES ASSUME StoreInv, [StoreNext]_storeVars PROVE StoreInv'
  OBVIOUS
<1>1. ASSUME NEW b \in Buckets, NEW v \in Vecs, NEW id \in DOMAIN entries, Nearest(b, v, id)
      PROVE  StoreInv'
  BY <1>1, NearestKeepsInv
<1>2. ASSUME NEW b \in Buckets, NEW v \in Vecs, NearestNone(b, v) PROVE StoreInv'
  BY <1>2, StutterKeepsInv DEF NearestNone
<1>3. ASSUME NEW b \in Buckets, NEW v \in Vecs, NEW resp \in Responses, Insert(b, v, resp)
      PROVE  StoreInv'
  BY <1>3, InsertKeepsInv
<1>4. ASSUME NEW b \in Buckets, NEW id \in EntryIDs, NEW ob \in Observations, Observe(b, id, ob)
      PROVE  StoreInv'
  BY <1>4, ObserveKeepsInv
<1>5. CASE UNCHANGED storeVars
  BY <1>5, StutterKeepsInv
<1> QED
  BY <1>1, <1>2, <1>3, <1>4, <1>5 DEF StoreNext

-----------------------------------------------------------------------------
\* The invariant of the store holds in every reachable state.
THEOREM StoreInvariant == StoreSpec => []StoreInv
  BY InitEstablishesInv, NextKeepsInv, PTL DEF StoreSpec

\* Every value the store keeps has the shape the code gives it, for every
\* configuration NewMemoryStore accepts.
THEOREM StoreTypeCorrect == StoreSpec => []StoreTypeOK
<1>1. StoreInv => StoreTypeOK
  BY DEF StoreInv
<1> QED
  BY <1>1, StoreInvariant, PTL

\* However inserts, hits and labels interleave, the LRU lists and the bucket maps
\* hold the same entries: evictLRU never leaks one and never leaves one behind.
THEOREM IndexAlwaysMatchesLRU == StoreSpec => []IndexMatchesLRU
<1>1. StoreInv => IndexMatchesLRU
  BY DEF StoreInv
<1> QED
  BY <1>1, StoreInvariant, PTL

\* No shard ever outgrows its capacity, and none evicts before it is full.
THEOREM ShardsWithinCapacity == StoreSpec => []WithinCapacity
<1>1. StoreInv => WithinCapacity
  BY DEF StoreInv
<1> QED
  BY <1>1, StoreInvariant, PTL

\* An entry's sample has the size Algorithm R gives it.
THEOREM ReservoirsWithinCap == StoreSpec => []ReservoirCount
<1>1. StoreInv => ReservoirCount
  BY DEF StoreInv
<1> QED
  BY <1>1, StoreInvariant, PTL
=============================================================================
