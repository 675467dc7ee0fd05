-------------------------- MODULE CacheRecencyProofs --------------------------
(***************************************************************************)
(* The store implements the contract of the Store interface, and it holds  *)
(* the entries used last, for every number of shards and every capacity.   *)
(***************************************************************************)
EXTENDS CacheRecency, CacheStoreProofs

\* An empty store is an initial state of the contract: nothing is live or issued.
LEMMA InitRefinesContract == StoreInit => Contract!ContractInit
<1> SUFFICES ASSUME StoreInit PROVE Contract!ContractInit
  OBVIOUS
<1>1. entries = << >> /\ counter = [sh \in Shards |-> 0]
  BY DEF StoreInit
<1>2. ASSUME NEW id \in EntryIDs PROVE ~(id[2] <= counter[id[1]])
  <2>1. id[1] \in Shards /\ id[2] \in 1 .. MaxID
    BY DEF EntryIDs
  <2> QED
    BY <1>1, <2>1, StoreAssumption
<1> QED
  BY <1>1, <1>2 DEF Contract!ContractInit

\* The contract sees counters and entries only: a step that changes the LRU
\* order alone (Nearest) is a stutter of it.
LEMMA UnchangedIsContractStutter ==
  ASSUME counter' = counter, entries' = entries
  PROVE  UNCHANGED Contract!contractVars
BY DEF Contract!contractVars, EntryIDs, Shards

\* Observe teaches one live entry, or nothing when the entry is gone.
LEMMA ObserveRefinesContract ==
  ASSUME StoreInv, NEW b \in Buckets, NEW id \in EntryIDs, NEW ob \in Observations,
         Observe(b, id, ob)
  PROVE  [Contract!ContractNext]_(Contract!contractVars)
<1>1. CASE ~Live(b, id)
  BY <1>1, UnchangedIsContractStutter DEF Observe, storeVars
<1>2. CASE Live(b, id)
  <2>1. id \in DOMAIN entries /\ entries[id] \in Entry
    BY <1>2, LiveIsListed DEF Live
  <2>2. PICK obs \in Reservoir(entries[id].obs, entries[id].seen + 1, ob) :
           entries' = [entries EXCEPT ![id] = Offered(@, obs)]
    BY <1>2 DEF Observe
  <2>3. counter' = counter
    BY <1>2 DEF Observe
  <2>4. Len(entries[id].obs) = IF entries[id].seen < ObsCap THEN entries[id].seen ELSE ObsCap
    BY <2>1 DEF StoreInv, ReservoirCount
  <2>5. \/ Len(entries[id].obs) < ObsCap /\ obs = Append(entries[id].obs, ob)
        \/ /\ Len(entries[id].obs) >= ObsCap
           /\ \/ obs = entries[id].obs
              \/ \E j \in 1 .. Len(entries[id].obs) : obs = [entries[id].obs EXCEPT ![j] = ob]
    BY <2>1, <2>2, <2>4, ReservoirProperties DEF Entry
  <2>6. Len(entries[id].obs) \in Nat /\ ObsCap \in Nat
    BY <2>1, Bounds DEF Entry
  <2>7. obs \in Contract!Sampled(entries[id].obs, ob)
    BY <2>5, <2>6 DEF Contract!Sampled
  <2>8. entries' = [entries EXCEPT ![id] = Contract!Labelled(@, obs)]
    BY <2>2 DEF Offered, Contract!Labelled
  <2>9. {i \in EntryIDs : i[2] <= counter[i[1]]}' = {i \in EntryIDs : i[2] <= counter[i[1]]}
    BY <2>3 DEF EntryIDs, Shards
  <2>10. Contract!ObserveEntry(id, ob)
    BY <2>7, <2>8, <2>9 DEF Contract!ObserveEntry
  <2> QED
    BY <2>1, <2>10 DEF Contract!ContractNext
<1> QED
  BY <1>1, <1>2

\* Insert issues a fresh ID and makes it live, whatever it evicts.
LEMMA InsertRefinesContract ==
  ASSUME StoreInv, NEW b \in Buckets, NEW v \in Vecs, NEW resp \in Responses,
         Insert(b, v, resp)
  PROVE  Contract!ContractNext
<1> DEFINE sh == ShardOf(b)
<1>1. /\ sh \in Shards /\ counter[sh] \in 0 .. MaxID /\ counter[sh] < MaxID /\ MaxID \in Nat
      /\ counter \in [Shards -> 0 .. MaxID]
  BY Bounds, StoreAssumption DEF StoreInv, StoreTypeOK, Insert
<1>2. PICK id \in EntryIDs : id = NextID(b)
  <2>1. <<sh, counter[sh] + 1>> \in EntryIDs
    BY <1>1 DEF EntryIDs
  <2> QED
    BY <2>1 DEF NextID
<1>2a. id = <<sh, counter[sh] + 1>> /\ id \in EntryIDs
  BY <1>2 DEF NextID
<1> DEFINE gone  == Evicted(b, PushFront(lru[sh], id))
           kept  == DOMAIN entries \ gone
           fresh == [bucket |-> b, vec |-> Unit[v], resp |-> resp, obs |-> << >>, seen |-> 0]
<1>3. /\ counter' = [counter EXCEPT ![sh] = @ + 1]
      /\ entries' = [i \in (DOMAIN entries \cup {id}) \ gone |-> IF i = id THEN fresh ELSE entries[i]]
  BY <1>2 DEF Insert, NewEntry
<1>4. id \notin gone
  <2>1. lru[sh] \in Seq(EntryIDs) /\ IsInjective(lru[sh])
    BY <1>1 DEF StoreInv, StoreTypeOK, IndexMatchesLRU
  <2>2. id \notin DOMAIN entries
    BY <1>1, <1>2a DEF StoreInv, OnlyIssuedIDs
  <2>3. id \notin Range(lru[sh])
    BY <1>1, <2>2 DEF StoreInv, IndexMatchesLRU
  <2> DEFINE pushed == PushFront(lru[sh], id)
  <2>4. pushed \in Seq(EntryIDs) /\ Len(pushed) = Len(lru[sh]) + 1 /\ pushed[1] = id /\ IsInjective(pushed)
    BY <1>2a, <2>1, <2>3, PushFrontProperties
  <2>5. id \in Range(Evict(pushed))
    BY <2>1, <2>4, EvictProperties
  <2> QED
    BY <2>5 DEF Evicted
<1>5. Unit[v] \in Range(Unit)
  BY StoreAssumption DEF Range
<1> HIDE DEF sh, gone, fresh
<1>6. entries' = [i \in kept \cup {id} |-> IF i = id THEN fresh ELSE entries[i]]
  <2>1. (DOMAIN entries \cup {id}) \ gone = kept \cup {id}
    BY <1>4
  <2> QED
    BY <1>3, <2>1
<1>7. {i \in EntryIDs : i[2] <= counter'[i[1]]} = {i \in EntryIDs : i[2] <= counter[i[1]]} \cup {id}
  <2>1. ASSUME NEW i \in EntryIDs
        PROVE  i[2] <= counter'[i[1]] <=> (i[2] <= counter[i[1]] \/ i = id)
    <3>1. i = <<i[1], i[2]>> /\ i[1] \in Shards /\ i[2] \in 1 .. MaxID
      BY DEF EntryIDs
    <3>2. CASE i[1] = sh
      BY <3>1, <3>2, <1>1, <1>2a, <1>3
    <3>3. CASE i[1] # sh
      BY <3>1, <3>3, <1>1, <1>2a, <1>3
    <3> QED
      BY <3>2, <3>3
  <2> QED
    BY <2>1, <1>2a
<1>8. id \notin {i \in EntryIDs : i[2] <= counter[i[1]]}
  BY <1>1, <1>2a
<1>9. {i \in EntryIDs : i[2] <= counter[i[1]]}' = {i \in EntryIDs : i[2] <= counter'[i[1]]}
  BY DEF EntryIDs, Shards
<1>10. Contract!InsertEntry(id)
  <2>1. kept \in SUBSET DOMAIN entries
    OBVIOUS
  <2> QED
    BY <1>5, <1>6, <1>7, <1>9, <2>1 DEF Contract!InsertEntry, fresh
<1>11. id \in Contract!Fresh
  BY <1>2a, <1>8 DEF Contract!Fresh
<1> QED
  BY <1>10, <1>11 DEF Contract!ContractNext

\* Every step of the store is a step or a stutter of the contract.
LEMMA NextRefinesContract ==
  StoreInv /\ [StoreNext]_storeVars => [Contract!ContractNext]_(Contract!contractVars)
<1> SUFFICES ASSUME StoreInv, [StoreNext]_storeVars
             PROVE  [Contract!ContractNext]_(Contract!contractVars)
  OBVIOUS
<1>1. ASSUME NEW b \in Buckets, NEW v \in Vecs, NEW id \in DOMAIN entries, Nearest(b, v, id)
      PROVE  UNCHANGED Contract!contractVars
  BY <1>1, UnchangedIsContractStutter DEF Nearest
<1>2. ASSUME NEW b \in Buckets, NEW v \in Vecs, NearestNone(b, v)
      PROVE  UNCHANGED Contract!contractVars
  BY <1>2, UnchangedIsContractStutter DEF NearestNone, storeVars
<1>3. ASSUME NEW b \in Buckets, NEW v \in Vecs, NEW resp \in Responses, Insert(b, v, resp)
      PROVE  Contract!ContractNext
  BY <1>3, InsertRefinesContract
<1>4. ASSUME NEW b \in Buckets, NEW id \in EntryIDs, NEW ob \in Observations, Observe(b, id, ob)
      PROVE  [Contract!ContractNext]_(Contract!contractVars)
  BY <1>4, ObserveRefinesContract
<1>5. CASE UNCHANGED storeVars
  BY <1>5, UnchangedIsContractStutter DEF storeVars
<1> QED
  BY <1>1, <1>2, <1>3, <1>4, <1>5 DEF StoreNext

\* The sharded store with its LRU lists and its reservoir implements the contract
\* of the Store interface: IDs are never reused, a live entry never changes but
\* for its observations, an Observe touches its own entry only.
THEOREM StoreRefinesContract == StoreSpec => ImplementsContract
  BY InitRefinesContract, NextRefinesContract, StoreInvariant, PTL
     DEF StoreSpec, ImplementsContract

-----------------------------------------------------------------------------
\* What is in a shard's list was issued by it, and is still live.
LEMMA ListedIsIssued ==
  ASSUME StoreInv, NEW sh \in Shards, NEW id \in Range(lru[sh])
  PROVE  id \in Issued(sh) /\ id[1] = sh /\ id \in DOMAIN entries
<1>1. id \in DOMAIN entries /\ id[1] = sh
  BY DEF StoreInv, IndexMatchesLRU
<1>2. id \in EntryIDs /\ id[2] <= counter[sh] /\ counter[sh] \in Nat
  BY <1>1, StoreAssumption DEF StoreInv, StoreTypeOK, OnlyIssuedIDs
<1>3. id = <<id[1], id[2]>> /\ id[2] \in 1 .. counter[sh]
  BY <1>2, StoreAssumption DEF EntryIDs
<1> QED
  BY <1>1, <1>3 DEF Issued

\* A use puts an entry after the others of its shard and reorders no others.
LEMMA UsedProperties ==
  ASSUME NEW id, Used(id)
  PROVE  /\ \A old \in Issued(id[1]) : old # id =>
              <<id, old>> \in later' /\ <<old, id>> \notin later'
         /\ \A x, y : x # id /\ y # id /\ UsedAfter(x, y) =>
              <<x, y>> \in later' /\ <<y, x>> \notin later'
<1>1. later' = {p \in later : p[2] # id} \cup ({id} \X (Issued(id[1]) \ {id}))
  BY DEF Used
<1>2. ASSUME NEW old \in Issued(id[1]), old # id
      PROVE  <<id, old>> \in later' /\ <<old, id>> \notin later'
  BY <1>1, <1>2
<1>3. ASSUME NEW x, NEW y, x # id, y # id, UsedAfter(x, y)
      PROVE  <<x, y>> \in later' /\ <<y, x>> \notin later'
  BY <1>1, <1>3 DEF UsedAfter
<1> QED
  BY <1>2, <1>3

\* Two entries neither of which was just used stay in the order they were in.
LEMMA OthersKeepOrder ==
  ASSUME NEW id, Used(id), NEW x, NEW y, x # id, y # id, UsedAfter(x, y)
  PROVE  UsedAfter(x, y)'
BY UsedProperties DEF UsedAfter

\* After a use of id, id is later than every other issued ID of its shard.
LEMMA UsedIsLatest ==
  ASSUME NEW id, Used(id), NEW old \in Issued(id[1]), old # id
  PROVE  UsedAfter(id, old)'
BY UsedProperties DEF UsedAfter

\* A use of a live entry keeps every list in the order of use.
LEMMA TouchKeepsRecency ==
  ASSUME StoreInv, HoldsMostRecentlyUsed,
         NEW b \in Buckets, NEW id, Live(b, id), Used(id),
         lru' = [lru EXCEPT ![ShardOf(b)] = MoveToFront(@, id)],
         counter' = counter
  PROVE  HoldsMostRecentlyUsed'
<1> DEFINE sh    == ShardOf(b)
           moved == MoveToFront(lru[sh], id)
<1>1. sh \in Shards /\ lru \in [Shards -> Seq(EntryIDs)]
  BY Bounds DEF StoreInv, StoreTypeOK
<1>2. lru[sh] \in Seq(EntryIDs) /\ IsInjective(lru[sh]) /\ id \in Range(lru[sh])
  BY <1>1, LiveIsListed DEF StoreInv, IndexMatchesLRU
<1>3. id \in Issued(sh) /\ id[1] = sh
  BY <1>1, <1>2, ListedIsIssued
<1>4. /\ moved \in Seq(EntryIDs) /\ Len(moved) = Len(lru[sh]) /\ Range(moved) = Range(lru[sh])
      /\ IsInjective(moved)
  BY <1>2, MoveToFrontProperties
<1>4a. moved[1] = id
  BY <1>2, MoveToFrontFirst
<1>4b. ASSUME NEW i \in 1 .. Len(lru[sh]), NEW j \in 1 .. Len(lru[sh]), 1 < i, i < j
       PROVE  \E k, l \in 1 .. Len(lru[sh]) : /\ k < l /\ lru[sh][k] # id /\ lru[sh][l] # id
                                              /\ moved[i] = lru[sh][k] /\ moved[j] = lru[sh][l]
  <2> DEFINE k == SourceIndex(lru[sh], id, i)
             l == SourceIndex(lru[sh], id, j)
  <2>1. i # 1 /\ j # 1
    BY <1>4b
  <2>2. /\ k \in 1 .. Len(lru[sh]) /\ lru[sh][k] # id /\ moved[i] = lru[sh][k]
        /\ k < l
    BY <1>2, <1>4b, <2>1, MoveToFrontOrder
  <2>3. l \in 1 .. Len(lru[sh]) /\ lru[sh][l] # id /\ moved[j] = lru[sh][l]
    BY <1>2, <2>1, MoveToFrontOrder
  <2> HIDE DEF k, l, moved
  <2> QED
    BY <2>2, <2>3
<1> HIDE DEF sh, moved
<1>5. lru' = [lru EXCEPT ![sh] = moved]
  BY DEF sh, moved
<1>6. lru'[sh] = moved /\ \A s \in Shards : s # sh => lru'[s] = lru[s]
  BY <1>1, <1>5
<1>7. \A s \in Shards : Issued(s)' = Issued(s)
  BY DEF Issued
<1>8. ASSUME NEW s \in Shards, NEW i \in 1 .. Len(lru'[s]), NEW j \in 1 .. Len(lru'[s]), i < j
      PROVE  UsedAfter(lru[s][i], lru[s][j])'
  <2>1. CASE s = sh /\ i = 1
    <3>1. moved[j] \in Range(moved) /\ moved[j] # id /\ i \in DOMAIN moved /\ j \in DOMAIN moved
      BY <2>1, <1>4, <1>4a, <1>6, <1>8 DEF IsInjective, Range
    <3>2. moved[j] \in Issued(sh)
      BY <3>1, <1>1, <1>4, ListedIsIssued
    <3>3. PICK x : x = moved[j]
      OBVIOUS
    <3>4. UsedAfter(id, x)'
      BY <3>1, <3>2, <3>3, <1>3, UsedIsLatest
    <3> QED
      BY <3>3, <3>4, <2>1, <1>4a, <1>6 DEF UsedAfter
  <2>2. CASE s = sh /\ i # 1
    <3>1. i \in 1 .. Len(lru[sh]) /\ j \in 1 .. Len(lru[sh]) /\ 1 < i
      BY <2>2, <1>4, <1>6, <1>8
    <3>2. PICK k \in 1 .. Len(lru[sh]), l \in 1 .. Len(lru[sh]) :
             /\ k < l /\ lru[sh][k] # id /\ lru[sh][l] # id
             /\ moved[i] = lru[sh][k] /\ moved[j] = lru[sh][l]
      BY <3>1, <1>4b, <1>8
    <3>3. PICK x, y : x = moved[i] /\ y = moved[j]
      OBVIOUS
    <3>4. UsedAfter(x, y) /\ x # id /\ y # id
      BY <3>2, <3>3, <1>1 DEF HoldsMostRecentlyUsed
    <3>5. UsedAfter(x, y)'
      BY <3>4, OthersKeepOrder
    <3> QED
      BY <3>3, <3>5, <2>2, <1>6 DEF UsedAfter
  <2>3. CASE s # sh
    <3>1. lru'[s] = lru[s]
      BY <2>3, <1>6
    <3>2. PICK x, y : x = lru[s][i] /\ y = lru[s][j]
      OBVIOUS
    <3>3. x \in Range(lru[s]) /\ y \in Range(lru[s])
      BY <3>1, <3>2, <1>1 DEF Range
    <3>4. x # id /\ y # id
      BY <3>3, <2>3, <1>3, ListedIsIssued
    <3>5. UsedAfter(x, y)
      BY <3>1, <3>2, <1>8 DEF HoldsMostRecentlyUsed
    <3>6. UsedAfter(x, y)'
      BY <3>4, <3>5, OthersKeepOrder
    <3> QED
      BY <3>1, <3>2, <3>6 DEF UsedAfter
  <2> QED
    BY <2>1, <2>2, <2>3
<1>9. ASSUME NEW s \in Shards, NEW x \in Range(lru'[s]), NEW old \in Issued(s) \ Range(lru'[s])
      PROVE  UsedAfter(x, old)'
  <2>1. Range(lru'[s]) = Range(lru[s])
    BY <1>4, <1>6
  <2>2. UsedAfter(x, old)
    BY <2>1, <1>9 DEF HoldsMostRecentlyUsed
  <2>3. old # id
    <3>1. CASE s = sh
      BY <3>1, <2>1, <1>2, <1>9
    <3>2. CASE s # sh
      BY <3>2, <1>3, <1>9 DEF Issued
    <3> QED
      BY <3>1, <3>2
  <2>4. CASE x = id
    <3>1. s = sh
      BY <2>1, <2>4, <1>3, <1>9, ListedIsIssued
    <3> QED
      BY <3>1, <2>3, <2>4, <1>3, <1>9, UsedIsLatest
  <2>5. CASE x # id
    BY <2>2, <2>3, <2>5, OthersKeepOrder
  <2> QED
    BY <2>4, <2>5
<1> QED
  BY <1>7, <1>8, <1>9 DEF HoldsMostRecentlyUsed, Shards

\* An insert puts the new entry first and gives up only the last of the list.
LEMMA InsertKeepsRecency ==
  ASSUME StoreInv, HoldsMostRecentlyUsed,
         NEW b \in Buckets, NEW v \in Vecs, NEW resp \in Responses,
         Insert(b, v, resp), Used(NextID(b))
  PROVE  HoldsMostRecentlyUsed'
<1> DEFINE sh == ShardOf(b)
<1>1. /\ sh \in Shards /\ counter[sh] \in 0 .. MaxID /\ counter[sh] < MaxID /\ MaxID \in Nat
      /\ counter \in [Shards -> 0 .. MaxID] /\ lru \in [Shards -> Seq(EntryIDs)]
  BY Bounds, StoreAssumption DEF StoreInv, StoreTypeOK, Insert
<1>2. PICK id : id = <<sh, counter[sh] + 1>>
  OBVIOUS
<1>3. id = NextID(b) /\ id \in EntryIDs /\ id[1] = sh /\ Used(id)
  BY <1>1, <1>2 DEF NextID, EntryIDs, Used
<1> DEFINE pushed == PushFront(lru[sh], id)
           kept   == Evict(pushed)
<1>4. lru[sh] \in Seq(EntryIDs) /\ IsInjective(lru[sh])
  BY <1>1 DEF StoreInv, IndexMatchesLRU
<1>5. id \notin DOMAIN entries
  BY <1>1, <1>2 DEF StoreInv, OnlyIssuedIDs
<1>6. id \notin Range(lru[sh])
  BY <1>1, <1>5, ListedIsIssued
<1>7. /\ pushed \in Seq(EntryIDs) /\ Len(pushed) = Len(lru[sh]) + 1 /\ pushed[1] = id
      /\ Range(pushed) = Range(lru[sh]) \cup {id} /\ IsInjective(pushed)
  BY <1>3, <1>4, <1>6, PushFrontProperties
<1>8. \A i \in 1 .. Len(pushed) : i # 1 => i - 1 \in 1 .. Len(lru[sh]) /\ pushed[i] = lru[sh][i - 1]
  BY <1>4, <1>7, PushFrontOrder
<1>9. /\ kept \in Seq(EntryIDs)
      /\ \A i \in 1 .. Len(kept) : i \in 1 .. Len(pushed) /\ kept[i] = pushed[i]
      /\ Range(kept) \subseteq Range(pushed)
      /\ id \in Range(kept)
  BY <1>4, <1>7, EvictProperties
<1>10. lru' = [lru EXCEPT ![sh] = kept] /\ counter' = [counter EXCEPT ![sh] = @ + 1]
  BY <1>3 DEF Insert
<1> HIDE DEF sh, pushed, kept
<1>11. lru'[sh] = kept /\ \A s \in Shards : s # sh => lru'[s] = lru[s]
  BY <1>1, <1>10
<1>12. /\ Issued(sh)' = Issued(sh) \cup {id}
       /\ \A s \in Shards : s # sh => Issued(s)' = Issued(s)
  BY <1>1, <1>2, <1>10 DEF Issued
<1>13. \A i \in 1 .. Len(lru[sh]) : lru[sh][i] \in Range(lru[sh]) /\ lru[sh][i] # id
  BY <1>4, <1>6 DEF Range
<1>14. ASSUME NEW s \in Shards, NEW i \in 1 .. Len(lru'[s]), NEW j \in 1 .. Len(lru'[s]), i < j
       PROVE  UsedAfter(lru[s][i], lru[s][j])'
  <2>1. PICK x, y : x = lru'[s][i] /\ y = lru'[s][j]
    OBVIOUS
  <2> SUFFICES UsedAfter(x, y)'
    BY <2>1 DEF UsedAfter
  <2>2. CASE s = sh
    <3>1. /\ i \in 1 .. Len(pushed) /\ j \in 1 .. Len(pushed) /\ j # 1
          /\ x = pushed[i] /\ y = pushed[j]
      BY <2>1, <2>2, <1>9, <1>11, <1>14
    <3>2. j - 1 \in 1 .. Len(lru[sh]) /\ y = lru[sh][j - 1]
      BY <3>1, <1>8
    <3>3. y # id /\ y \in Issued(sh)
      BY <3>2, <1>1, <1>13, ListedIsIssued
    <3>4. CASE i = 1
      BY <3>1, <3>3, <3>4, <1>3, <1>7, UsedIsLatest
    <3>5. CASE i # 1
      <4>1. i - 1 \in 1 .. Len(lru[sh]) /\ x = lru[sh][i - 1] /\ i - 1 < j - 1
        BY <3>1, <3>5, <1>8, <1>14
      <4>2. UsedAfter(x, y) /\ x # id
        BY <4>1, <3>2, <1>1, <1>13 DEF HoldsMostRecentlyUsed
      <4> QED
        BY <4>2, <3>3, <1>3, OthersKeepOrder
    <3> QED
      BY <3>4, <3>5
  <2>3. CASE s # sh
    <3>1. lru'[s] = lru[s]
      BY <2>3, <1>11
    <3>2. x \in Range(lru[s]) /\ y \in Range(lru[s])
      BY <3>1, <2>1, <1>1 DEF Range
    <3>3. x # id /\ y # id
      BY <3>2, <2>3, <1>3, ListedIsIssued
    <3>4. UsedAfter(x, y)
      BY <3>1, <2>1, <1>14 DEF HoldsMostRecentlyUsed
    <3> QED
      BY <3>3, <3>4, <1>3, OthersKeepOrder
  <2> QED
    BY <2>2, <2>3
<1>15. ASSUME NEW s \in Shards, NEW x \in Range(lru'[s]), NEW old \in Issued(s)' \ Range(lru'[s])
       PROVE  UsedAfter(x, old)'
  <2>1. CASE s = sh
    <3>1. old # id /\ old \in Issued(sh) /\ x \in Range(kept) /\ old \notin Range(kept)
      BY <2>1, <1>9, <1>11, <1>12, <1>15
    <3>2. CASE x = id
      BY <3>1, <3>2, <1>3, UsedIsLatest
    <3>3. CASE x # id
      <4>1. PICK i \in 1 .. Len(kept) : x = kept[i]
        BY <3>1, <1>9 DEF Range
      <4>2. i \in 1 .. Len(pushed) /\ x = pushed[i] /\ i # 1
        BY <4>1, <3>3, <1>7, <1>9
      <4>3. i - 1 \in 1 .. Len(lru[sh]) /\ x = lru[sh][i - 1]
        BY <4>2, <1>8
      <4>4. CASE old \in Range(lru[sh])
        <5>1. old \in Range(pushed)
          BY <4>4, <1>7
        <5>2. PICK j \in 1 .. Len(pushed) : old = pushed[j]
          BY <5>1, <1>7 DEF Range
        <5>3. j # 1 /\ j - 1 \in 1 .. Len(lru[sh]) /\ old = lru[sh][j - 1]
          BY <5>2, <3>1, <1>7, <1>8
        <5>4. j > Len(kept)
          <6>1. SUFFICES ASSUME j \in 1 .. Len(kept) PROVE FALSE
            BY <5>2, <1>7, <1>9
          <6>2. old = kept[j] /\ DOMAIN kept = 1 .. Len(kept)
            BY <6>1, <5>2, <1>9
          <6> QED
            BY <6>1, <6>2, <3>1 DEF Range
        <5>5. i - 1 < j - 1
          BY <5>4, <4>1, <1>9
        <5>6. UsedAfter(x, old)
          BY <5>3, <5>5, <4>3, <1>1 DEF HoldsMostRecentlyUsed
        <5> QED
          BY <5>6, <3>1, <3>3, <1>3, OthersKeepOrder
      <4>5. CASE old \notin Range(lru[sh])
        <5>1. x \in Range(lru[sh])
          BY <4>3, <1>13
        <5>2. UsedAfter(x, old)
          BY <5>1, <4>5, <3>1, <1>1 DEF HoldsMostRecentlyUsed
        <5> QED
          BY <5>2, <3>1, <3>3, <1>3, OthersKeepOrder
      <4> QED
        BY <4>4, <4>5
    <3> QED
      BY <3>2, <3>3
  <2>2. CASE s # sh
    <3>1. x \in Range(lru[s]) /\ old \in Issued(s) \ Range(lru[s])
      BY <2>2, <1>11, <1>12, <1>15
    <3>2. x # id /\ old # id
      BY <3>1, <2>2, <1>3, ListedIsIssued DEF Issued
    <3>3. UsedAfter(x, old)
      BY <3>1 DEF HoldsMostRecentlyUsed
    <3> QED
      BY <3>2, <3>3, <1>3, OthersKeepOrder
  <2> QED
    BY <2>1, <2>2
<1> QED
  BY <1>14, <1>15 DEF HoldsMostRecentlyUsed, Shards

\* A step that changes neither the store nor the history.
LEMMA StutterKeepsRecency ==
  ASSUME HoldsMostRecentlyUsed, UNCHANGED recencyVars
  PROVE  HoldsMostRecentlyUsed'
BY DEF HoldsMostRecentlyUsed, recencyVars, storeVars, UsedAfter, Issued, Shards

\* The history variable only observes: its steps are steps of the store.
LEMMA RecencyNextIsStoreNext == [RecencyNext]_recencyVars => [StoreNext]_storeVars
<1> SUFFICES ASSUME [RecencyNext]_recencyVars PROVE [StoreNext]_storeVars
  OBVIOUS
<1>1. CASE RecencyNext
  BY <1>1 DEF RecencyNext, StoreNext, NearestUse, NearestNoUse, InsertUse, ObserveUse
<1>2. CASE UNCHANGED recencyVars
  BY <1>2 DEF recencyVars
<1> QED
  BY <1>1, <1>2

\* Every step keeps the lists in the order of use.
LEMMA NextKeepsRecency ==
  StoreInv /\ HoldsMostRecentlyUsed /\ [RecencyNext]_recencyVars => HoldsMostRecentlyUsed'
<1> SUFFICES ASSUME StoreInv, HoldsMostRecentlyUsed, [RecencyNext]_recencyVars
             PROVE  HoldsMostRecentlyUsed'
  OBVIOUS
<1>1. ASSUME NEW b \in Buckets, NEW v \in Vecs, NEW id \in DOMAIN entries, NearestUse(b, v, id)
      PROVE  HoldsMostRecentlyUsed'
  <2>1. Live(b, id)
    BY <1>1 DEF NearestUse, Nearest, Best, Comparable
  <2> QED
    BY <1>1, <2>1, TouchKeepsRecency DEF NearestUse, Nearest
<1>2. ASSUME NEW b \in Buckets, NEW v \in Vecs, NearestNoUse(b, v)
      PROVE  HoldsMostRecentlyUsed'
  BY <1>2, StutterKeepsRecency DEF NearestNoUse, NearestNone, recencyVars
<1>3. ASSUME NEW b \in Buckets, NEW v \in Vecs, NEW resp \in Responses, InsertUse(b, v, resp)
      PROVE  HoldsMostRecentlyUsed'
  BY <1>3, InsertKeepsRecency DEF InsertUse
<1>4. ASSUME NEW b \in Buckets, NEW id \in EntryIDs, NEW ob \in Observations, ObserveUse(b, id, ob)
      PROVE  HoldsMostRecentlyUsed'
  <2>1. CASE Live(b, id)
    BY <1>4, <2>1, TouchKeepsRecency DEF ObserveUse, Observe
  <2>2. CASE ~Live(b, id)
    BY <1>4, <2>2, StutterKeepsRecency DEF ObserveUse, Observe, recencyVars
  <2> QED
    BY <2>1, <2>2
<1>5. CASE UNCHANGED recencyVars
  BY <1>5, StutterKeepsRecency
<1> QED
  BY <1>1, <1>2, <1>3, <1>4, <1>5 DEF RecencyNext

\* The empty lists are in the order of use.
LEMMA InitHoldsMostRecent == RecencyInit => HoldsMostRecentlyUsed
<1> SUFFICES ASSUME RecencyInit PROVE HoldsMostRecentlyUsed
  OBVIOUS
<1>1. \A sh \in Shards : lru[sh] = << >>
  BY DEF RecencyInit, StoreInit
<1>2. \A sh \in Shards : Len(lru[sh]) = 0 /\ Range(lru[sh]) = {}
  BY <1>1 DEF Range
<1> QED
  BY <1>2 DEF HoldsMostRecentlyUsed

\* A shard holds the entries used last, in the order of their last use.
THEOREM StoreHoldsMostRecentlyUsed == RecencySpec => []HoldsMostRecentlyUsed
<1>1. RecencyInit => StoreInv /\ HoldsMostRecentlyUsed
  BY InitEstablishesInv, InitHoldsMostRecent DEF RecencyInit
<1>2. StoreInv /\ HoldsMostRecentlyUsed /\ [RecencyNext]_recencyVars
        => (StoreInv /\ HoldsMostRecentlyUsed)'
  BY RecencyNextIsStoreNext, NextKeepsInv, NextKeepsRecency
<1> QED
  BY <1>1, <1>2, PTL DEF RecencySpec
=============================================================================
