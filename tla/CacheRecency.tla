----------------------------- MODULE CacheRecency -----------------------------
(***************************************************************************)
(* The store with a memory of its own use: a history variable relates all  *)
(* the entry IDs ever issued, evicted ones included, by the order of their *)
(* last uses.  It observes the operations and never the LRU lists, so the  *)
(* two can be compared.  The module also states that the store implements  *)
(* the contract of the Store interface.                                    *)
(***************************************************************************)
EXTENDS CacheStore

VARIABLE later  \* <<a, b>> \in later: a was last used after b, in the same shard

recencyVars == <<storeVars, later>>

RecencyInit == StoreInit /\ later = {}

Issued(sh) == {sh} \X (1 .. counter[sh])

\* The entry id has just been used: it is later than all the others of its shard.
Used(id) ==
  later' = {p \in later : p[2] # id} \cup ({id} \X (Issued(id[1]) \ {id}))

NearestUse(b, v, id) == Nearest(b, v, id) /\ Used(id)

NearestNoUse(b, v) == NearestNone(b, v) /\ UNCHANGED later

ObserveUse(b, id, ob) ==
  /\ Observe(b, id, ob)
  /\ IF Live(b, id) THEN Used(id) ELSE UNCHANGED later

InsertUse(b, v, resp) == Insert(b, v, resp) /\ Used(NextID(b))

RecencyNext ==
  \E b \in Buckets :
     \/ \E v \in Vecs : \/ \E id \in DOMAIN entries : NearestUse(b, v, id)
                        \/ NearestNoUse(b, v)
                        \/ \E resp \in Responses : InsertUse(b, v, resp)
     \/ \E id \in EntryIDs, ob \in Observations : ObserveUse(b, id, ob)

RecencySpec == RecencyInit /\ [][RecencyNext]_recencyVars

-----------------------------------------------------------------------------
UsedAfter(a, b) == <<a, b>> \in later /\ <<b, a>> \notin later

\* A shard's list is in the order of last use and everything it gave up was used
\* before everything it kept, whatever sequence of hits, late labels and inserts
\* led there: no entry is evicted while one used longer ago stays, and a label
\* on an evicted entry revives nothing.  With WithinCapacity: a shard holds
\* exactly its capacity's worth of the entries used last.
HoldsMostRecentlyUsed ==
  \A sh \in Shards :
     /\ \A i, j \in 1 .. Len(lru[sh]) : i < j => UsedAfter(lru[sh][i], lru[sh][j])
     /\ \A id \in Range(lru[sh]), old \in Issued(sh) \ Range(lru[sh]) : UsedAfter(id, old)

\* The contract of the Store interface, with the lists and the shards mapped
\* away and the issued IDs read off the ID sequences.
Contract == INSTANCE StoreContract WITH
  Vecs   <- Range(Unit),
  IDs    <- EntryIDs,
  Cap    <- ObsCap,
  live   <- entries,
  issued <- {id \in EntryIDs : id[2] <= counter[id[1]]}

\* Every operation of the store is one the interface allows: a fresh ID that was
\* never used, an entry whose bucket, vector and response never change while it
\* lives, an Observe that touches its own entry only.
ImplementsContract == Contract!ContractInit /\ [][Contract!ContractNext]_(Contract!contractVars)
=============================================================================
