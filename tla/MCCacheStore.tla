---------------------------- MODULE MCCacheStore ----------------------------
(***************************************************************************)
(* The store on a small instance.  Two shards of capacity two; three       *)
(* buckets, two of which share a shard, so that an eviction can hit        *)
(* another bucket's entry; vectors that tie, that differ in length and     *)
(* that cannot be compared.                                                *)
(***************************************************************************)
EXTENDS CacheRecency

CONSTANTS b1, b2, b3, near, long, far, short, yes, no, MaxSeen, MaxOther

MCHash == b1 :> 0 @@ b2 :> 2 @@ b3 :> 1

\* long is near at twice the length; short has fewer dimensions.
MCVecs == {near, long, far, short}
MCUnit == near :> near @@ long :> near @@ far :> far @@ short :> short
MCDim  == [v \in MCVecs |-> IF v = short THEN 1 ELSE 2]
MCDot  == [p \in MCVecs \X MCVecs |-> IF MCUnit[p[1]] = MCUnit[p[2]] THEN 100 ELSE 40]

MCSymmetry == Permutations({yes, no})

\* MaxSeen bounds how many observations one entry is offered.
SeenBounded == \A id \in DOMAIN entries : entries[id].seen <= MaxSeen


\* MaxOther bounds the inserts into the second shard, there only to show that
\* one shard never touches the other.
OtherBounded == counter[1] <= MaxOther

MCNext == RecencyNext /\ SeenBounded' /\ OtherBounded'
MCSpec == RecencyInit /\ [][MCNext]_recencyVars
=============================================================================
