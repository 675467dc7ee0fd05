------------------------------ MODULE MCGateway ------------------------------
(***************************************************************************)
(* The gateway with five requests.  Three share a bucket, the third with   *)
(* an answer of its own, so that a neighbor can be right or wrong; the     *)
(* fourth asks in another bucket of the same shard and can evict them; the *)
(* fifth is malformed.                                                     *)
(***************************************************************************)
EXTENDS Gateway

CONSTANTS b1, b2, chat, k1

MCAsk(r) == [key |-> k1, kind |-> IF r = 5 THEN "malformed" ELSE "cacheable",
             bucket |-> IF r = 4 THEN b2 ELSE b1, vec |-> "v",
             model |-> chat, answer |-> IF r = 3 THEN 2 ELSE 1]
MCRequests == [r \in Requests |-> MCAsk(r)]
MCHash == [b \in Buckets |-> 0]
MCDot  == [p \in Vecs \X Vecs |-> 100]
MCUnit == [v \in Vecs |-> v]
MCDim  == [v \in Vecs |-> 2]
MCPrice == [m \in Models |-> 0]
=============================================================================
