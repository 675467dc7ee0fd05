----------------------------- MODULE MCLifecycle -----------------------------
(***************************************************************************)
(* The process with three requests for one bucket, so that at most two     *)
(* labels are queued or at work when it is told to stop, and one request   *)
(* that is turned away.                                                    *)
(***************************************************************************)
EXTENDS Lifecycle

CONSTANTS b1, chat, k1

MCAsk(r) == [key |-> k1, kind |-> IF r = 4 THEN "unauthorised" ELSE "cacheable",
             bucket |-> b1, vec |-> "v", model |-> chat, answer |-> IF r = 3 THEN 2 ELSE 1]
MCRequests == [r \in Requests |-> MCAsk(r)]
MCHash  == [b \in Buckets |-> 0]
MCDot   == [p \in Vecs \X Vecs |-> 100]
MCUnit  == [v \in Vecs |-> v]
MCDim   == [v \in Vecs |-> 2]
MCPrice == [m \in Models |-> 0]
=============================================================================
