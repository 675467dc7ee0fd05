---------------------------- MODULE MCGatewaySpend ----------------------------
(***************************************************************************)
(* The gateway with budgets: a key whose requests all hit one bucket, with *)
(* every way a request can be refused or go around the cache, and a second *)
(* key.  A request costs more than what is left of the ceiling after one.  *)
(***************************************************************************)
EXTENDS GatewaySpend

CONSTANTS b1, chat, mini, ada, k1, k2

MCKind(r) == CASE r <= 3 -> "cacheable" [] r = 4 -> "bypass"
               [] r = 5 -> "malformed"  [] r = 6 -> "unauthorised"
MCAsk(r) == [key |-> IF r = 4 THEN k2 ELSE k1, kind |-> MCKind(r), bucket |-> b1, vec |-> "v",
             model |-> IF r = 3 THEN mini ELSE chat, answer |-> 1]
MCRequests == [r \in Requests |-> MCAsk(r)]
MCHash == [b \in Buckets |-> 0]
MCDot  == [p \in Vecs \X Vecs |-> 100]
MCUnit == [v \in Vecs |-> v]
MCDim  == [v \in Vecs |-> 2]
MCChatPrice  == chat :> 2 @@ mini :> 1
MCEmbedPrice == chat :> 1 @@ mini :> 0

\* The shape of config/prices.json: a chat model has no embedding price, and the
\* embedding model (ada) has no other.
ShippedChatPrice  == mini :> 1 @@ ada :> 0
ShippedEmbedPrice == mini :> 0 @@ ada :> 1
=============================================================================
