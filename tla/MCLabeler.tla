------------------------------ MODULE MCLabeler ------------------------------
(***************************************************************************)
(* The labeler with four jobs, a queue of two and two workers: more jobs   *)
(* than the queue and the workers hold together, so that jobs are dropped, *)
(* overtake each other and are still queued when the labeler is closed.    *)
(***************************************************************************)
EXTENDS Labeler

MCEquivalent == [j \in Jobs |-> j % 2 = 0]
=============================================================================
