----------------------------- MODULE StoreContract -----------------------------
(***************************************************************************)
(* What a cache.Store promises its caller (internal/cache/cache.go), with  *)
(* no shards, no lists and no eviction order: a set of live entries, each  *)
(* under an ID that was never used before.  An Insert makes its own entry  *)
(* live and may forget any others; an Observe touches only its own entry,  *)
(* and only if it is still live; everything a caller once read of an entry *)
(* except its observations stays true as long as the entry lives.          *)
(***************************************************************************)
EXTENDS Integers, SequencesExt

CONSTANTS Buckets, Vecs, Responses, Observations,
          IDs,   \* everything that can be an entry ID
          Cap    \* most observations one entry holds

VARIABLES live,    \* live[id]: the entries a Nearest may return; obs is a sample of
                   \* the seen labels the entry was offered
          issued   \* IDs returned by Insert so far

contractVars == <<live, issued>>

ContractInit == live = << >> /\ issued = {}

Fresh == IDs \ issued

InsertEntry(id) ==
  /\ issued' = issued \cup {id}
  /\ \E kept \in SUBSET DOMAIN live, b \in Buckets, v \in Vecs, resp \in Responses :
        live' = [i \in kept \cup {id} |->
                   IF i = id THEN [bucket |-> b, vec |-> v, resp |-> resp,
                                   obs |-> << >>, seen |-> 0]
                             ELSE live[i]]

\* The observation joins the entry's sample, replaces one of it or is left out.
Sampled(obs, ob) ==
  IF Len(obs) < Cap THEN {Append(obs, ob)}
  ELSE {obs} \cup {[obs EXCEPT ![j] = ob] : j \in 1 .. Len(obs)}

Labelled(e, obs) == [[e EXCEPT !.obs = obs] EXCEPT !.seen = e.seen + 1]

ObserveEntry(id, ob) ==
  /\ \E obs \in Sampled(live[id].obs, ob) :
        live' = [live EXCEPT ![id] = Labelled(@, obs)]
  /\ UNCHANGED issued

ContractNext ==
  \/ \E id \in Fresh : InsertEntry(id)
  \/ \E id \in DOMAIN live, ob \in Observations : ObserveEntry(id, ob)

ContractSpec == ContractInit /\ [][ContractNext]_contractVars
=============================================================================
