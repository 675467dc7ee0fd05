----------------------------- MODULE VerifiedCache -----------------------------
(***************************************************************************)
(* What a verified semantic cache promises its clients, with no store, no  *)
(* eviction, no queue and no workers.  A request is answered once, for     *)
(* good.  An answer comes from the backend or is another request's answer  *)
(* that was planted in the cache and has been judged Floor times since.  A *)
(* request learns only after its own answer: it passes at most one verdict *)
(* on a planted answer, and plants its own unless that verdict was good.   *)
(***************************************************************************)
EXTENDS Integers, FiniteSets

CONSTANTS
  Requests,
  BucketOf,  \* BucketOf[r]: the exact-match bucket of request r
  Truly,     \* Truly[<<r, q>>]: q's answer is equivalent to r's own
  Floor      \* verdicts an answer needs before it is served

VARIABLES
  answer,    \* answer[r].how: "none", "refused", "failed", "relayed", "fresh" or "cached";
             \* answer[r].of: whose backend call produced it
  planted,   \* requests whose answers were put into the cache
  verdicts   \* <<r, q, c>>: r's own answer was compared with q's planted one

promiseVars == <<answer, planted, verdicts>>

PromiseInit ==
  /\ answer = [r \in Requests |-> [how |-> "none", of |-> r]]
  /\ planted = {} /\ verdicts = {}

Answered(r, how, q) ==
  /\ answer[r].how = "none"
  /\ answer' = [answer EXCEPT ![r] = [how |-> how, of |-> q]]
  /\ UNCHANGED <<planted, verdicts>>

FromBackend(r) == \E how \in {"refused", "failed", "relayed", "fresh"} : Answered(r, how, r)

FromCache(r, q) ==
  /\ q \in planted /\ BucketOf[q] = BucketOf[r]
  /\ Cardinality({v \in verdicts : v[2] = q}) >= Floor
  /\ Answered(r, "cached", q)

VerdictsBy(r) == {v \in verdicts : v[1] = r}

Judged(r, q, c) ==
  /\ answer[r].how = "fresh" /\ VerdictsBy(r) = {} /\ r \notin planted
  /\ q \in planted /\ BucketOf[q] = BucketOf[r]
  /\ c => Truly[<<r, q>>]
  /\ verdicts' = verdicts \cup {<<r, q, c>>}
  /\ UNCHANGED <<answer, planted>>

Planted(r) ==
  /\ answer[r].how = "fresh" /\ r \notin planted
  /\ \A v \in VerdictsBy(r) : ~v[3]
  /\ planted' = planted \cup {r}
  /\ UNCHANGED <<answer, verdicts>>

PromiseNext ==
  \E r \in Requests :
     \/ FromBackend(r) \/ Planted(r)
     \/ \E q \in Requests : FromCache(r, q) \/ \E c \in BOOLEAN : Judged(r, q, c)

PromiseSpec == PromiseInit /\ [][PromiseNext]_promiseVars
=============================================================================
