-------------------------------- MODULE Gateway --------------------------------
(***************************************************************************)
(* The chat completions handler (internal/gateway/chat.go, behind the auth *)
(* and budget middleware) composed with the cache store, the asynchronous  *)
(* labeler and the budget tracker.                                         *)
(*                                                                         *)
(* Each request is a goroutine.  A handler is atomic between two points    *)
(* where another goroutine could matter: a call to the embedder or to the  *)
(* backend, a lock of the store or of the tracker, the send to the         *)
(* labeler.  What one of these points learned is kept in the request's own *)
(* state (found) and used later, when the store may have moved on.         *)
(*                                                                         *)
(* A stored response is named by the request whose backend call produced   *)
(* it, an observation by the request it was measured for and its verdict.  *)
(* Headers, logs and metrics are left out.                                 *)
(***************************************************************************)
EXTENDS CacheStore, Labeler, Budget

CONSTANTS
  Requests,  \* the requests that may arrive
  Ask,       \* Ask[r]: what request r carries
  NMin,      \* the policy's cold-start floor
  Models, ChatPrice, EmbedPrice  \* the price table, cents for one call

Kinds == {"unauthorised", "malformed", "bypass", "cacheable"}

Observation == [by : Requests, c : BOOLEAN]

\* A labeling job: a request, and the request whose response it is compared with.
\* Two responses are equivalent when the model gave the same answer.
LabelJobs  == Requests \X Requests
SameAnswer == [j \in LabelJobs |-> Ask[j[1]].answer = Ask[j[2]].answer]

ASSUME GatewayAssumption ==
  /\ IsFiniteSet(Requests) /\ IsFiniteSet(Models)
  /\ Ask \in [Requests -> [key : Keys, kind : Kinds, bucket : Buckets, vec : Vecs,
                           model : Models, answer : Nat]]
  /\ NMin \in Nat
  /\ ChatPrice \in [Models -> Nat] /\ EmbedPrice \in [Models -> Nat]
  /\ Responses = Requests /\ Observations = Observation
  /\ Jobs = LabelJobs /\ Equivalent = SameAnswer

VARIABLES
  pc,      \* pc[r]: where the handler of request r is
  reply,   \* reply[r]: what the handler answered r with, "none" before that
  found,   \* found[r]: the entry Nearest returned to r and whose answer it held, or NoMatch
  half     \* half[w]: which of OnResult's two store calls worker w makes next

handlerVars == <<pc, reply, found>>
gatewayVars == <<storeVars, labelerVars, spent, handlerVars, half>>

Steps   == {"new", "embed", "lookup", "hit", "fetch", "account", "learn", "passthrough", "done"}
Replies == {"none", "401", "429", "400", "passed", "hit", "miss", "relayed", "502"}
NoMatch == [id |-> <<0, 0>>, of |-> CHOOSE r \in Requests : TRUE]
Matches == [id : EntryIDs, of : Requests] \cup {NoMatch}

GatewayInit ==
  /\ StoreInit /\ LabelerInit /\ BudgetInit
  /\ pc = [r \in Requests |-> "new"]
  /\ reply = [r \in Requests |-> "none"]
  /\ found = [r \in Requests |-> NoMatch]
  /\ half = [w \in Workers |-> "observe"]

Goto(r, step)     == pc' = [pc EXCEPT ![r] = step]
Answer(r, status) == reply' = [reply EXCEPT ![r] = status]

-----------------------------------------------------------------------------
\* authMiddleware, then budgetMiddleware, then the validation of the body: the
\* status of the first that refuses, or "none".
Screen(r) ==
  CASE Ask[r].kind = "unauthorised" -> "401"
    [] Ask[r].kind # "unauthorised" /\ OverBudget(Ask[r].key) -> "429"
    [] Ask[r].kind = "malformed" /\ ~OverBudget(Ask[r].key) -> "400"
    [] OTHER -> "none"

Reject(r) ==
  /\ pc[r] = "new" /\ Screen(r) # "none"
  /\ Answer(r, Screen(r)) /\ Goto(r, "done")
  /\ UNCHANGED <<storeVars, labelerVars, spent, found, half>>

\* A request shape that is not cached goes around the cache.
Admit(r) ==
  /\ pc[r] = "new" /\ Screen(r) = "none"
  /\ Goto(r, IF Ask[r].kind = "bypass" THEN "passthrough" ELSE "embed")
  /\ UNCHANGED <<storeVars, labelerVars, spent, reply, found, half>>

\* proxyPassthrough relays whatever comes back; it bills and learns nothing.
Passthrough(r) ==
  /\ pc[r] = "passthrough"
  /\ Answer(r, "passed") /\ Goto(r, "done")
  /\ UNCHANGED <<storeVars, labelerVars, spent, found, half>>

EmbedFails(r) ==
  /\ pc[r] = "embed"
  /\ Goto(r, "passthrough")
  /\ UNCHANGED <<storeVars, labelerVars, spent, reply, found, half>>

\* recordEmbedUsage looks the price up under the request's chat model.
EmbedReturns(r) ==
  /\ pc[r] = "embed"
  /\ Add(Ask[r].key, EmbedPrice[Ask[r].model])
  /\ Goto(r, "lookup")
  /\ UNCHANGED <<storeVars, labelerVars, reply, found, half>>

-----------------------------------------------------------------------------
\* Mutant: no cold-start floor.
BugMayExploit(obs) == TRUE

\* Decide: below the cold-start floor it always explores; above, what the fit and
\* the coin say is left open.
MayExploit(obs) == Len(obs) >= NMin

Lookup(r, id) ==
  /\ pc[r] = "lookup"
  /\ Nearest(Ask[r].bucket, Ask[r].vec, id)
  /\ found' = [found EXCEPT ![r] = [id |-> id, of |-> entries[id].resp]]
  /\ \/ MayExploit(entries[id].obs) /\ Goto(r, "hit")
     \/ Goto(r, "fetch")
  /\ UNCHANGED <<labelerVars, spent, reply, half>>

LookupFindsNothing(r) ==
  /\ pc[r] = "lookup"
  /\ NearestNone(Ask[r].bucket, Ask[r].vec)
  /\ Goto(r, "fetch")
  /\ UNCHANGED <<labelerVars, spent, reply, found, half>>

\* Mutant: the cost a hit saves is billed to the key.
BugServeHit(r) ==
  /\ pc[r] = "hit"
  /\ Add(Ask[r].key, ChatPrice[Ask[r].model])
  /\ Answer(r, "hit") /\ Goto(r, "done")
  /\ UNCHANGED <<storeVars, labelerVars, found, half>>

ServeHit(r) ==
  /\ pc[r] = "hit"
  /\ Answer(r, "hit") /\ Goto(r, "done")
  /\ UNCHANGED <<storeVars, labelerVars, spent, found, half>>

\* Mutant: the handler returns without writing the error.
BugFetchFails(r) ==
  /\ pc[r] = "fetch"
  /\ \E status \in {"none", "relayed"} : Answer(r, status)
  /\ Goto(r, "done")
  /\ UNCHANGED <<storeVars, labelerVars, spent, found, half>>

\* The backend cannot be reached, or what it answers cannot be cached.
FetchFails(r) ==
  /\ pc[r] = "fetch"
  /\ \E status \in {"502", "relayed"} : Answer(r, status)
  /\ Goto(r, "done")
  /\ UNCHANGED <<storeVars, labelerVars, spent, found, half>>

\* The answer is written before anything is learned from it; net/http may keep it in a
\* buffer until the handler returns (Lifecycle, Exchange).
FetchReturns(r) ==
  /\ pc[r] = "fetch"
  /\ Answer(r, "miss") /\ Goto(r, "account")
  /\ UNCHANGED <<storeVars, labelerVars, spent, found, half>>

\* recordBackendUsage
Account(r) ==
  /\ pc[r] = "account"
  /\ Add(Ask[r].key, ChatPrice[Ask[r].model])
  /\ Goto(r, "learn")
  /\ UNCHANGED <<storeVars, labelerVars, reply, found, half>>

ColdInsert(r) ==
  /\ pc[r] = "learn" /\ found[r] = NoMatch
  /\ Insert(Ask[r].bucket, Ask[r].vec, r)
  /\ Goto(r, "done")
  /\ UNCHANGED <<labelerVars, spent, reply, found, half>>

JobOf(r) == <<r, found[r].of>>

\* Mutant: the send waits for room in the queue.
BugSubmitForLabel(r) ==
  /\ pc[r] = "learn" /\ found[r] # NoMatch
  /\ Len(queue) < QueueCap
  /\ Submit(JobOf(r))
  /\ Goto(r, "done")
  /\ UNCHANGED <<storeVars, spent, reply, found, half>>

\* Accepted, dropped, or a panic that recoverMiddleware catches: the handler ends.
SubmitForLabel(r) ==
  /\ pc[r] = "learn" /\ found[r] # NoMatch
  /\ Submit(JobOf(r))
  /\ Goto(r, "done")
  /\ UNCHANGED <<storeVars, spent, reply, found, half>>

-----------------------------------------------------------------------------
\* OnResult, called by worker w with its verdict on request r: two store calls,
\* and the shard's lock is free between them.
Labels(w, r) == phase[w] = "callback" /\ r = job[w][1]

\* Mutant: the label goes to the bucket's most recently used entry.
BugCallbackObserves(w, r) ==
  /\ Labels(w, r) /\ half[w] = "observe"
  /\ Observe(Ask[r].bucket, lru[ShardOf(Ask[r].bucket)][1], [by |-> r, c |-> verdict[w]])
  /\ half' = [half EXCEPT ![w] = "insert"]
  /\ UNCHANGED <<labelerVars, spent, handlerVars>>

CallbackObserves(w, r) ==
  /\ Labels(w, r) /\ half[w] = "observe"
  /\ Observe(Ask[r].bucket, found[r].id, [by |-> r, c |-> verdict[w]])
  /\ half' = [half EXCEPT ![w] = "insert"]
  /\ UNCHANGED <<labelerVars, spent, handlerVars>>

\* Mutant: the guard is the wrong way round.
BugGuardedInsert(r, neighborCorrect) ==
  IF ~neighborCorrect THEN UNCHANGED storeVars ELSE Insert(Ask[r].bucket, Ask[r].vec, r)

GuardedInsert(r, neighborCorrect) ==
  IF neighborCorrect THEN UNCHANGED storeVars ELSE Insert(Ask[r].bucket, Ask[r].vec, r)

CallbackInserts(w, r) ==
  /\ Labels(w, r) /\ half[w] = "insert"
  /\ GuardedInsert(r, verdict[w])
  /\ CallbackReturns(w)
  /\ half' = [half EXCEPT ![w] = "observe"]
  /\ UNCHANGED <<spent, handlerVars>>

\* The part of a worker's loop that touches the labeler alone.
Idle(w) ==
  /\ \/ Receive(w)
     \/ Exit(w)
     \/ \E answer \in {"answer", "error"} : JudgeReturns(w, answer)
  /\ UNCHANGED <<storeVars, spent, handlerVars, half>>

Arrive(r) == Reject(r) \/ Admit(r)

Handle(r) ==
  \/ Passthrough(r)
  \/ EmbedFails(r) \/ EmbedReturns(r)
  \/ \E id \in DOMAIN entries : Lookup(r, id)
  \/ LookupFindsNothing(r)
  \/ ServeHit(r)
  \/ FetchFails(r) \/ FetchReturns(r)
  \/ Account(r) \/ ColdInsert(r) \/ SubmitForLabel(r)

Work(w) ==
  \/ Idle(w)
  \/ \E r \in Requests : CallbackObserves(w, r) \/ CallbackInserts(w, r)

GatewayNext ==
  \/ \E r \in Requests : Arrive(r) \/ Handle(r)
  \/ \E w \in Workers : Work(w)

\* A handler that has begun keeps running: the backend call has a deadline
\* (BackendTimeout), the embedder's lasts as long as its client waits.  Nothing is
\* assumed of the judge: no worker need ever take another step.
GatewayFairness == \A r \in Requests : WF_gatewayVars(Handle(r))

GatewaySpec == GatewayInit /\ [][GatewayNext]_gatewayVars /\ GatewayFairness

-----------------------------------------------------------------------------
\* Type correctness of the handlers' own state.
GatewayTypeOK ==
  /\ spent \in [Keys -> Nat]
  /\ pc \in [Requests -> Steps]
  /\ reply \in [Requests -> Replies]
  /\ found \in [Requests -> Matches]
  /\ half \in [Workers -> {"observe", "insert"}]
  /\ \A r \in Requests : pc[r] = "done" => reply[r] # "none"

\* r's label has been offered to the entry r was compared with.
Offers(r) ==
  found[r] # NoMatch /\ \/ labels[JobOf(r)] # << >>
                        \/ \E w \in Workers : Labels(w, r) /\ half[w] = "insert"

LabelsOf(id) == {r \in Requests : Offers(r) /\ found[r].id = id}

\* An entry has been offered the label of every request that was compared with it
\* and of no other, each once; what it keeps are such labels, and a positive one
\* tells the truth about the entry's answer.  Labels come late, out of order and
\* after evictions, so an ID captured before the judge ran must still mean the
\* same entry or none (the closure in exploreWithNeighbor, Observe).
LabelsReachTheirEntry ==
  \A id \in DOMAIN entries :
     /\ entries[id].seen = Cardinality(LabelsOf(id))
     /\ \A i \in DOMAIN entries[id].obs :
           LET ob == entries[id].obs[i]
           IN  ob.by \in LabelsOf(id) /\ (ob.c => SameAnswer[<<ob.by, entries[id].resp>>])

ColdLearned == {r \in Requests : found[r] = NoMatch /\ reply[r] = "miss" /\ pc[r] = "done"}
Refuting    == {r \in Requests : found[r] # NoMatch /\ labels[JobOf(r)] = <<FALSE>>}
Planted     == ColdLearned \cup Refuting

\* Algorithm 1's insertion rule across both paths: a shard was given an entry for
\* each cold miss of its buckets and for each request of them whose neighbor was
\* judged wrong, and never for another request, a hit or a dropped label among them
\* (exploreColdMiss, GuardedInsert).
InsertsAreGuarded ==
  /\ \A sh \in Shards : counter[sh] = Cardinality({r \in Planted : ShardOf(Ask[r].bucket) = sh})
  /\ \A id \in DOMAIN entries : entries[id].resp \in Planted
  /\ \A id1, id2 \in DOMAIN entries : entries[id1].resp = entries[id2].resp => id1 = id2

\* A hit is served from an answer that another request of the same bucket got
\* from the backend, and only after NMin judged explores of that very entry, even
\* when the entry is evicted between Nearest and the reply (serveHit, Decide).
HitsAreEarned ==
  \A r \in Requests : (pc[r] = "hit" \/ reply[r] = "hit") =>
     /\ Ask[found[r].of].bucket = Ask[r].bucket
     /\ reply[found[r].of] = "miss"
     /\ Cardinality(LabelsOf(found[r].id)) >= NMin

\* The verdicts of OnResult calls that have reached the store.
VerdictOn(r) == IF labels[JobOf(r)] # << >> THEN labels[JobOf(r)][1]
                ELSE verdict[CHOOSE w \in Workers : Labels(w, r)]
Verdicts     == {<<r, found[r].of, VerdictOn(r)>> : r \in {q \in Requests : Offers(q)}}

AnswerOf(r) ==
  [how |-> CASE reply[r] \in {"401", "429", "400"} -> "refused"
             [] reply[r] = "passed" -> "relayed"
             [] reply[r] = "502"    -> "failed"
             [] reply[r] = "miss"   -> "fresh"
             [] reply[r] = "hit"    -> "cached"
             [] OTHER -> reply[r],
   of  |-> IF reply[r] = "hit" THEN found[r].of ELSE r]

Promise == INSTANCE VerifiedCache WITH
  BucketOf <- [r \in Requests |-> Ask[r].bucket],
  Truly    <- SameAnswer,
  Floor    <- NMin,
  answer   <- [r \in Requests |-> AnswerOf(r)],
  planted  <- Planted,
  verdicts <- Verdicts

\* The gateway implements the promise: whatever the store evicts, the queue drops,
\* the judge delays and the handlers do meanwhile, answers, verdicts and inserts
\* happen in an order the promise allows.
ImplementsVerifiedCache == Promise!PromiseSpec

Embedded(r) == \/ pc[r] \in {"lookup", "hit", "fetch", "account", "learn"}
               \/ pc[r] = "done" /\ reply[r] \in {"hit", "miss", "relayed", "502"}
Paid(r)     == pc[r] = "learn" \/ (pc[r] = "done" /\ reply[r] = "miss")
CostOf(r)   == (IF Embedded(r) THEN EmbedPrice[Ask[r].model] ELSE 0)
               + (IF Paid(r) THEN ChatPrice[Ask[r].model] ELSE 0)

\* A key is billed once for each embedding and each learned-from backend call of
\* its own requests, and for nothing else: not for hits, refusals or failures
\* (accounting.go).
SpendIsExact ==
  \A k \in Keys : spent[k] =
     IF Enabled THEN MapThenSumSet(CostOf, {r \in Requests : Ask[r].key = k}) ELSE 0

\* Every handler returns, whatever the judge, the workers and the queue do:
\* labeling is off the critical path (Submit's non-blocking send).
EveryHandlerReturns == \A r \in Requests : pc[r] # "new" ~> pc[r] = "done"

\* The comment on exploreColdMiss: a cold miss inserts "the bucket's first entry",
\* so no bucket holds two entries that were both inserted as its first.
ColdEntriesAreFirst ==
  \A id1, id2 \in DOMAIN entries :
     /\ entries[id1].bucket = entries[id2].bucket
     /\ {entries[id1].resp, entries[id2].resp} \subseteq ColdLearned
     => id1 = id2

\* The comment on recordEmbedUsage: "Charged on every cacheable request".
EmbeddingIsBilled ==
  [][\A r \in Requests : pc[r] = "embed" /\ pc'[r] = "lookup" =>
        spent'[Ask[r].key] > spent[Ask[r].key]]_gatewayVars
=============================================================================
