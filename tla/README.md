# A TLA+ model of semblance

semblance is an LLM gateway with a *verified* semantic cache: a request is
embedded, its nearest cached neighbour is looked up in an exact-match bucket, and
a policy decides between serving the cached answer (exploit) and calling the
backend (explore). Every explore is judged asynchronously, and its label teaches
the cache. This directory models the program's core, checks it with TLC on
small instances, and proves with TLAPS that every safety property the runs check
holds for every instance.

## Inventory: the system's parts

| part | state | operations | what makes it correct |
|---|---|---|---|
| cache store (`internal/cache/memory.go`) | per shard: bucket index, LRU list, ID counter; per entry: vector, response, reservoir of labels | Nearest, Observe, Insert; Len reads only | index and list in step; evicts the least recently used; IDs never reused; reservoir full and bounded |
| guarded insert (`cache/guarded.go`) | none | GuardedInsert | inserts only when the neighbour was judged wrong |
| labeler (`internal/judge/labeler.go`) | bounded channel, workers, wait group | Submit, worker loop, Close | no job lost or repeated; Submit never waits; Close drains |
| judge (`judge/judge.go`) | none | Equivalent | a failure is never a positive label |
| gateway handler (`internal/gateway/chat.go`) | per request: where it is, its match snapshot | bypass, embed, look up, hit, explore, callback | labels reach their entry; hits are earned; the client never waits for learning |
| middleware (`gateway/middleware.go`) | response recorder | recover, request ID, access log, auth, budget | refuses before work is done; a panic never corrupts a reply that has begun |
| accounting, pricing, budget (`gateway/accounting.go`, `internal/pricing`, `internal/budget`) | cents spent per key, gauges | OverBudget, Add, RemainingCents, record* | billed exactly once; the ceiling is overshot by concurrency alone |
| process (`cmd/semblance/main.go`) | why `run` returns | signal, listener failure, Shutdown, deferred Close | a clean shutdown loses nothing; it always ends |
| policy (`internal/policy`) | none, an injected RNG | Decide, Fit, tauHat | explores while it cannot bound the error |
| configuration (`internal/config`) | none | Load | rejects what no component can work with |
| request inspection (`chat.go`, `cache.go`) | none | bypassReason, bucketKeyForRequest, BucketKey | no boundary between two parts of a key can be shifted |
| relay to the client (`chat.go`, `middleware.go`) | what was written, flushed, logged | proxyPassthrough, relayStream, writeBuffered | the client gets the upstream's bytes, in time, or one error |
| bench replay (`bench/replay.go`) | list of entries, score | runArm, nearest, insertEntry, appendObs | deterministic: the parallel scan is the serial one; same rules as the cache |
| embedder, metrics, wire types | | | see "What is not modelled" |

The parts meet in the handler. It calls the embedder and the backend (slow, may
fail), the store (one mutex per shard), the tracker (one mutex), and `Submit`; the
labeler's workers call the judge and then the handler's `OnResult` closure, which
calls the store twice. `main` owns the gateway and closes the labeler when `run`
returns, for whatever reason.

The hard behaviours: a lookup's snapshot is used long after the lock was released
(by the reply, by the cold insert, by the label); labels arrive late and out of
order, for entries that may have been evicted; the queue is full; the judge fails;
the budget is checked before and billed after; handlers outlive the shutdown; a
relay is cut, its client leaves, or a handler panics before, in or after the first
write; a setting is accepted that turns a part off.
`PROJECT.json` lists each hazard at its line.

## Modules

| module | models | extends |
|---|---|---|
| `CacheStore` | `memory.go`, one action per Store operation | |
| `CacheRecency` | the store with a history of its uses | `CacheStore` |
| `StoreContract` | what the `Store` interface promises, with no shards or lists | |
| `Labeler` | `labeler.go` | |
| `Budget` | `budget.go` | |
| `Gateway` | `chat.go`, auth and budget middleware, accounting, composed with the three | `CacheStore`, `Labeler`, `Budget` |
| `VerifiedCache` | what the gateway promises its clients, with no store, queue or workers | |
| `GatewaySpend` | the gateway with the budget gauge, and a history of each key's concurrency | `Gateway` |
| `Lifecycle` | `main.go` around the gateway | `Gateway` |
| `Floats` | float64 comparisons with NaN and infinity, over fractions | |
| `Policy` | `decide.go`, over an abstract fit and confidence band | `Floats` |
| `Config` | which environments `Load` accepts (`config.go`) | `Floats` |
| `Inspection` | bypass rules and bucket keys (`chat.go`, `cache.go`, `types.go`) | `Floats` |
| `Exchange` | one HTTP exchange: startup, routes, middleware, recorder, relay | `Config`, `Inspection`, `Policy` |
| `Replay` | `bench/replay.go` | `Policy` |
| `CacheStoreProofs`, `CacheRecencyProofs`, `LabelerProofs` | theorems about the store and the labeler | the modules they are about |
| `GatewayProofs` | theorems about the gateway | `Gateway`, the proofs of its parts |
| `GatewayCompositionProofs` | theorems about the process and about the budgets | `Lifecycle`, `GatewaySpend`, `GatewayProofs` |
| `PolicyProofs` | the decision rule, and what folds over a sequence do | `Policy` |
| `ExchangeProofs`, `ReplayProofs` | theorems about an exchange and a replay | their modules, `PolicyProofs` |
| `MC*` | instances for TLC | |

**Store.** `lru[sh]` is the shard's `container/list`, `entries` the union of the
`buckets` maps (an entry is found under its ID in the map of its own bucket:
`Live`), `counter[sh]` the ID sequence. Each operation holds the shard's mutex
from start to end, so each is one action. `Nearest` may return any of the entries
that tie, because Go ranges over a map in random order; the reservoir's random
index is a nondeterministic choice. Vectors are abstract, with their
normalisation, dimension and inner product as constants.

**Labeler.** `queue` is the channel's buffer; a worker is receiving, judging, in
the callback, or gone. A `Submit` on a closed channel panics. `Receive` of a
closed channel delivers what is still buffered, and only then ends the loop.

**Gateway.** One program counter per request, with a step between any two points
where another goroutine could matter. `found[r]` is the match the closure
captured. The two store calls of `OnResult` are two actions of the worker
(`CallbackObserves`, `CallbackInserts`). A stored response is named by the request
that produced it, so that "who taught whom" can be stated. Lookup and decision
are one action, since `Decide` works on the snapshot alone; above the cold-start
floor `NMin` it may go either way. Token counts become a cost per call in the
price table, looked up as the code does (embeddings under the chat model).
`ImplementsVerifiedCache` maps this state to `VerifiedCache`: `planted` are the
requests whose answers were ever inserted, `verdicts` the labels that `OnResult` has
taken to the store. A label the store can no longer apply, because its entry was
evicted, still is a verdict: the promise says how many verdicts a served answer had,
not where they are kept.

**GatewaySpend.** Nothing depends on the gauge, so its two steps (`ReadRemaining`
under the tracker's lock, `SetGauge` without it) are added around the handler's: a
handler that has billed makes them before its next step.

**Policy.** A fit is usable or not, and gives for each level of the grid a bound
`alpha`, a fraction that respects `alpha < 1 - eps`, or NaN; any fit may arise from
any labels. `tauHat`, the clamp and the coin are computed exactly. The explicit
`IsNaN` test of `Decide` is there but never decides: a minimum that starts at +Inf
is never NaN, so a NaN `tau` ends as 1 and is explored anyway.

**Config and Inspection.** A variable's text is what it parses to. A body is what is
on the wire; `Decoded` says what `json.Unmarshal` leaves behind after a value of the
wrong type, whose error the code ignores. Keys are the bytes that are hashed.

**Exchange.** `w` is the recorder and the `ResponseWriter` below it: `logged` and
`wrote` are the recorder's fields, `status` the committed header, `pend` what is
buffered and `body` what the client has. The handler's reads, writes and flushes are
separate steps; the client may leave, net/http's buffer may drain and a panic may
occur between any two of them. A lookup is left open here (`Gateway` has the store)
but a hit needs a decision that the loaded settings allow, and a backend whose calls
can return in time, or nothing could have been inserted. `from` is the status the
backend answered with; the mux's own 404 and 405 are answers like any other.

**Replay.** One record per step. The scan's goroutines only read the list and write
to slots of their own, so a scan is one operator of the list and the workers'
ranges. The draw of the seeded RNG is any coin.

**Lifecycle.** The gateway's steps go on while `main` drains, times out and
closes; after a clean drain there are no connections and no arrivals; after a
timeout or a listener failure handlers and even new requests on accepted
connections go on until the process exits. A handler that has answered may only have
filled net/http's buffer: `sent` are the requests whose response has ended
(`ResponseEnds`, after the handler has returned or panicked). `Shutdown` waits for
these; an exit without it may cut off an answer between the two.

## Runs

| run | instance | what it shows |
|---|---|---|
| `store` | 2 shards of capacity 2, 3 buckets (two share a shard), 4 vectors that tie, scale or cannot be compared, 3 inserts per shard (1 in the second), 2 labels per entry, cap 1 | structure, LRU order, reservoir, and refinement of the contract |
| `labeler` | 4 jobs, queue 2, 2 workers | conservation, draining Close, liveness |
| `gateway` | 4 cacheable requests and one malformed, two buckets in one shard of capacity 2, queue 1, 2 workers, floor 1 | labels, inserts, hits, handlers return |
| `spend` | 6 requests: three cacheable, and one each malformed, unauthorised and bypassed; ceiling 3, cost 3 or 1 | embeddings and calls that are learned from are billed once (what is passed through or bypassed never is), the soft ceiling, the gauge |
| `lifecycle` | 3 cacheable requests and one unauthorised, queue 2, 1 worker | what a clean and a dirty shutdown keep, in every order, and that the process ends |
| `replay` | 5 records of 2 labels and 3 vectors (one cannot be compared), capacity 3, window 2, floor 1, both arms | scan, list, windows, score |
| `exchange` | each setting at its limits, some 60 bodies, 5 kinds of route, right and wrong methods; statuses 200, 503 and 99; 2 chunks | what the client gets and when; what settings and keys are worth |
| `cold_inserts`, `embedding_cost`, `submit_after_close`, `panic_in_write_header`, `key_claim` | | a documented claim that the code breaks, see below |

The bounds, and why they are enough:
`MaxID` (inserts per shard) exceeds the capacity by one, so an eviction happens
with every order of use before it; `MaxSeen` passes the observation cap by one, so
sampling replaces; `MaxOther` bounds the second shard, which is only there to be
left alone. Four jobs exceed a queue of two and one job in a worker, so jobs are dropped and overtake each
other. In `gateway` three requests of a bucket are the least that give a cold
insert, a label and a hit, and the fourth evicts the entry in between; a queue of
one drops the second label. In `spend` the ceiling equals one request's cost, so
both the boundary of `>=` and a concurrent overshoot occur. In `lifecycle` two
labels can be waiting or at work when the signal comes. In `Gateway` and
`Lifecycle` every request arrives at most once, so `MaxID`, one insert per
request, never blocks anything. In `replay` five records fill a list of three and
evict from it, with a label due to an entry the eviction shifts, and fill and slide
a window of two; the scan is checked for every number of workers up to two more than
there are entries. In `exchange` two chunks are the least that a break or a panic can
fall between; the settings are varied one at a time, with floor, cap and delta
together, and bodies under the default settings, since the parts meet only in the
decisions that are checked. `Faces` (16) must tell the default delta's coin from
certainty, and not that of a delta of 1/1000; `MaxChunks`, `MaxRecords` are bounds of the model only. `CHECK_DEADLOCK FALSE` is set
where the system really stops: all requests answered, all jobs labelled, process
ended (in `store`: all IDs of the bound used).

Fairness. `LabelerFairness`: workers are goroutines, and judge calls return,
which is true of the exact-match judge the program configures (there is no
deadline in the code). `GatewayFairness`: a handler that began keeps running; its
backend call is bounded by `BackendTimeout`, its embedder call only by the
client's patience, which is assumed to end. No fairness of workers or judge is
assumed there: that handlers return *without* it is the point.
`ExchangeFairness`: the handler's goroutine runs on, and its reads return, which
`BackendTimeout` ensures for the backend; for the client it is assumed that it sends
its request's body to the end or leaves, and that it reads or leaves, since the server
sets a timeout for the request's header alone. `SpendFairness`: as
`GatewayFairness`, over the gauge's steps too. `LifecycleFairness`: Shutdown's deadline expires, `main` runs, workers and judge
as above; handlers need not finish.

## Where code and documentation disagree

* `ColdEntriesAreFirst`: two concurrent cold misses both insert "the bucket's first
  entry", unguarded. No wrong answer can result, only a duplicate.
* `EmbeddingIsBilled`: the embedding's price is looked up under the chat model,
  which has none in the committed table, so "charged on every cacheable request"
  never happens.
* `NoSubmitAfterClose`: when `Shutdown` times out or the listener fails, the
  deferred `gw.Close` runs under live handlers, which then panic in `Submit`, against
  "nothing submits to a closed queue". `AnyShutdownKeepsAccepted` says what such a
  shutdown still keeps: every label that was accepted. What a panicking handler had to
  teach is lost, and an answer that is being fetched or buffered when the process ends
  is cut off.
* `PanicBeforeResponseIs500`: `responseRecorder.WriteHeader` notes the status before
  it passes it on. A backend status below 100 makes net/http panic there, with
  nothing sent; `recoverMiddleware` believes the response has begun and writes no
  500, and net/http ends it as an empty 200.
* `DifferentNeverMatch`: DECISIONS.md:121-125 says that requests that differ in model,
  system prompt, temperature, top_p or prior messages "can never match". The key holds
  sampling settings to four decimals, a mistyped one as 0 (the decoder's error is
  dropped), and of a prior turn only its role and text, so some of them do.
  `KeyTellsItsParts` says what the key does tell apart.

Seen on the way, and not checked by a run of their own: `Load` accepts a delta, a
temperature ceiling or a budget that is NaN, which turns the cache, the temperature
bypass or the budgets off. `CacheIsOff` lists the settings that load and turn the cache
off for good without a word: no embedder, a backend timeout of zero or less, a floor
above the observation cap, a delta that is NaN or too small for the coin. Each shard
has room for at least one entry (memory.go:56), so with fewer entries of capacity than
shards the store exceeds "the max number of cache entries" of config.go:63. A relay
that is cut ends like a complete response. `RemainingCents` returns 0, not the +Inf of
its comment, when budgets are off; its one caller asks first.

## What is proved

Every safety property of the passing runs (30 invariants, of which each of the
theorems below names its own) and both refinements are theorems of their
specifications. They hold for every value of the constants that satisfies the named
assumptions, which say no more than the code has:

* `StoreAssumption`, `LabelerAssumption`, `BudgetAssumption`, `PolicyAssumption`,
  `ReplayAssumption`: sizes are integers, functions are functions, a grid and a coin
  are not empty; sizes the code clamps or tests may be zero or negative.
* `GatewayAssumption`: finitely many requests and models, prices in whole cents that
  are not negative, and the constants of the parts are the gateway's (a job is a
  request with its neighbor, a response is the request that produced it).
* `ExchangeAssumption`: statuses are numbers, at least one chunk can come, a
  setting's text parses to a number of its kind or not at all, and bodies have the
  types of `types.go`.

A request to the gateway is made once, as in the model; their number is not bounded.

**Store** (`CacheStoreProofs`). `StoreInv` is inductive. It is the four checked
invariants plus `OnlyIssuedIDs`, that the IDs in use were issued: without it an
Insert could not be shown to use a fresh ID, and a list with a repeated ID would
break MoveToFront. Type correctness, `IndexMatchesLRU`, `WithinCapacity` and
`ReservoirCount` follow.

**Refinement and recency** (`CacheRecencyProofs`). From `StoreInv`, each step of the
store is a step or a stutter of `StoreContract`, and `HoldsMostRecentlyUsed` is
inductive relative to it.

**Labeler** (`LabelerProofs`). An inductive invariant that adds to the checked ones
that a worker has only ended when the queue was closed and empty; hence type
correctness, `JobConservation` and `CloseDrains`.

**Gateway** (`GatewayProofs`). `GatewayInv` is the two invariants above, and what
ties them to the handlers. `MatchesInv` is the heart: what a lookup returned, however
long ago, names an ID that was issued, an answer that was planted (`Planted`, the
answers ever inserted) in the request's own bucket, and an entry that is either gone
or still the one that was found. It needs `OnlyIssuedIDs` and that no ID is issued
twice. `JobsInv` says that a job belongs to a request that has ended, `VerdictsInv`
that a positive verdict is a true one on its whole way to the store. From these,
`LabelsReachTheirEntry` and `InsertsAreGuarded` (which is stated shard by shard, as
the counters are) are inductive together, and `HitsAreEarned` follows from
`LabelsReachTheirEntry`: an entry's counter, compared with `NMin`, is the number of
labels that really arrived. Every step of the handlers and workers is then shown to
answer, judge or plant as `VerifiedCache` allows, or to be none of it
(`GatewayRefinesPromise`).

**Process** (`GatewayCompositionProofs`). `LifecycleInv` adds to `GatewayInv` that a
compared request that has ended handed its comparison over, that a clean exit leaves
no response in flight and that only a handler overtaken by a dirty one can panic. With
`CloseDrains` this gives `CleanShutdownLosesNothing` and the first half of
`AnyShutdownKeepsAccepted`; the second follows from the gateway's own invariants, since
a comparison the labeler refused has offered no label and planted no entry
(`RefusedTeachesNothing`). A step of the process is a step of the gateway,
one of main alone or one that closes the labeler, and `VerifiedCache` sees neither of
the last two: the promise holds to the end of the process (`LifecycleKeepsPromise`).

**Budgets** (same module). `SpendIsExact` compares the tracker with a sum over the
key's requests, so the proof begins with what such a sum is: the library defines it
by CHOOSE of a fold, which is shown to exist and to be unique by induction over
subsets, and to change by what one summand changes. `OverspendBounded` is not
inductive: while a request runs, what it will bill is missing from it. `CeilingInv`
adds that debt: spend plus what the key's requests may still bill is at most
`Ceiling - 1 + peak * MaxCost`. A request is admitted only under the ceiling, when
`peak` requests at most, itself included, can still bill. For the gauge, `GaugeInv`
says that a reading is at least what remains from when it is taken, and `ExactInv`
that it is exact for a key whose requests came one at a time. Nothing depends on the
gauge (`BesideTheGauge`), so here too the promise holds (`SpendKeepsPromise`).

**Exchange** (`ExchangeProofs`). `ExchangeInv` follows the relay: `Written`, what the
client has with what is still buffered, is at each step the first `up` chunks, or the
chunks but for the one in hand, under the status in `from` where that is one
net/http accepts; or, as long as the backend has not answered, one message of the
gateway's own. It also says that the recorder's status is the committed one
except between the two halves of a panicking WriteHeader. `RelayIsFaithful`,
`StreamIsTimely` and `LoggedStatusIsSent` follow.

**Error budget** (`PolicyProofs`, used in `ExchangeProofs`). The fold in `TauHat`
finds a least of the taus that are numbers. A coin that serves is above it, so above
one tau of the grid; of `Faces` equally likely faces at most `Faces * (1 - tau)` are,
and `1 - tau` is `delta / (1 - alpha)`: serving and being wrong together are within
`delta` (`ServedWithinDelta`, and `ServeErrorWithinDelta` for what `Load` accepts).
`CacheCanServe` needs both directions of `Resolves`: a band that reaches as far as it
asks lets a face of the coin serve, and a face that serves shows such a bound
(`ServesWhatItResolves`), whatever the delta; that a hit was decided by the loaded
settings is part of the inductive `LoadedInv`.

**Bucket keys** (`ExchangeProofs`). Pieces joined without a mark between them can be
told apart when none is empty and the first element of each tells its length
(`FlattenTellsPieces`, by induction over the pieces from the front). The parts
behind their lengths are such pieces, and so are the pairs of the prior turns;
`KeyTellsItsParts` applies it twice, for texts of any length.

**Replay** (`ReplayProofs`). The parallel scan is the serial one because each range's
result is the first of the most similar entries of that range, which joining two
adjacent ranges keeps (`MergeBest`). The list and each entry's window are both "the
newest of what was given, at most so many" (`IsNewest`), which appending and dropping
the oldest keeps, whatever evictions shift the list in between; `ServedWereTested`
needs from it that an entry is served only with `NMin` observations in its window,
and that the window holds only distinct explores compared with it: that many tests
precede. The four invariants are inductive together.

Only model-checked: the liveness properties (`EveryHandlerReturns`,
`EveryAcceptedJobLabelled`, `CloseTerminates`, `ShutdownTerminates`, `ExchangeEnds`),
because fairness and ENABLED are beyond the prover; and the five disagreements, which
are counterexamples.

## What is not modelled, and why

* Headers, log texts, the metrics other than the budget gauge, and the wording of
  errors: no control flow depends on them.
* The logistic fit and the confidence band: floating-point numerics, abstract in
  `Policy`. Rounding errors of the decision rule are left out.
* The bench's flags, files, confidence intervals and go/no-go gate: I/O and
  statistics; whether a run stays within its delta depends on the data.
* The embedder's protocol and the extraction of usage and text from a response: a
  call returns a vector or fails, an answer has a cost and a text.
* An informational (1xx) status and a body with a status that forbids one.
* Parsing of HTTP and of JSON texts, reading the environment: I/O.
* An entry-ID counter that wraps (2^64 inserts), and vectors that contain NaN.

## Plan

1. Done: the modules above, their runs, and the proofs of all checked safety
   properties and of both refinements.
2. The steps that the liveness arguments rest on and that are safety: that a handler's
   program counter only moves forward, that an accepted job only moves on, and that
   each step of a shutdown or an exchange uses up a bounded measure.
