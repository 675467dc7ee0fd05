------------------------------- MODULE Exchange -------------------------------
(***************************************************************************)
(* One exchange over HTTP: the process loads its configuration, a request  *)
(* passes the middleware and its body is inspected, and the answer goes to *)
(* the client, from the cache, buffered, or relayed as it arrives.         *)
(*                                                                         *)
(* What net/http does with the writes is modelled as far as the handler    *)
(* relies on it: a write commits the header and is buffered until a flush, *)
(* a full buffer or the handler's return, and when the handler returns the *)
(* response is ended as a complete one.  The store's side of an exchange   *)
(* is in Gateway; here a lookup may find any neighbor.                     *)
(***************************************************************************)
EXTENDS Config, Inspection, Policy

CONSTANTS
  Cases,     \* the environments and the requests to try
  Statuses,  \* what the backend may answer with
  MaxChunks  \* pieces of an upstream body (a bound: in the code the deadline ends it)

ASSUME ExchangeAssumption ==
  /\ Statuses \subseteq Nat /\ MaxChunks \in Nat \ {0}
  /\ \A c \in Cases : IsBody(c.body) /\ \A s \in Settings : IsSetting(s, Getenv(c.env, s))

VARIABLES
  case,      \* the case that is tried; case.body is what the client sent
  step,
  w,         \* the writer: logged and wrote are the responseRecorder's fields,
             \* status the committed header, pend the buffer, body what was delivered
  streaming, \* whether the relay flushes after each write
  chunk,     \* what the relay has read but not written, and how that read ended
  up,        \* how many chunks of the upstream body were read
  from,      \* the status the backend answered with, NoAnswer before
  client,    \* "here", or "gone" once it has disconnected
  panicked,  \* "no", or whether the response had begun ("late") or not ("early")
  log        \* the status in the access log, Unlogged before

relayVars    == <<streaming, chunk, up, from>>
exchangeVars == <<case, step, w, relayVars, client, panicked, log>>

Unlogged == -1
NoAnswer == -1

\* What a response body can be made of, beside the chunks 1, 2, ...
Envelope == 0
Cached   == -1
Page     == -2

EndsOfRead == {"more", "eof", "cut"}
Upstream   == [i \in 1 .. up |-> i]

ExchangeInit ==
  /\ case \in Cases
  /\ step = "start"
  /\ w = [logged |-> 0, wrote |-> FALSE, status |-> 0, pend |-> << >>, body |-> << >>]
  /\ streaming = FALSE /\ chunk = [data |-> << >>, end |-> "more"] /\ up = 0 /\ from = NoAnswer
  /\ client = "here" /\ panicked = "no" /\ log = Unlogged

-----------------------------------------------------------------------------
\* The responseRecorder and the writer below it.  A status below 100 makes the
\* writer below panic, after the recorder has taken it down.
Valid(status) == status >= 100

WriteHeader(x, status) ==
  LET noted == IF x.wrote THEN x ELSE [x EXCEPT !.logged = status, !.wrote = TRUE]
  IN  IF x.status = 0 /\ Valid(status) THEN [noted EXCEPT !.status = status] ELSE noted

Implied(x) == [x EXCEPT !.status = IF @ = 0 THEN 200 ELSE @]

\* Mutant: the recorder does not see the 200 that a plain Write implies.
BugWrite(x, data) == [Implied(x) EXCEPT !.pend = @ \o data]

Write(x, data) == [Implied(IF x.wrote THEN x ELSE WriteHeader(x, 200)) EXCEPT !.pend = @ \o data]

WriteError(x, status) == Write(WriteHeader(x, status), <<Envelope>>)

Delivered(x) == [x EXCEPT !.pend = << >>, !.body = IF client = "here" THEN @ \o x.pend ELSE @]

\* Mutant: without Unwrap the controller finds no Flush.
BugFlush(x) == x

\* The controller reaches the writer below through Unwrap.
Flush(x) == Delivered(Implied(x))

Answered(x) == w' = x /\ step' = "return"

\* A panic in a handler, with the writer left as x.
PanicWith(x) ==
  /\ w' = x /\ step' = "recover"
  /\ panicked' = IF x.status = 0 THEN "early" ELSE "late"

-----------------------------------------------------------------------------
\* A configuration that does not load ends the process.
LoadConfig ==
  /\ step = "start"
  /\ step' = IF Loads(case.env) THEN "arrive" ELSE "exit"
  /\ UNCHANGED <<case, w, relayVars, client, panicked, log>>

cfg  == Load(case.env)
keys == ParseKeys(case.env.keys)

Authorised == keys = << >> \/ case.token \in Range(keys)
OverBudget == Less(Zero, cfg.BUDGET_CENTS) /\ case.overspent

\* The mux: all of /v1 is behind the auth and then the budget middleware, the other
\* routes are open.  A known path has one method.
Guarded == case.route \in {"chat", "other v1"}
Passed  == ~Guarded \/ (Authorised /\ ~OverBudget)
Known   == case.route \in {"chat", "healthz", "metrics"}

\* The mux's own answers, and the health handler's; only the metrics handler writes
\* without a WriteHeader.
WritePage(status) == Answered(Write(WriteHeader(w, status), <<Page>>))

Dispatch ==
  /\ step = "arrive"
  /\ \/ Guarded /\ ~Authorised /\ Answered(WriteError(w, 401))
     \/ Guarded /\ Authorised /\ OverBudget /\ Answered(WriteError(w, 429))
     \/ Passed /\ ~Known /\ WritePage(404)
     \/ Passed /\ Known /\ case.method = "wrong" /\ WritePage(405)
     \/ case.route = "healthz" /\ case.method = "right" /\ WritePage(200)
     \/ case.route = "metrics" /\ case.method = "right" /\ Answered(Write(w, <<Page>>))
     \/ case.route = "chat" /\ case.method = "right" /\ Passed /\ step' = "inspect" /\ w' = w
  /\ UNCHANGED <<case, relayVars, client, panicked, log>>

\* The body is read and inspected; without an embedder nothing is cached.
Inspect ==
  /\ step = "inspect"
  /\ IF case.arrives # "valid" THEN Answered(WriteError(w, 400))
     ELSE /\ step' = IF case.env.embedder /\ ~Bypassed(case.body, cfg.TEMPERATURE_CEILING) THEN "embed" ELSE "call"
          /\ w' = w
  /\ UNCHANGED <<case, relayVars, client, panicked, log>>

\* An embedding that fails makes the request a passthrough.
Embed ==
  /\ step = "embed"
  /\ step' \in {"lookup", "call"}
  /\ UNCHANGED <<case, w, relayVars, client, panicked, log>>

\* A context made with a timeout that is not positive has expired already: no call of
\* the backend succeeds.
InTime == Less(Zero, cfg.BACKEND_TIMEOUT)

\* No neighbor, or one with any number of labels up to the cap; what is stored was
\* once fetched.
Lookup ==
  /\ step = "lookup"
  /\ \/ step' = "fetch"
     \/ InTime /\ MayServe(cfg.DELTA, cfg.NMIN[1], cfg.MAX_OBSERVATIONS[1]) /\ step' = "hit"
  /\ UNCHANGED <<case, w, relayVars, client, panicked, log>>

ServeHit ==
  /\ step = "hit"
  /\ Answered(Write(WriteHeader(w, 200), <<Cached>>))
  /\ UNCHANGED <<case, relayVars, client, panicked, log>>

\* Mutant: the handler returns without writing the error.
BugCallFails ==
  /\ step \in {"call", "fetch"}
  /\ Answered(w)
  /\ UNCHANGED <<case, relayVars, client, panicked, log>>

\* The backend cannot be reached, the deadline expires, or (fetch) the body is cut; a
\* passthrough tells a request that cannot be built from these.
CallFails ==
  /\ \/ step \in {"call", "fetch"} /\ Answered(WriteError(w, 502))
     \/ step = "call" /\ Answered(WriteError(w, 500))
  /\ UNCHANGED <<case, relayVars, client, panicked, log>>

\* fetchUpstreamBuffered and writeBuffered; what is learned comes after the write.
FetchReturns ==
  /\ step = "fetch" /\ InTime
  /\ \E status \in Statuses, n \in 0 .. 1 :
        /\ up' = n /\ from' = status
        /\ IF Valid(status)
           THEN /\ w' = Write(WriteHeader(w, status), [i \in 1 .. n |-> i])
                /\ step' = "learn" /\ UNCHANGED panicked
           ELSE PanicWith(WriteHeader(w, status))
  /\ chunk' = [data |-> << >>, end |-> "eof"]
  /\ UNCHANGED <<case, streaming, client, log>>

\* Billing, insertion or submission (Gateway): nothing more for the client.
Learn ==
  /\ step = "learn"
  /\ step' = "return"
  /\ UNCHANGED <<case, w, relayVars, client, panicked, log>>

-----------------------------------------------------------------------------
\* Mutant: the stream is opened before the backend's status is passed on.
BugCallReturns ==
  /\ step = "call" /\ InTime
  /\ \E status \in Statuses, eventStream \in BOOLEAN :
        /\ from' = status
        /\ streaming' = (Streams(case.body) \/ eventStream)
        /\ IF Valid(status)
           THEN /\ w' = IF streaming' THEN WriteHeader(Flush(w), status) ELSE WriteHeader(w, status)
                /\ step' = "relay" /\ UNCHANGED panicked
           ELSE PanicWith(WriteHeader(w, status))
  /\ UNCHANGED <<case, chunk, up, client, log>>

\* proxyPassthrough up to the relay.  A streaming relay begins with a Flush, which
\* tells whether flushing is supported and sends the header.
CallReturns ==
  /\ step = "call" /\ InTime
  /\ \E status \in Statuses, eventStream \in BOOLEAN :
        /\ from' = status
        /\ streaming' = (Streams(case.body) \/ eventStream)
        /\ IF Valid(status)
           THEN /\ w' = IF streaming' THEN Flush(WriteHeader(w, status)) ELSE WriteHeader(w, status)
                /\ step' = "relay" /\ UNCHANGED panicked
           ELSE PanicWith(WriteHeader(w, status))
  /\ UNCHANGED <<case, chunk, up, client, log>>

\* A Read may return data and the end of the body together; it is cut when the
\* backend breaks off, the deadline expires or the client has gone.
Read ==
  /\ step = "relay"
  /\ \E n \in 0 .. 1, end \in EndsOfRead :
        /\ up + n <= MaxChunks /\ (n = 0 => end # "more")
        /\ chunk' = [data |-> [i \in 1 .. n |-> up + 1], end |-> end]
        /\ up' = up + n
        /\ step' = "write"
  /\ UNCHANGED <<case, w, streaming, from, client, panicked, log>>

\* Mutant: the end of the body is looked at before its data.
BugWriteChunk ==
  /\ step = "write"
  /\ w' = IF chunk.end # "more" THEN w ELSE Write(w, chunk.data)
  /\ step' = "flush"
  /\ UNCHANGED <<case, relayVars, client, panicked, log>>

WriteChunk ==
  /\ step = "write"
  /\ w' = IF chunk.data = << >> THEN w ELSE Write(w, chunk.data)
  /\ step' = "flush"
  /\ UNCHANGED <<case, relayVars, client, panicked, log>>

\* The write fails, as it may once the client has gone.
WriteFails ==
  /\ step = "write" /\ chunk.data # << >> /\ client = "gone"
  /\ step' = "return"
  /\ UNCHANGED <<case, w, relayVars, client, panicked, log>>

\* Mutant: only a regular end of the body ends the loop.
BugGoOn(end) == end # "eof"

GoOn(end) == end = "more"

FlushChunk ==
  /\ step = "flush"
  /\ w' = IF streaming /\ chunk.data # << >> THEN Flush(w) ELSE w
  /\ step' = IF GoOn(chunk.end) THEN "relay" ELSE "return"
  /\ UNCHANGED <<case, relayVars, client, panicked, log>>

-----------------------------------------------------------------------------
\* The access log has a line for each handler that returns; one that panics has none.
AccessLog ==
  /\ step = "return"
  /\ log' = w.logged
  /\ step' = "finish"
  /\ UNCHANGED <<case, w, relayVars, client, panicked>>

\* Mutant: the error is written whatever was written before.
BugRecover ==
  /\ step = "recover"
  /\ w' = WriteError(w, 500)
  /\ step' = "finish"
  /\ UNCHANGED <<case, relayVars, client, panicked, log>>

Recover ==
  /\ step = "recover"
  /\ w' = IF w.wrote THEN w ELSE WriteError(w, 500)
  /\ step' = "finish"
  /\ UNCHANGED <<case, relayVars, client, panicked, log>>

\* net/http ends the response, as a 200 if nothing was written.
Finish ==
  /\ step = "finish"
  /\ w' = Delivered(Implied(w))
  /\ step' = "ended"
  /\ UNCHANGED <<case, relayVars, client, panicked, log>>

\* net/http's buffer is full.
BufferSpills ==
  /\ w.pend # << >>
  /\ w' = Delivered(w)
  /\ UNCHANGED <<case, step, relayVars, client, panicked, log>>

ClientLeaves ==
  /\ client = "here" /\ step \notin {"start", "exit", "ended"}
  /\ client' = "gone"
  /\ UNCHANGED <<case, step, w, relayVars, panicked, log>>

\* A handler panics, as SubmitForLabel may in Gateway.
HandlerPanics ==
  /\ step \in {"embed", "lookup", "hit", "fetch", "learn", "call", "relay", "write", "flush"}
  /\ PanicWith(w)
  /\ UNCHANGED <<case, relayVars, client, log>>

Serve ==
  \/ LoadConfig \/ Dispatch \/ Inspect \/ Embed \/ Lookup
  \/ ServeHit \/ CallFails \/ FetchReturns \/ Learn
  \/ CallReturns \/ Read \/ WriteChunk \/ WriteFails \/ FlushChunk
  \/ AccessLog \/ Recover \/ Finish

ExchangeNext == Serve \/ BufferSpills \/ ClientLeaves \/ HandlerPanics

\* The handler's goroutine runs on: the backend has its deadline, the embedder and a
\* slow reader the client's patience.
ExchangeFairness == WF_exchangeVars(Serve)

ExchangeSpec == ExchangeInit /\ [][ExchangeNext]_exchangeVars /\ ExchangeFairness

-----------------------------------------------------------------------------
\* Type correctness, and that a handler that returns has answered.
ExchangeTypeOK ==
  /\ case \in Cases
  /\ w.logged \in {0, 200, 400, 401, 404, 405, 429, 500, 502} \cup Statuses
  /\ w.status \in {0, 200, 400, 401, 404, 405, 429, 500, 502} \cup {s \in Statuses : Valid(s)}
  /\ from \in Statuses \cup {NoAnswer}
  /\ chunk.end \in EndsOfRead /\ up \in 0 .. MaxChunks
  /\ log # Unlogged => panicked = "no" /\ w.wrote

\* What a client that stays receives if nothing more is written.
Written == IF client = "here" THEN w.body \o w.pend ELSE w.body

\* Once the backend has answered, what the client has received is at every moment a
\* prefix of the backend's body under the backend's own status, and until then at most
\* one message of the gateway's own: an error envelope is never written behind the
\* beginning of an answer, whatever panics.  A body that was read to its end is
\* received to its end by a client that waits for it (proxyPassthrough, relayStream,
\* writeBuffered, recoverMiddleware).  What a status makes of the writer that it cannot
\* send is PanicBeforeResponseIs500's matter.
RelayIsFaithful ==
  /\ IF from = NoAnswer
     THEN Len(Written) <= 1 /\ up = 0
     ELSE IsPrefix(Written, Upstream) /\ (Valid(from) => w.status = from)
  /\ step = "ended" /\ client = "here" /\ panicked = "no" /\ chunk.end = "eof" => w.body = Upstream

\* While the relay waits for the next chunk of a stream, the client has every chunk
\* before it: the flush reaches the connection through the recorder (relayStream,
\* Unwrap).
StreamIsTimely ==
  step = "relay" /\ streaming => w.status # 0 /\ (client = "here" => w.body = Upstream)

\* The status in the access log is the one that was sent, on every path through the
\* handlers and the mux (responseRecorder).
LoggedStatusIsSent == step = "ended" /\ log # Unlogged => log = w.status

\* However the backend, the client or a panic breaks it off, an exchange ends
\* (relayStream's loop, recoverMiddleware).
ExchangeEnds == <>(step \in {"exit", "ended"})

\* For every configuration that loads, what is served from the cache is within its
\* error budget: for some confidence level, the chance of serving times the chance
\* of being wrong is at most delta; a delta that is not a number never serves
\* (Load, Decide, tauHat).
ServeErrorWithinDelta ==
  step = "arrive" =>
     \A n \in {cfg.NMIN[1] - 1, cfg.NMIN[1], cfg.MAX_OBSERVATIONS[1]}, fit \in Fits(1) :
        LET served == {u \in Coins : ~Decide(cfg.DELTA, cfg.NMIN[1], n, fit, u).explore}
        IN  served # {} =>
               \E k \in Grid : AtMost(<<Cardinality(served) * (Scale - fit.alpha[k][1]), Faces * Scale>>, cfg.DELTA)

\* Settings that load and yet turn the cache off for good, which nothing reports: no
\* embedder, a backend whose every call is late, a floor above the cap on observations,
\* a delta that is not a number, or one so small that no face of the coin serves.
CacheIsOff ==
  \/ ~case.env.embedder \/ ~InTime
  \/ cfg.NMIN[1] > cfg.MAX_OBSERVATIONS[1]
  \/ cfg.DELTA = NaN \/ ~Resolves(cfg.DELTA)

\* With one of them nothing is ever served from the cache, and they are all that Decide
\* can meet: without, it serves an entry that is full of labels for some fit and some
\* coin.  Whether such an entry comes about is left open: it takes answers, labels that
\* lead to such a fit and budgets that last (Load, handleChatCompletions, Decide).
CacheCanServe ==
  /\ step = "hit" => ~CacheIsOff
  /\ step = "arrive" /\ ~CacheIsOff => MayServe(cfg.DELTA, cfg.NMIN[1], cfg.MAX_OBSERVATIONS[1])

\* No boundary between two parts of a bucket key can be shifted: equal keys are of equal
\* models, of equal roles and texts turn by turn, and of settings that are equal as
\* decoded and to four decimals.  Requests that share a key may still differ in what
\* the parts leave out, see DifferentNeverMatch (bucketKeyForRequest, BucketKey).
KeyTellsItsParts ==
  step = "embed" =>
     \A other \in {c.body : c \in Cases} :
        BucketKeyForRequest(other) = BucketKeyForRequest(case.body) =>
           /\ other.model = case.body.model
           /\ PriorTurns(other.messages) = PriorTurns(case.body.messages)
           /\ FloatPtrString(Decoded(other.temperature)) = FloatPtrString(Decoded(case.body.temperature))
           /\ FloatPtrString(Decoded(other.topP)) = FloatPtrString(Decoded(case.body.topP))

\* What DECISIONS.md says of the bucket key: of model, system prompt, temperature, top_p
\* and prior messages, "two requests that differ in any of these can never match".
DifferentNeverMatch ==
  step = "embed" =>
     \A other \in {c.body : c \in Cases} :
        ~Bypassed(other, cfg.TEMPERATURE_CEILING) /\ BucketKeyForRequest(other) = BucketKeyForRequest(case.body) =>
           /\ other.model = case.body.model
           /\ other.temperature = case.body.temperature /\ other.topP = case.body.topP
           /\ Front(other.messages) = Front(case.body.messages)

\* What recoverMiddleware's comment says: "if the response has not started", a panic
\* is answered with a 500.
PanicBeforeResponseIs500 ==
  step = "ended" /\ panicked = "early" => w.status = 500
=============================================================================
