----------------------- MODULE GatewayCompositionProofs -----------------------
(***************************************************************************)
(* The two compositions around the gateway.  How the process ends: what a  *)
(* clean shutdown keeps and what a dirty one costs, whatever the handlers  *)
(* and the workers were doing when it began.  And the budgets: what a key  *)
(* is billed, by how much it may exceed its ceiling and what its gauge     *)
(* shows, for every price table and every number of concurrent requests.   *)
(***************************************************************************)
EXTENDS Lifecycle, GatewaySpend, GatewayProofs, WellFoundedInduction

\* A request that was compared and has ended had its comparison handed over.
HandedOver ==
  \A r \in Requests : pc[r] = "done" /\ reply[r] = "miss" /\ found[r] # NoMatch => outcome[JobOf(r)] # "new"

\* A shutdown is clean only when no response is outstanding, and only a handler that a
\* dirty one has overtaken can panic.
ExitInv ==
  /\ main = "exited" => closing = "closed"
  /\ exit = "clean" => InFlight = {}
  /\ \A j \in Jobs : outcome[j] = "panicked" => exit \in {"timeout", "failed"}

LifecycleInv == GatewayInv /\ LifecycleTypeOK /\ HandedOver /\ ExitInv

-----------------------------------------------------------------------------
\* What a request's step does to its own state and to the labeler's.
LEMMA RequestStepFacts ==
  ASSUME GatewayInv, NEW r \in Requests, Arrive(r) \/ Handle(r)
  PROVE  /\ UNCHANGED <<closing, labels>>
         /\ pc[r] # "done" /\ (Handle(r) => pc[r] # "new")
         /\ \A j \in Jobs : outcome[j] # "new" => outcome'[j] = outcome[j]
         /\ \A j \in Jobs : outcome'[j] = "panicked" => outcome[j] = "panicked" \/ (closing # "open" /\ Handle(r))
         /\ pc'[r] = "done" /\ reply'[r] = "miss" /\ found'[r] # NoMatch => outcome'[JobOf(r)'] # "new"
<1>1. /\ pc \in [Requests -> Steps] /\ reply \in [Requests -> Replies] /\ found \in [Requests -> Matches]
      /\ outcome \in [Jobs -> {"new", "accepted", "dropped", "panicked"}]
      /\ JobOf(r) \in Jobs
  BY JobFacts DEF GatewayInv, GatewayTypeOK, LabelerInv, LabelerTypeOK
<1>2. CASE Arrive(r)
  <2>1. /\ UNCHANGED <<closing, labels, outcome, found>> /\ pc[r] = "new"
        /\ reply'[r] # "miss"
    <3>1. CASE Reject(r)
      <4>1. Screen(r) # "miss"
        BY DEF Screen
      <4> QED
        BY <1>1, <3>1, <4>1 DEF Reject, Answer, Goto, labelerVars
    <3>2. CASE Admit(r)
      BY <1>1, <3>2 DEF Admit, Goto, labelerVars, GatewayInv, HandlersInv, Replied
    <3> QED
      BY <1>2, <3>1, <3>2 DEF Arrive
  <2>2. pc[r] = "new"
    BY <1>2 DEF Arrive, Reject, Admit
  <2>3. ~Handle(r)
    BY <2>2 DEF Handle, Passthrough, EmbedFails, EmbedReturns, Lookup, LookupFindsNothing, ServeHit,
                FetchFails, FetchReturns, Account, ColdInsert, SubmitForLabel
  <2> QED
    BY <2>1, <2>2, <2>3
<1>3. CASE Handle(r)
  <2>1. pc[r] \notin {"new", "done"}
    BY <1>3 DEF Handle, Passthrough, EmbedFails, EmbedReturns, Lookup, LookupFindsNothing, ServeHit,
                FetchFails, FetchReturns, Account, ColdInsert, SubmitForLabel
  <2>2. CASE SubmitForLabel(r)
    <3>1. /\ pc' = [pc EXCEPT ![r] = "done"] /\ UNCHANGED <<reply, found>> /\ Submit(JobOf(r))
      BY <2>2 DEF SubmitForLabel, Goto
    <3>2. /\ UNCHANGED <<closing, labels>> /\ outcome[JobOf(r)] = "new"
          /\ \A j \in Jobs : j # JobOf(r) => outcome'[j] = outcome[j]
          /\ outcome'[JobOf(r)] # "new"
          /\ outcome'[JobOf(r)] = "panicked" => closing # "open"
      BY <1>1, <3>1 DEF Submit
    <3>3. JobOf(r)' = JobOf(r)
      BY <3>1 DEF JobOf
    <3> QED
      BY <1>1, <1>3, <2>1, <3>1, <3>2, <3>3
  <2>3. CASE ~SubmitForLabel(r)
    <3>1. UNCHANGED <<closing, labels, outcome>>
      BY <1>3, <2>3 DEF Handle, Passthrough, EmbedFails, EmbedReturns, Lookup, LookupFindsNothing, ServeHit,
                        FetchFails, FetchReturns, Account, ColdInsert, labelerVars
    <3>2. ~(pc'[r] = "done" /\ reply'[r] = "miss" /\ found'[r] # NoMatch)
      BY <1>1, <1>3, <2>3 DEF Handle, Passthrough, EmbedFails, EmbedReturns, Lookup, LookupFindsNothing, ServeHit,
                              FetchFails, FetchReturns, Account, ColdInsert, Goto, Answer
    <3> QED
      BY <1>3, <2>1, <3>1, <3>2
  <2> QED
    BY <2>2, <2>3
<1> QED
  BY <1>2, <1>3

\* A worker's step leaves the handlers and what was handed over alone.
LEMMA WorkFacts ==
  ASSUME NEW w \in Workers, Work(w)
  PROVE  UNCHANGED <<closing, outcome>> /\ UNCHANGED <<pc, reply, found>>
BY DEF Work, Idle, Receive, Exit, JudgeReturns, CallbackObserves, CallbackInserts, CallbackReturns,
       labelerVars, handlerVars

-----------------------------------------------------------------------------
\* A step that changes nothing of handlers, comparisons and main; a response may end.
LEMMA HandlersRest ==
  ASSUME LifecycleInv, GatewayInv', UNCHANGED <<closing, outcome>>, UNCHANGED <<pc, reply, found>>,
         UNCHANGED <<main, exit>>, sent \subseteq sent', sent' \subseteq {r \in Requests : pc[r] = "done"}
  PROVE  LifecycleInv'
<1>1. \A r \in Requests : JobOf(r)' = JobOf(r)
  BY DEF JobOf
<1>2. LifecycleTypeOK' /\ ExitInv'
  BY DEF LifecycleInv, LifecycleTypeOK, ExitInv, InFlight
<1>3. HandedOver'
  BY <1>1 DEF LifecycleInv, HandedOver
<1> QED
  BY <1>2, <1>3 DEF LifecycleInv

\* A request's step while the process is up: after a clean drain there is none.
LEMMA RequestStepKeepsLifecycle ==
  ASSUME LifecycleInv, NEW r \in Requests, ArriveWhileUp(r) \/ HandleWhileUp(r)
  PROVE  LifecycleInv'
<1>1. GatewayInv /\ UNCHANGED <<main, exit, sent>> /\ main # "exited" /\ (Arrive(r) \/ Handle(r))
  BY DEF ArriveWhileUp, HandleWhileUp, LifecycleInv
<1>2. /\ UNCHANGED <<closing, labels>>
      /\ \A q \in Requests : q # r => pc'[q] = pc[q] /\ reply'[q] = reply[q] /\ found'[q] = found[q]
      /\ pc[r] # "done" /\ (Handle(r) => pc[r] # "new")
      /\ \A j \in Jobs : outcome[j] # "new" => outcome'[j] = outcome[j]
      /\ \A j \in Jobs : outcome'[j] = "panicked" => outcome[j] = "panicked" \/ (closing # "open" /\ Handle(r))
      /\ pc'[r] = "done" /\ reply'[r] = "miss" /\ found'[r] # NoMatch => outcome'[JobOf(r)'] # "new"
  BY <1>1, OthersStand, RequestStepFacts
<1>3. exit # "clean" /\ r \notin sent
  BY <1>2 DEF ArriveWhileUp, HandleWhileUp, LifecycleInv, LifecycleTypeOK, ExitInv, InFlight
<1>4. GatewayInv'
  BY <1>1, RequestStepKeepsInv
<1>5. LifecycleTypeOK'
  BY <1>1, <1>2, <1>3 DEF LifecycleInv, LifecycleTypeOK
<1>6. ExitInv'
  <2>1. closing # "open" => exit \in {"timeout", "failed"}
    BY <1>3 DEF LifecycleInv, LifecycleTypeOK
  <2> QED
    BY <1>1, <1>2, <1>3, <2>1 DEF LifecycleInv, ExitInv
<1>7. HandedOver'
  <2> SUFFICES ASSUME NEW q \in Requests, pc'[q] = "done", reply'[q] = "miss", found'[q] # NoMatch
               PROVE  outcome'[JobOf(q)'] # "new"
    BY DEF HandedOver
  <2>1. CASE q = r
    BY <1>2, <2>1
  <2>2. CASE q # r
    <3>1. JobOf(q)' = JobOf(q) /\ JobOf(q) \in Jobs
      BY <1>1, <1>2, <2>2, JobFacts DEF JobOf, GatewayInv
    <3>2. outcome[JobOf(q)] # "new"
      BY <1>2, <2>2 DEF LifecycleInv, HandedOver
    <3> QED
      BY <1>2, <3>1, <3>2
  <2> QED
    BY <2>1, <2>2
<1> QED
  BY <1>4, <1>5, <1>6, <1>7 DEF LifecycleInv

\* A step of the main goroutine.
LEMMA MainKeepsLifecycle ==
  ASSUME LifecycleInv, Main
  PROVE  LifecycleInv'
<1>1. /\ UNCHANGED <<storeVars, spent, handlerVars, half>>
      /\ UNCHANGED <<pc, reply, found, outcome>> /\ UNCHANGED sent
  BY DEF Main, Signal, ListenerFails, Drained, DrainTimesOut, CloseGateway, GatewayClosed, ProcessExits,
         Close, CloseReturns, gatewayVars, handlerVars, labelerVars
<1>2. GatewayInv'
  <2>1. CASE UNCHANGED gatewayVars
    BY <2>1, GatewayStutterKeepsInv DEF LifecycleInv
  <2>2. CASE CloseGateway \/ GatewayClosed
    BY <1>1, <2>2, ClosingKeepsGatewayInv DEF CloseGateway, GatewayClosed, LifecycleInv
  <2> QED
    BY <2>1, <2>2 DEF Main, Signal, ListenerFails, Drained, DrainTimesOut, ProcessExits
<1>3. HandedOver'
  <2>1. \A r \in Requests : JobOf(r)' = JobOf(r)
    BY <1>1 DEF JobOf
  <2> QED
    BY <1>1, <2>1 DEF LifecycleInv, HandedOver
<1>4. InFlight' = InFlight
  BY <1>1 DEF InFlight
<1>5. LifecycleTypeOK' /\ ExitInv'
  <2>1. CASE Signal \/ ListenerFails \/ Drained \/ DrainTimesOut
    <3>1. UNCHANGED closing /\ exit = "none"
      BY <2>1 DEF Signal, ListenerFails, Drained, DrainTimesOut, gatewayVars, labelerVars, LifecycleInv, LifecycleTypeOK
    <3>2. \A j \in Jobs : outcome[j] # "panicked"
      BY <3>1 DEF LifecycleInv, ExitInv
    <3> QED
      BY <1>1, <1>4, <2>1, <3>1, <3>2
         DEF Signal, ListenerFails, Drained, DrainTimesOut, Returns, LifecycleInv, LifecycleTypeOK, ExitInv
  <2>2. CASE CloseGateway \/ GatewayClosed
    BY <1>1, <1>4, <2>2 DEF CloseGateway, GatewayClosed, Close, CloseReturns, LifecycleInv, LifecycleTypeOK, ExitInv
  <2>3. CASE ProcessExits
    <3>1. UNCHANGED <<closing, exit>> /\ main = "closing" /\ closing = "closed" /\ main' = "exited"
      BY <2>3 DEF ProcessExits, gatewayVars, labelerVars
    <3> QED
      BY <1>1, <1>4, <3>1 DEF LifecycleInv, LifecycleTypeOK, ExitInv
  <2> QED
    BY <2>1, <2>2, <2>3 DEF Main
<1> QED
  BY <1>2, <1>3, <1>5 DEF LifecycleInv

-----------------------------------------------------------------------------
\* The process starts with nobody served and nothing to close.
LEMMA LifecycleInitInv == LifecycleInit => LifecycleInv
<1> SUFFICES ASSUME LifecycleInit PROVE LifecycleInv
  OBVIOUS
<1>1. GatewayInit /\ main = "serving" /\ exit = "none" /\ sent = {}
  BY DEF LifecycleInit
<1>2. GatewayInv
  BY <1>1, GatewayInitInv
<1>3. /\ closing = "open" /\ outcome = [j \in Jobs |-> "new"] /\ pc = [r \in Requests |-> "new"]
  BY <1>1 DEF GatewayInit, LabelerInit
<1> QED
  BY <1>1, <1>2, <1>3 DEF LifecycleInv, LifecycleTypeOK, HandedOver, ExitInv

\* Every step of the process keeps its invariant.
LEMMA LifecycleNextInv == LifecycleInv /\ [LifecycleNext]_lifecycleVars => LifecycleInv'
<1> SUFFICES ASSUME LifecycleInv, [LifecycleNext]_lifecycleVars PROVE LifecycleInv'
  OBVIOUS
<1>1. ASSUME NEW w \in Workers, WorkWhileUp(w) PROVE LifecycleInv'
  <2>1. Work(w) /\ UNCHANGED <<main, exit, sent>> /\ GatewayInv
    BY <1>1 DEF WorkWhileUp, LifecycleInv
  <2>2. sent \subseteq {r \in Requests : pc[r] = "done"}
    BY DEF LifecycleInv, LifecycleTypeOK
  <2> QED
    BY <2>1, <2>2, WorkKeepsInv, WorkFacts, HandlersRest
<1>2. CASE UNCHANGED lifecycleVars \/ \E r \in Requests : ResponseEnds(r)
  <2>1. /\ UNCHANGED gatewayVars /\ UNCHANGED <<closing, outcome>> /\ UNCHANGED <<pc, reply, found>>
        /\ UNCHANGED <<main, exit>> /\ GatewayInv
    BY <1>2 DEF ResponseEnds, lifecycleVars, gatewayVars, labelerVars, handlerVars, LifecycleInv
  <2>2. sent \subseteq sent' /\ sent' \subseteq {r \in Requests : pc[r] = "done"}
    BY <1>2 DEF ResponseEnds, lifecycleVars, LifecycleInv, LifecycleTypeOK
  <2> QED
    BY <2>1, <2>2, GatewayStutterKeepsInv, HandlersRest
<1> QED
  BY <1>1, <1>2, RequestStepKeepsLifecycle, MainKeepsLifecycle DEF LifecycleNext

\* Requests, labeler and the reason to end agree throughout the life of the process.
THEOREM LifecycleInvariant == LifecycleSpec => []LifecycleInv
BY LifecycleInitInv, LifecycleNextInv, PTL DEF LifecycleSpec

\* Run has a reason exactly when it is returning, and the labeler is open until then.
THEOREM LifecycleTypeCorrect == LifecycleSpec => []LifecycleTypeOK
<1>1. LifecycleInv => LifecycleTypeOK
  BY DEF LifecycleInv
<1> QED
  BY <1>1, LifecycleInvariant, PTL

\* After a clean shutdown the response of every request that arrived has ended, every
\* accepted label has taught the store, and no handler panicked (srv.Shutdown, then the
\* deferred gw.Close).
THEOREM CleanShutdownKeepsEverything == LifecycleSpec => []CleanShutdownLosesNothing
<1>1. ASSUME LifecycleInv, main = "exited", exit = "clean"
      PROVE  /\ \A r \in Requests : pc[r] = "new" \/ (r \in sent /\ reply[r] # "none")
             /\ Accepted = Labelled
             /\ \A r \in Requests : found[r] # NoMatch /\ reply[r] = "miss" => outcome[JobOf(r)] \in {"accepted", "dropped"}
  <2>1. closing = "closed" /\ InFlight = {}
    BY <1>1 DEF LifecycleInv, ExitInv
  <2>2. \A r \in Requests : pc[r] = "new" \/ (r \in sent /\ pc[r] = "done")
    BY <1>1, <2>1 DEF InFlight, LifecycleInv, LifecycleTypeOK
  <2>3. \A r \in Requests : (pc[r] = "new" /\ reply[r] = "none") \/ (pc[r] = "done" /\ reply[r] # "none")
    BY <1>1, <2>2 DEF LifecycleInv, GatewayInv, GatewayTypeOK, HandlersInv, Replied
  <2>4. Accepted = Labelled
    BY <1>1, <2>1, DrainedWhenClosed DEF LifecycleInv, GatewayInv, CloseDrains
  <2>5. ASSUME NEW r \in Requests, found[r] # NoMatch, reply[r] = "miss"
        PROVE  outcome[JobOf(r)] \in {"accepted", "dropped"}
    <3>1. JobOf(r) \in Jobs /\ outcome[JobOf(r)] # "new"
      BY <1>1, <2>3, <2>5, JobFacts DEF LifecycleInv, GatewayInv, HandedOver
    <3>2. outcome[JobOf(r)] # "panicked"
      BY <1>1, <3>1 DEF LifecycleInv, ExitInv
    <3> QED
      BY <1>1, <3>1, <3>2 DEF LifecycleInv, GatewayInv, LabelerInv, LabelerTypeOK
  <2> QED
    BY <2>2, <2>3, <2>4, <2>5
<1>2. LifecycleInv => CleanShutdownLosesNothing
  BY <1>1 DEF CleanShutdownLosesNothing
<1> QED
  BY <1>2, LifecycleInvariant, PTL

\* A comparison that was not accepted has taught nothing: its request has offered no
\* label and planted no entry.
LEMMA RefusedTeachesNothing ==
  ASSUME GatewayInv, NEW j \in Jobs, outcome[j] = "panicked"
  PROVE  j[1] \in Requests /\ ~Offers(j[1]) /\ j[1] \notin Planted
<1>1. j[1] \in Requests
  BY JobsAreComparisons
<1>2. found[j[1]] # NoMatch /\ JobOf(j[1]) = j
  BY DEF GatewayInv, JobsInv
<1>3. labels[j] = << >>
  BY LabelledJob DEF GatewayInv
<1>4. ASSUME NEW v \in Workers, Labels(v, j[1]) PROVE FALSE
  <2>1. job[v] = j
    BY <1>1, <1>2, <1>4, LabelsAreOfEndedRequests
  <2>2. outcome[job[v]] = "accepted"
    BY <1>4, HeldJob DEF Labels, GatewayInv
  <2> QED
    BY <2>1, <2>2
<1>5. ~Offers(j[1])
  BY <1>2, <1>3, <1>4 DEF Offers
<1>6. j[1] \notin Planted
  <2>1. << >> # <<FALSE>>
    OBVIOUS
  <2> QED
    BY <1>2, <1>3, <2>1 DEF Planted, ColdLearned, Refuting
<1> QED
  BY <1>1, <1>5, <1>6

\* However the process ends, what the labeler has accepted has reached the store by
\* then; only a handler that outlives a dirty shutdown panics in Submit, and nothing of
\* its lesson is in the store (run, gw.Close, exploreWithNeighbor).
THEOREM AcceptedLabelsSurvive == LifecycleSpec => []AnyShutdownKeepsAccepted
<1>1. ASSUME LifecycleInv, main = "exited" PROVE Accepted = Labelled
  <2>1. closing = "closed"
    BY <1>1 DEF LifecycleInv, ExitInv
  <2> QED
    BY <1>1, <2>1, DrainedWhenClosed DEF LifecycleInv, GatewayInv, CloseDrains
<1>2. ASSUME LifecycleInv, NEW j \in Jobs, outcome[j] = "panicked"
      PROVE  /\ exit \in {"timeout", "failed"}
             /\ \A id \in DOMAIN entries :
                   /\ entries[id].resp # j[1]
                   /\ \A i \in DOMAIN entries[id].obs : entries[id].obs[i].by # j[1]
  <2>1. exit \in {"timeout", "failed"}
    BY <1>2 DEF LifecycleInv, ExitInv
  <2>2. ~Offers(j[1]) /\ j[1] \notin Planted
    BY <1>2, RefusedTeachesNothing DEF LifecycleInv
  <2>3. ASSUME NEW id \in DOMAIN entries PROVE entries[id].resp # j[1]
    BY <1>2, <2>2, <2>3 DEF LifecycleInv, GatewayInv, LearningInv, InsertsAreGuarded
  <2>4. ASSUME NEW id \in DOMAIN entries, NEW i \in DOMAIN entries[id].obs
        PROVE  entries[id].obs[i].by # j[1]
    <3>1. entries[id].obs[i].by \in LabelsOf(id)
      BY <1>2, <2>4 DEF LifecycleInv, GatewayInv, LearningInv, LabelsReachTheirEntry
    <3> QED
      BY <2>2, <3>1 DEF LabelsOf
  <2> QED
    BY <2>1, <2>3, <2>4
<1>3. LifecycleInv => AnyShutdownKeepsAccepted
  BY <1>1, <1>2 DEF AnyShutdownKeepsAccepted
<1> QED
  BY <1>3, LifecycleInvariant, PTL

\* Closing the labeler is a step the promise does not see.
LEMMA ClosingIsSilent ==
  ASSUME GatewayInv, Close \/ CloseReturns, UNCHANGED <<storeVars, spent, handlerVars, half>>
  PROVE  UNCHANGED Promise!promiseVars
<1>1. GatewayInv' /\ TeachesNothing
  BY ClosingKeepsGatewayInv
<1>2. UNCHANGED <<phase, job, verdict, labels, half>> /\ UNCHANGED <<reply, found>>
  BY DEF Close, CloseReturns, handlerVars
<1>3. \A q \in Requests : Offers(q) => VerdictOn(q)' = VerdictOn(q)
  BY <1>1, <1>2, SameVerdicts
<1>4. Planted' = Planted /\ Verdicts' = Verdicts
  BY <1>1, <1>2, <1>3, VerdictsUnchanged DEF TeachesNothing
<1> QED
  BY <1>2, <1>4, SilentStep

\* Every step of the process is one of the promise, or none.
LEMMA LifecycleStepSimulates ==
  LifecycleInv /\ LifecycleInv' /\ [LifecycleNext]_lifecycleVars => [Promise!PromiseNext]_Promise!promiseVars
<1> SUFFICES ASSUME LifecycleInv, LifecycleInv', [LifecycleNext]_lifecycleVars
             PROVE  [Promise!PromiseNext]_Promise!promiseVars
  OBVIOUS
<1>1. GatewayInv /\ GatewayInv'
  BY DEF LifecycleInv
<1>2. \/ [GatewayNext]_gatewayVars
      \/ CloseGateway \/ GatewayClosed
  BY DEF LifecycleNext, ArriveWhileUp, HandleWhileUp, ResponseEnds, WorkWhileUp, Main, Signal, ListenerFails, Drained,
         DrainTimesOut, ProcessExits, GatewayNext, lifecycleVars
<1>3. CASE [GatewayNext]_gatewayVars
  BY <1>1, <1>3, StepSimulates
<1>4. CASE CloseGateway \/ GatewayClosed
  BY <1>1, <1>4, ClosingIsSilent DEF CloseGateway, GatewayClosed
<1> QED
  BY <1>2, <1>3, <1>4

\* The promise holds to the end of the process: a drain that times out, a labeler closed
\* under running handlers and the panics this costs break none of it (run, gw.Close).
THEOREM LifecycleKeepsPromise == LifecycleSpec => ImplementsVerifiedCache
<1>1. LifecycleInit => Promise!PromiseInit
  BY PromiseStarts DEF LifecycleInit
<1> QED
  BY <1>1, LifecycleInvariant, LifecycleStepSimulates, PTL
     DEF LifecycleSpec, ImplementsVerifiedCache, Promise!PromiseSpec

-----------------------------------------------------------------------------
\* Sums over a finite set, defined as FiniteSetsExt folds them: f[s] is the sum of c
\* over the subset s.
Pick(s) == CHOOSE x \in s : TRUE

IsSum(f, c) ==
  f = [s \in SUBSET DOMAIN c |-> IF s = {} THEN 0 ELSE c[Pick(s)] + f[s \ {Pick(s)}]]

Total(c) == (CHOOSE f : IsSum(f, c))[DOMAIN c]

\* What such a function does.
Sums(f, c) ==
  /\ f \in [SUBSET DOMAIN c -> Nat] /\ f[{}] = 0
  /\ \A s \in SUBSET DOMAIN c : s # {} => f[s] = c[Pick(s)] + f[s \ {Pick(s)}]

-----------------------------------------------------------------------------
\* Among the subsets of a finite set, one of a kind is smallest.
LEMMA SmallestSubset ==
  ASSUME NEW S, IsFiniteSet(S), NEW T \in SUBSET (SUBSET S), T # {}
  PROVE  \E s \in T : \A y \in T : y \subseteq s => y = s
<1>1. T \subseteq FiniteSubsetsOf(S)
  BY FS_FiniteSubsetsOfFinite
<1>2. PICK s \in T : \A y \in T : ~(<<y, s>> \in StrictSubsetOrdering(S))
  BY <1>1, FS_StrictSubsetOrderingWellFounded, WFMin
<1>3. \A y \in T : y \subseteq s => y = s
  BY <1>2 DEF StrictSubsetOrdering
<1> QED
  BY <1>3

\* What is picked is an element, and one less remains.
LEMMA PickFacts ==
  ASSUME NEW S, IsFiniteSet(S), NEW s \in SUBSET S, s # {}
  PROVE  /\ Pick(s) \in s /\ s \ {Pick(s)} \in SUBSET S
         /\ IsFiniteSet(s) /\ Cardinality(s) \in Nat /\ Cardinality(s \ {Pick(s)}) \in Nat
         /\ Cardinality(s \ {Pick(s)}) = Cardinality(s) - 1
<1>1. Pick(s) \in s
  BY DEF Pick
<1>2. IsFiniteSet(s) /\ IsFiniteSet(s \ {Pick(s)})
  BY FS_Subset, FS_RemoveElement
<1> QED
  BY <1>1, <1>2, FS_RemoveElement, FS_CardinalityType

\* The fold has a result.
LEMMA SumExists ==
  ASSUME NEW S, IsFiniteSet(S), NEW c \in [S -> Nat]
  PROVE  \E f : IsSum(f, c)
<1> DEFINE Step(g, s) == IF s = {} THEN 0 ELSE c[Pick(s)] + g[s \ {Pick(s)}]
           UpTo(g, U) == \A s \in SUBSET S : Cardinality(s) <= Cardinality(U) => g[s] = Step(g, s)
           Bad        == {U \in SUBSET S : ~\E g \in [SUBSET S -> Nat] : UpTo(g, U)}
<1>1. \A s \in SUBSET S : IsFiniteSet(s) /\ Cardinality(s) \in Nat
  BY FS_Subset, FS_CardinalityType
<1>2. ASSUME NEW U \in SUBSET S, \A V \in SUBSET S : V \subseteq U /\ V # U => V \notin Bad
      PROVE  U \notin Bad
  <2>1. CASE U = {}
    <3> DEFINE z == [s \in SUBSET S |-> 0]
    <3>1. \A s \in SUBSET S : Cardinality(s) <= Cardinality({}) => s = {}
      BY <1>1, FS_EmptySet
    <3>2. UpTo(z, U)
      BY <2>1, <3>1
    <3>3. z \in [SUBSET S -> Nat]
      OBVIOUS
    <3> QED
      BY <3>2, <3>3
  <2>2. CASE U # {}
    <3> DEFINE V == U \ {Pick(U)}
    <3>1. /\ V \in SUBSET S /\ V # U /\ V \subseteq U
          /\ Cardinality(V) = Cardinality(U) - 1
      BY <2>2, PickFacts
    <3>2. PICK g \in [SUBSET S -> Nat] : UpTo(g, V)
      BY <1>2, <3>1
    <3> HIDE DEF V
    <3> DEFINE h == [s \in SUBSET S |-> IF Cardinality(s) <= Cardinality(V) THEN g[s] ELSE Step(g, s)]
    <3>3. \A s \in SUBSET S : Step(g, s) \in Nat
      BY PickFacts
    <3>4. h \in [SUBSET S -> Nat]
      BY <3>3
    <3>5. ASSUME NEW s \in SUBSET S, Cardinality(s) <= Cardinality(U)
          PROVE  h[s] = Step(h, s)
      <4>1. h[s] = Step(g, s)
        BY <3>2
      <4>2. CASE s = {}
        BY <4>1, <4>2
      <4>3. CASE s # {}
        <5> DEFINE t == s \ {Pick(s)}
        <5>1. t \in SUBSET S /\ Cardinality(t) = Cardinality(s) - 1 /\ Pick(s) \in S
          BY <4>3, PickFacts
        <5>2. Cardinality(t) <= Cardinality(V)
          BY <1>1, <3>1, <3>5, <5>1
        <5> HIDE DEF t
        <5>3. h[t] = g[t]
          BY <5>1, <5>2
        <5> QED
          BY <4>1, <4>3, <5>3 DEF t
      <4> QED
        BY <4>2, <4>3
    <3>6. UpTo(h, U)
      BY <3>5
    <3> HIDE DEF h
    <3> QED
      BY <3>4, <3>6
  <2> QED
    BY <2>1, <2>2
<1>3. Bad = {}
  <2>1. Bad \in SUBSET (SUBSET S)
    OBVIOUS
  <2> HIDE DEF Bad
  <2>2. ASSUME Bad # {} PROVE FALSE
    <3>1. PICK U \in Bad : \A V \in Bad : V \subseteq U => V = U
      BY <2>1, <2>2, SmallestSubset
    <3> QED
      BY <1>2, <2>1, <3>1
  <2> QED
    BY <2>2
<1>4. PICK g \in [SUBSET S -> Nat] : UpTo(g, S)
  BY <1>3
<1>5. \A s \in SUBSET S : Cardinality(s) <= Cardinality(S)
  BY FS_Subset
<1>6. g = [s \in SUBSET S |-> Step(g, s)]
  BY <1>4, <1>5
<1>7. IsSum(g, c)
  BY <1>6 DEF IsSum
<1> QED
  BY <1>7

\* Induction over the subsets of a finite set, for a set of them.
LEMMA PickInduction ==
  ASSUME NEW S, IsFiniteSet(S), NEW G, {} \in G,
         \A s \in SUBSET S : s # {} /\ s \ {Pick(s)} \in G => s \in G
  PROVE  SUBSET S \subseteq G
<1> DEFINE Bad == (SUBSET S) \ G
<1>1. Bad \in SUBSET (SUBSET S)
  OBVIOUS
<1>2. ASSUME NEW s \in Bad, \A y \in Bad : y \subseteq s => y = s
      PROVE  FALSE
  <2>1. s \in SUBSET S /\ s # {}
    OBVIOUS
  <2>2. Pick(s) \in s /\ s \ {Pick(s)} \in SUBSET S
    BY <2>1, PickFacts
  <2>3. s \ {Pick(s)} \notin Bad
    BY <1>2, <2>2
  <2> QED
    BY <2>1, <2>2, <2>3
<1> HIDE DEF Bad
<1>3. Bad = {}
  BY <1>1, <1>2, SmallestSubset
<1> QED
  BY <1>3 DEF Bad

\* A function that the fold may choose.
LEMMA IsSumFacts ==
  ASSUME NEW S, IsFiniteSet(S), NEW c \in [S -> Nat], NEW f, IsSum(f, c)
  PROVE  Sums(f, c)
<1>1. f[{}] = 0
  BY DEF IsSum
<1>2. \A s \in SUBSET S : s # {} => f[s] = c[Pick(s)] + f[s \ {Pick(s)}]
  BY DEF IsSum
<1> DEFINE G == {s \in SUBSET S : f[s] \in Nat}
<1>3. {} \in G
  BY <1>1
<1>4. ASSUME NEW s \in SUBSET S, s # {}, s \ {Pick(s)} \in G
      PROVE  s \in G
  <2>1. Pick(s) \in S
    BY <1>4, PickFacts
  <2>2. c[Pick(s)] \in Nat
    BY <2>1
  <2> QED
    BY <1>2, <1>4, <2>2
<1> HIDE DEF G
<1>5. SUBSET S \subseteq G
  BY <1>3, <1>4, PickInduction
<1>6. \A s \in SUBSET S : f[s] \in Nat
  BY <1>5 DEF G
<1>7. f \in [SUBSET S -> Nat]
  BY <1>6 DEF IsSum
<1> QED
  BY <1>1, <1>2, <1>7 DEF Sums

\* The result, which does not depend on the function chosen for it.
LEMMA TotalFacts ==
  ASSUME NEW S, IsFiniteSet(S), NEW c \in [S -> Nat]
  PROVE  \E f : Sums(f, c) /\ Total(c) = f[S]
<1> DEFINE f == CHOOSE g : IsSum(g, c)
<1>1. IsSum(f, c)
  BY SumExists
<1>2. Total(c) = f[S]
  BY DEF Total
<1> HIDE DEF f
<1>3. Sums(f, c)
  BY <1>1, IsSumFacts
<1> QED
  BY <1>2, <1>3

\* What a sum's function does at one subset.
LEMMA SumFacts ==
  ASSUME NEW S, IsFiniteSet(S), NEW c \in [S -> Nat], NEW f, Sums(f, c)
  PROVE  /\ f[{}] = 0 /\ f[S] \in Nat
         /\ \A s \in SUBSET S : s # {} =>
               /\ Pick(s) \in s /\ Pick(s) \in S /\ c[Pick(s)] \in Nat
               /\ f[s] \in Nat /\ f[s \ {Pick(s)}] \in Nat
               /\ f[s] = c[Pick(s)] + f[s \ {Pick(s)}]
<1>1. f \in [SUBSET S -> Nat] /\ f[{}] = 0
  BY DEF Sums
<1>2. ASSUME NEW s \in SUBSET S, s # {}
      PROVE  /\ Pick(s) \in s /\ Pick(s) \in S /\ c[Pick(s)] \in Nat
             /\ f[s] \in Nat /\ f[s \ {Pick(s)}] \in Nat
             /\ f[s] = c[Pick(s)] + f[s \ {Pick(s)}]
  <2>1. Pick(s) \in s /\ Pick(s) \in S /\ s \ {Pick(s)} \in SUBSET S
    BY <1>2, PickFacts
  <2>2. f[s] = c[Pick(s)] + f[s \ {Pick(s)}]
    BY <1>2 DEF Sums
  <2> QED
    BY <1>1, <2>1, <2>2
<1> QED
  BY <1>1, <1>2

\* Whichever function is chosen.
LEMMA TotalUnique ==
  ASSUME NEW S, IsFiniteSet(S), NEW c \in [S -> Nat], NEW g, IsSum(g, c)
  PROVE  g[S] = Total(c)
<1>1. PICK f : Sums(f, c) /\ Total(c) = f[S]
  BY TotalFacts
<1>2. Sums(g, c)
  BY IsSumFacts
<1> DEFINE G == {s \in SUBSET S : g[s] = f[s]}
<1>3. {} \in G
  BY <1>1, <1>2, SumFacts
<1>4. ASSUME NEW s \in SUBSET S, s # {}, s \ {Pick(s)} \in G
      PROVE  s \in G
  BY <1>1, <1>2, <1>4, SumFacts
<1> HIDE DEF G
<1>5. SUBSET S \subseteq G
  BY <1>3, <1>4, PickInduction
<1> QED
  BY <1>1, <1>5 DEF G

\* A sum grows by what one of its terms grows by.
LEMMA TotalStep ==
  ASSUME NEW S, IsFiniteSet(S), NEW c \in [S -> Nat], NEW d \in [S -> Nat], NEW r \in S,
         \A x \in S : x # r => d[x] = c[x]
  PROVE  Total(d) + c[r] = Total(c) + d[r] /\ Total(c) \in Nat /\ Total(d) \in Nat
<1>1. PICK f : Sums(f, c) /\ Total(c) = f[S]
  BY TotalFacts
<1>2. PICK g : Sums(g, d) /\ Total(d) = g[S]
  BY TotalFacts
<1>3. f[{}] = 0 /\ g[{}] = 0 /\ f[S] \in Nat /\ g[S] \in Nat
  BY <1>1, <1>2, SumFacts
<1> DEFINE G == {s \in SUBSET S : IF r \in s THEN g[s] + c[r] = f[s] + d[r] ELSE g[s] = f[s]}
<1>4. {} \in G
  BY <1>3
<1>5. ASSUME NEW s \in SUBSET S, s # {}, s \ {Pick(s)} \in G
      PROVE  s \in G
  <2>1. PICK x, t : x = Pick(s) /\ t = s \ {x}
    OBVIOUS
  <2>2. /\ x \in s /\ x \in S /\ c[x] \in Nat /\ d[x] \in Nat
        /\ f[s] \in Nat /\ g[s] \in Nat /\ f[t] \in Nat /\ g[t] \in Nat
        /\ f[s] = c[x] + f[t] /\ g[s] = d[x] + g[t]
    BY <1>1, <1>2, <1>5, <2>1, SumFacts
  <2>3. IF r \in t THEN g[t] + c[r] = f[t] + d[r] ELSE g[t] = f[t]
    BY <1>5, <2>1
  <2>4. c[r] \in Nat /\ d[r] \in Nat
    OBVIOUS
  <2>5. CASE x = r
    <3>1. r \notin t /\ r \in s
      BY <2>1, <2>2, <2>5
    <3> QED
      BY <2>2, <2>3, <2>4, <2>5, <3>1
  <2>6. CASE x # r
    <3>1. d[x] = c[x] /\ (r \in t <=> r \in s)
      BY <2>1, <2>2, <2>6
    <3> QED
      BY <2>2, <2>3, <2>4, <3>1
  <2> QED
    BY <2>5, <2>6
<1> HIDE DEF G
<1>6. SUBSET S \subseteq G
  BY <1>4, <1>5, PickInduction
<1>7. g[S] + c[r] = f[S] + d[r]
  BY <1>6 DEF G
<1> QED
  BY <1>1, <1>2, <1>3, <1>7

\* Terms of at most m, of a few only, sum up to at most that many times m.
LEMMA TotalBound ==
  ASSUME NEW S, IsFiniteSet(S), NEW c \in [S -> Nat], NEW T \in SUBSET S, NEW m \in Nat,
         \A x \in S : c[x] <= IF x \in T THEN m ELSE 0
  PROVE  Total(c) <= Cardinality(T) * m
<1>1. PICK f : Sums(f, c) /\ Total(c) = f[S]
  BY TotalFacts
<1> DEFINE Few(s) == Cardinality(s \cap T)
           G == {s \in SUBSET S : f[s] <= Few(s) * m}
<1>2. \A s \in SUBSET S : IsFiniteSet(s \cap T) /\ Few(s) \in Nat
  BY FS_Subset, FS_CardinalityType
<1>3. {} \in G
  <2>1. f[{}] = 0
    BY <1>1, SumFacts
  <2>2. {} \cap T = {}
    OBVIOUS
  <2>3. Few({}) = 0
    BY <2>2, FS_EmptySet
  <2> HIDE DEF Few
  <2> QED
    BY <2>1, <2>3
<1>4. ASSUME NEW s \in SUBSET S, s # {}, s \ {Pick(s)} \in G
      PROVE  s \in G
  <2>1. PICK x, t : x = Pick(s) /\ t = s \ {x}
    OBVIOUS
  <2>2. /\ x \in s /\ x \in S /\ c[x] \in Nat /\ f[s] \in Nat /\ f[t] \in Nat /\ t \in SUBSET S
        /\ f[s] = c[x] + f[t]
    BY <1>1, <1>4, <2>1, SumFacts
  <2>3. f[t] <= Few(t) * m
    BY <1>4, <2>1
  <2>4. Few(s) = IF x \in T THEN Few(t) + 1 ELSE Few(t)
    <3>1. t \cap T = (s \cap T) \ {x}
      BY <2>1
    <3>2. IsFiniteSet(s \cap T)
      BY <1>2
    <3>3. Few(t) = IF x \in s \cap T THEN Few(s) - 1 ELSE Few(s)
      BY <3>1, <3>2, FS_RemoveElement
    <3>4. Few(s) \in Nat /\ Few(t) \in Nat
      BY <1>2, <2>2
    <3> HIDE DEF Few
    <3> QED
      BY <2>2, <3>3, <3>4
  <2>5. PICK n \in Nat : n = Few(t)
    BY <1>2, <2>2
  <2>6. (n + 1) * m = n * m + m /\ n * m \in Nat
    BY <2>5
  <2> HIDE DEF Few
  <2>7. c[x] <= IF x \in T THEN m ELSE 0
    BY <2>2
  <2>8. f[s] <= Few(s) * m
    <3>1. CASE x \in T
      <4>1. Few(s) * m = n * m + m
        BY <2>4, <2>5, <2>6, <3>1
      <4> QED
        BY <2>2, <2>3, <2>5, <2>6, <2>7, <3>1, <4>1
    <3>2. CASE x \notin T
      BY <2>2, <2>3, <2>4, <2>5, <2>6, <2>7, <3>2
    <3> QED
      BY <3>1, <3>2
  <2> QED
    BY <2>8
<1> HIDE DEF G
<1>5. SUBSET S \subseteq G
  BY <1>3, <1>4, PickInduction
<1>6. S \cap T = T /\ f[S] <= Few(S) * m
  BY <1>5 DEF G
<1> QED
  BY <1>1, <1>6

\* Nothing sums up to nothing.
LEMMA TotalOfZero ==
  ASSUME NEW S, IsFiniteSet(S), NEW c \in [S -> Nat], \A x \in S : c[x] = 0
  PROVE  Total(c) = 0
<1>1. Total(c) <= Cardinality({}) * 0
  BY TotalBound
<1>2. Total(c) \in Nat
  BY TotalFacts, SumFacts
<1> QED
  BY <1>1, <1>2, FS_EmptySet

\* A finite set of numbers has a greatest.
LEMMA MaxFacts ==
  ASSUME NEW S \in SUBSET Nat, IsFiniteSet(S), S # {}
  PROVE  Max(S) \in S /\ \A y \in S : y <= Max(S)
<1> DEFINE G == {s \in SUBSET S : s = {} \/ \E x \in s : \A y \in s : x >= y}
<1>1. {} \in G
  OBVIOUS
<1>2. ASSUME NEW s \in SUBSET S, s # {}, s \ {Pick(s)} \in G
      PROVE  s \in G
  <2>1. PICK p, t : p = Pick(s) /\ t = s \ {p}
    OBVIOUS
  <2>2. p \in s /\ s \subseteq Nat
    BY <1>2, <2>1, PickFacts
  <2>3. CASE t = {}
    BY <2>1, <2>2, <2>3
  <2>4. CASE t # {}
    <3>1. PICK x \in t : \A y \in t : x >= y
      BY <1>2, <2>1, <2>4
    <3>2. CASE x >= p
      BY <2>1, <2>2, <3>1, <3>2
    <3>3. CASE ~(x >= p)
      <4>1. \A y \in s : p >= y
        BY <2>1, <2>2, <3>1, <3>3
      <4> QED
        BY <2>2, <4>1
    <3> QED
      BY <3>2, <3>3
  <2> QED
    BY <2>3, <2>4
<1> HIDE DEF G
<1>3. SUBSET S \subseteq G
  BY <1>1, <1>2, PickInduction
<1>4. \E x \in S : \A y \in S : x >= y
  BY <1>3 DEF G
<1>5. Max(S) \in S /\ \A y \in S : Max(S) >= y
  BY <1>4 DEF Max
<1> QED
  BY <1>5

\* The greater of two.
LEMMA MaxOfTwo ==
  ASSUME NEW a \in Nat, NEW b \in Nat
  PROVE  Max({a, b}) \in Nat /\ a <= Max({a, b}) /\ b <= Max({a, b})
<1>1. IsFiniteSet({a, b})
  <2>1. {a, b} = {a} \cup {b}
    OBVIOUS
  <2>2. IsFiniteSet({a})
    BY FS_Singleton
  <2>3. IsFiniteSet({a} \cup {b})
    BY <2>2, FS_AddElement
  <2> QED
    BY <2>1, <2>3
<1> QED
  BY <1>1, MaxFacts

\* No request costs more than MaxCost.
LEMMA MaxCostFacts ==
  ASSUME NEW r \in Requests
  PROVE  MaxCost \in Nat /\ ChatPrice[Ask[r].model] + EmbedPrice[Ask[r].model] <= MaxCost
<1> DEFINE f == [m \in Models |-> ChatPrice[m] + EmbedPrice[m]]
           P == {ChatPrice[m] + EmbedPrice[m] : m \in Models}
<1>1. f \in Surjection(Models, P)
  BY DEF Surjection
<1>2. IsFiniteSet(P)
  BY <1>1, FS_Surjection, GatewayAssumption
<1>3. P \subseteq Nat /\ ChatPrice[Ask[r].model] + EmbedPrice[Ask[r].model] \in P
  BY GatewayAssumption
<1> HIDE DEF P
<1>4. Max(P) \in P /\ \A y \in P : y <= Max(P)
  BY <1>2, <1>3, MaxFacts
<1> QED
  BY <1>3, <1>4 DEF MaxCost, P

-----------------------------------------------------------------------------
\* The requests of a key, and what each has cost so far.
RequestsOf(k) == {r \in Requests : Ask[r].key = k}
Costs(k)      == [r \in RequestsOf(k) |-> CostOf(r)]

\* SpendIsExact's sum is their total.
SumsAreTotals == \A k \in Keys : MapThenSumSet(CostOf, RequestsOf(k)) = Total(Costs(k))

\* A cost is a number of cents.
LEMMA CostFacts ==
  /\ \A r \in Requests : CostOf(r) \in Nat
  /\ \A k \in Keys : IsFiniteSet(RequestsOf(k)) /\ Costs(k) \in [RequestsOf(k) -> Nat]
<1>1. \A r \in Requests : CostOf(r) \in Nat
  BY AskFacts DEF CostOf
<1> QED
  BY <1>1, SetsOfRequests DEF RequestsOf, Costs

\* The fold of the community module, seen as the recursive function it is.
LEMMA CostsAreTotals == SumsAreTotals
<1> SUFFICES ASSUME NEW k \in Keys
             PROVE  MapThenSumSet(CostOf, RequestsOf(k)) = Total(Costs(k))
  BY DEF SumsAreTotals
<1>0. PICK S : S = RequestsOf(k)
  OBVIOUS
<1>1. PICK c : c = Costs(k)
  OBVIOUS
<1>2. IsFiniteSet(S) /\ c \in [S -> Nat] /\ \A r \in S : c[r] = CostOf(r)
  BY <1>0, <1>1, CostFacts DEF Costs
<1> DEFINE Folds(f) == f = [s \in SUBSET S |-> IF s = {} THEN 0 ELSE CostOf(CHOOSE x \in s : TRUE) + f[s \ {CHOOSE x \in s : TRUE}]]
<1>3. MapThenSumSet(CostOf, S) = (CHOOSE f : Folds(f))[S]
  BY DEF MapThenSumSet, MapThenFoldSet
<1>4. \A f : Folds(f) <=> IsSum(f, c)
  <2>1. \A s \in SUBSET S : s # {} => Pick(s) \in S
    BY <1>2, PickFacts
  <2>2. ASSUME NEW f, NEW s \in SUBSET S, s # {}
        PROVE  c[Pick(s)] + f[s \ {Pick(s)}] = CostOf(CHOOSE x \in s : TRUE) + f[s \ {CHOOSE x \in s : TRUE}]
    BY <1>2, <2>1, <2>2, Zenon DEF Pick
  <2>3. DOMAIN c = S
    BY <1>2
  <2> HIDE DEF Folds
  <2>4. ASSUME NEW f
        PROVE  [s \in SUBSET S |-> IF s = {} THEN 0 ELSE CostOf(CHOOSE x \in s : TRUE) + f[s \ {CHOOSE x \in s : TRUE}]]
                 = [s \in SUBSET S |-> IF s = {} THEN 0 ELSE c[Pick(s)] + f[s \ {Pick(s)}]]
    <3>1. ASSUME NEW s \in SUBSET S
          PROVE  (IF s = {} THEN 0 ELSE CostOf(CHOOSE x \in s : TRUE) + f[s \ {CHOOSE x \in s : TRUE}])
                   = (IF s = {} THEN 0 ELSE c[Pick(s)] + f[s \ {Pick(s)}])
      BY <2>2, Zenon
    <3> QED
      BY <3>1, Zenon
  <2>5. ASSUME NEW f
        PROVE  IsSum(f, c) <=> f = [s \in SUBSET S |-> IF s = {} THEN 0 ELSE c[Pick(s)] + f[s \ {Pick(s)}]]
    BY <2>3, Zenon DEF IsSum
  <2>6. ASSUME NEW f
        PROVE  Folds(f) <=> f = [s \in SUBSET S |-> IF s = {} THEN 0 ELSE c[Pick(s)] + f[s \ {Pick(s)}]]
    BY <2>4, Zenon DEF Folds
  <2> QED
    BY <2>5, <2>6
<1> HIDE DEF Folds
<1>5. IsSum(CHOOSE f : Folds(f), c)
  BY <1>2, <1>4, SumExists
<1> QED
  BY <1>0, <1>1, <1>2, <1>3, <1>5, TotalUnique

-----------------------------------------------------------------------------
\* Nothing but the embedding and the answer of a request changes what it costs, and a
\* key is billed what changes.
Billed(r, cents) ==
  /\ Add(Ask[r].key, cents) /\ cents \in Nat
  /\ CostOf(r)' = CostOf(r) + cents
  /\ \A q \in Requests : q # r => CostOf(q)' = CostOf(q)

\* What a request's step bills.
LEMMA RequestStepBills ==
  ASSUME GatewayInv, NEW r \in Requests, Arrive(r) \/ Handle(r)
  PROVE  \/ EmbedReturns(r) /\ Billed(r, EmbedPrice[Ask[r].model])
         \/ Account(r) /\ Billed(r, ChatPrice[Ask[r].model])
         \/ /\ ~EmbedReturns(r) /\ ~Account(r) /\ UNCHANGED spent
            /\ \A q \in Requests : CostOf(q)' = CostOf(q)
<1>1. /\ pc \in [Requests -> Steps] /\ reply \in [Requests -> Replies]
      /\ pc[r] \in Replied => reply[r] = "miss"
  BY DEF GatewayInv, GatewayTypeOK, HandlersInv
<1>2. \A q \in Requests : q # r => pc'[q] = pc[q] /\ reply'[q] = reply[q]
  BY OthersStand
<1>3. \A q \in Requests : q # r => CostOf(q)' = CostOf(q)
  BY <1>2 DEF CostOf, Embedded, Paid
<1>4. ChatPrice[Ask[r].model] \in Nat /\ EmbedPrice[Ask[r].model] \in Nat
  BY AskFacts
<1>5. CASE EmbedReturns(r)
  <2>1. pc[r] = "embed" /\ pc'[r] = "lookup" /\ UNCHANGED reply
    BY <1>1, <1>5 DEF EmbedReturns, Goto
  <2>2. CostOf(r)' = CostOf(r) + EmbedPrice[Ask[r].model]
    BY <1>4, <2>1 DEF CostOf, Embedded, Paid
  <2> QED
    BY <1>3, <1>4, <1>5, <2>2 DEF Billed, EmbedReturns
<1>6. CASE Account(r)
  <2>1. pc[r] = "account" /\ pc'[r] = "learn" /\ UNCHANGED reply
    BY <1>1, <1>6 DEF Account, Goto
  <2>2. CostOf(r)' = CostOf(r) + ChatPrice[Ask[r].model]
    BY <1>4, <2>1 DEF CostOf, Embedded, Paid
  <2> QED
    BY <1>3, <1>4, <1>6, <2>2 DEF Billed, Account
<1>7. CASE ~EmbedReturns(r) /\ ~Account(r)
  <2>1. UNCHANGED spent
    BY <1>7 DEF Arrive, Handle, Reject, Admit, Passthrough, EmbedFails, Lookup, LookupFindsNothing,
                ServeHit, FetchFails, FetchReturns, ColdInsert, SubmitForLabel
  <2>2. (Embedded(r)' <=> Embedded(r)) /\ (Paid(r)' <=> Paid(r))
    <3>1. CASE Arrive(r)
      <4>1. Screen(r) \in {"401", "429", "400", "none"}
        BY DEF Screen
      <4> QED
        BY <1>1, <3>1, <4>1 DEF Arrive, Reject, Admit, Goto, Answer, Embedded, Paid
    <3>2. CASE Handle(r)
      BY <1>1, <1>7, <3>2 DEF Handle, Passthrough, EmbedFails, Lookup, LookupFindsNothing,
         ServeHit, FetchFails, FetchReturns, ColdInsert, SubmitForLabel, Goto, Answer, Embedded, Paid, Replied
    <3> QED
      BY <3>1, <3>2
  <2>3. CostOf(r)' = CostOf(r)
    BY <2>2 DEF CostOf
  <2> QED
    BY <1>3, <1>7, <2>1, <2>3
<1> QED
  BY <1>5, <1>6, <1>7

\* A bill keeps the spend exact.
LEMMA BillKeepsExact ==
  ASSUME GatewayInv, SpendIsExact, NEW r \in Requests, NEW cents, Billed(r, cents)
  PROVE  SpendIsExact'
<1>1. SumsAreTotals /\ SumsAreTotals'
  BY CostsAreTotals, PTL
<1>2. PICK key \in Keys : key = Ask[r].key
  BY AskFacts
<1>3. /\ spent \in [Keys -> Nat] /\ cents \in Nat
      /\ Enabled => spent' = [spent EXCEPT ![key] = @ + cents]
      /\ ~Enabled => spent' = spent
  BY <1>2 DEF GatewayInv, GatewayTypeOK, Billed, Add
<1> SUFFICES ASSUME NEW k \in Keys
             PROVE  spent'[k] = IF Enabled THEN MapThenSumSet(CostOf, RequestsOf(k))' ELSE 0
  BY DEF SpendIsExact, RequestsOf, Enabled
<1>4. spent[k] = IF Enabled THEN Total(Costs(k)) ELSE 0
  BY <1>1 DEF SpendIsExact, SumsAreTotals, RequestsOf
<1>5. MapThenSumSet(CostOf, RequestsOf(k))' = Total(Costs(k)')
  BY <1>1 DEF SumsAreTotals
<1> DEFINE c == Costs(k)
           d == Costs(k)'
           S == RequestsOf(k)
<1>6. IsFiniteSet(S) /\ c \in [S -> Nat] /\ d \in [S -> Nat]
  <2>1. \A q \in Requests : CostOf(q) \in Nat /\ CostOf(q)' \in Nat
    BY <1>3, CostFacts DEF Billed
  <2> QED
    BY <2>1, CostFacts DEF Costs, RequestsOf
<1>7. \A q \in S : c[q] = CostOf(q) /\ d[q] = CostOf(q)'
  BY DEF Costs, RequestsOf
<1>8. CASE k # key
  <2>1. d = c
    BY <1>2, <1>8 DEF Costs, RequestsOf, Billed
  <2>2. spent'[k] = spent[k]
    BY <1>3, <1>8
  <2> QED
    BY <1>4, <1>5, <2>1, <2>2
<1>9. CASE k = key
  <2>1. r \in S
    BY <1>2, <1>9 DEF RequestsOf
  <2>2. d[r] = c[r] + cents /\ \A q \in S : q # r => d[q] = c[q]
    BY <1>7, <2>1 DEF Billed, RequestsOf
  <2> HIDE DEF c, d, S
  <2>3. Total(d) + c[r] = Total(c) + d[r] /\ Total(c) \in Nat /\ Total(d) \in Nat
    BY <1>6, <2>1, <2>2, TotalStep
  <2>4. Total(d) = Total(c) + cents
    BY <1>3, <1>6, <2>1, <2>2, <2>3
  <2> QED
    BY <1>3, <1>4, <1>5, <1>9, <2>4 DEF c, d
<1> QED
  BY <1>8, <1>9

\* What bills nothing keeps it too.
LEMMA NoBillKeepsExact ==
  ASSUME SpendIsExact, UNCHANGED spent, \A q \in Requests : CostOf(q)' = CostOf(q)
  PROVE  SpendIsExact'
<1>1. SumsAreTotals /\ SumsAreTotals'
  BY CostsAreTotals, PTL
<1> SUFFICES ASSUME NEW k \in Keys
             PROVE  spent'[k] = IF Enabled THEN MapThenSumSet(CostOf, RequestsOf(k))' ELSE 0
  BY DEF SpendIsExact, RequestsOf, Enabled
<1>2. Costs(k)' = Costs(k)
  BY DEF Costs, RequestsOf
<1>3. spent[k] = IF Enabled THEN Total(Costs(k)) ELSE 0
  BY <1>1 DEF SpendIsExact, SumsAreTotals, RequestsOf
<1>4. MapThenSumSet(CostOf, RequestsOf(k))' = Total(Costs(k)')
  BY <1>1 DEF SumsAreTotals
<1> QED
  BY <1>2, <1>3, <1>4

\* A worker's step and a stutter bill nothing.
LEMMA WorkBillsNothing ==
  ASSUME \/ \E w \in Workers : Work(w)
         \/ UNCHANGED gatewayVars
  PROVE  /\ UNCHANGED <<spent, pc, reply>>
         /\ \A q \in Requests : CostOf(q)' = CostOf(q)
<1>1. UNCHANGED <<spent, pc, reply>>
  <2>1. CASE \E w \in Workers : Work(w)
    BY <2>1 DEF Work, Idle, CallbackObserves, CallbackInserts, handlerVars
  <2>2. CASE UNCHANGED gatewayVars
    BY <2>2 DEF gatewayVars, handlerVars
  <2> QED
    BY <2>1, <2>2
<1>2. \A q \in Requests : CostOf(q)' = CostOf(q)
  BY <1>1 DEF CostOf, Embedded, Paid
<1> QED
  BY <1>1, <1>2

\* At the start nothing is billed and nothing cost anything.
LEMMA SpendStartsExact == GatewayInit => SpendIsExact
<1> SUFFICES ASSUME GatewayInit, NEW k \in Keys
             PROVE  spent[k] = IF Enabled THEN MapThenSumSet(CostOf, RequestsOf(k)) ELSE 0
  BY DEF SpendIsExact, RequestsOf
<1>1. spent = [key \in Keys |-> 0] /\ pc = [r \in Requests |-> "new"]
  BY DEF GatewayInit, BudgetInit
<1>2. \A r \in Requests : CostOf(r) = 0
  BY <1>1 DEF CostOf, Embedded, Paid
<1>3. MapThenSumSet(CostOf, RequestsOf(k)) = Total(Costs(k))
  BY CostsAreTotals DEF SumsAreTotals
<1> DEFINE S == RequestsOf(k)
           c == Costs(k)
<1>4. IsFiniteSet(S) /\ c \in [S -> Nat]
  BY CostFacts
<1>5. \A x \in S : c[x] = 0
  BY <1>2 DEF Costs, RequestsOf
<1> HIDE DEF S, c
<1>6. Total(c) = 0
  BY <1>4, <1>5, TotalOfZero
<1> QED
  BY <1>1, <1>3, <1>6 DEF c

\* Every step of the gateway keeps the spend exact.
LEMMA GatewayStepKeepsExact ==
  GatewayInv /\ SpendIsExact /\ [GatewayNext]_gatewayVars => SpendIsExact'
<1> SUFFICES ASSUME GatewayInv, SpendIsExact, [GatewayNext]_gatewayVars PROVE SpendIsExact'
  OBVIOUS
<1>1. ASSUME NEW r \in Requests, Arrive(r) \/ Handle(r) PROVE SpendIsExact'
  BY <1>1, RequestStepBills, BillKeepsExact, NoBillKeepsExact
<1>2. CASE (\E w \in Workers : Work(w)) \/ UNCHANGED gatewayVars
  BY <1>2, WorkBillsNothing, NoBillKeepsExact
<1> QED
  BY <1>1, <1>2 DEF GatewayNext

\* A key is billed for each embedding and each learned-from backend call of its own
\* requests, and for nothing else (recordEmbedUsage, recordBackendUsage).
THEOREM SpendIsAlwaysExact == GatewaySpec => []SpendIsExact
BY GatewayInvariant, SpendStartsExact, GatewayStepKeepsExact, PTL DEF GatewaySpec

-----------------------------------------------------------------------------
\* The gauge is only watched: beside it every step is the gateway's.
LEMMA BesideTheGauge == [SpendNext]_spendVars => [GatewayNext]_gatewayVars
BY DEF SpendNext, HandlerStep, ReadRemaining, SetGauge, WorkerStepBeside, GatewayNext, spendVars

\* Type correctness of the gauge and of the memory of concurrency: nothing is refreshed
\* without budgets.
SpendTypeOK ==
  /\ gauge \in [Keys -> Nat \cup {Unset}]
  /\ refresh \in [Requests -> {"no", "read", "set"}]
  /\ reading \in [Requests -> Nat]
  /\ peak \in [Keys -> Nat]

\* No more of a key's requests are unsettled than ever were.
PeakInv == \A k \in Keys : Cardinality(Unsettled(k)) <= peak[k]

\* What the gauge shows, or is about to, is at least what remains ...
GaugeInv ==
  \A k \in Keys :
     /\ gauge[k] # Unset => gauge[k] >= Remaining(k)
     /\ \A r \in RequestsOf(k) : refresh[r] = "set" => reading[r] >= Remaining(k)

\* ... and no more than that while the key's requests come one after the other: between
\* a bill and the gauge's Set, the request that was billed is the only one.
ExactInv ==
  \A k \in Keys : peak[k] <= 1 =>
     /\ \A r \in RequestsOf(k) : refresh[r] = "set" => reading[r] = Remaining(k)
     /\ (\A r \in RequestsOf(k) : refresh[r] = "no") /\ gauge[k] # Unset => gauge[k] = Remaining(k)

\* What the handler of r may still bill its key.
Owe(r) ==
  CASE pc[r] = "embed" -> EmbedPrice[Ask[r].model] + ChatPrice[Ask[r].model]
    [] pc[r] \in {"lookup", "fetch", "account"} -> ChatPrice[Ask[r].model]
    [] OTHER -> 0
Owes(k) == [r \in RequestsOf(k) |-> Owe(r)]

\* A key's spend, with what its requests may still add, is within its ceiling but for
\* the most that so many concurrent requests cost.
CeilingInv ==
  Enabled => \A k \in Keys : spent[k] + Total(Owes(k)) <= Ceiling - 1 + peak[k] * MaxCost

SpendInv == GatewayInv /\ SpendTypeOK /\ PeakInv /\ GaugeInv /\ ExactInv /\ CeilingInv

\* A longer row of the same number is no less.
LEMMA TimesMore ==
  ASSUME NEW a \in Nat, NEW b \in Nat, NEW m \in Nat, a <= b
  PROVE  a * m \in Nat /\ b * m \in Nat /\ a * m <= b * m
<1>1. PICK d \in Nat : b = a + d
  <2>1. b - a \in Nat /\ b = a + (b - a)
    OBVIOUS
  <2> QED
    BY <2>1
<1>2. a * m \in Nat /\ d * m \in Nat /\ (a + d) * m = a * m + d * m
  OBVIOUS
<1> QED
  BY <1>1, <1>2

\* The memory of concurrency only grows.
LEMMA PeakGrows ==
  ASSUME SpendTypeOK, Remember
  PROVE  /\ peak' \in [Keys -> Nat]
         /\ \A k \in Keys : peak[k] <= peak'[k] /\ Cardinality(Unsettled(k)') <= peak'[k]
<1>1. \A k \in Keys : Cardinality(Unsettled(k)') \in Nat /\ peak[k] \in Nat
  <2>1. \A k \in Keys : Unsettled(k)' \subseteq Requests
    BY DEF Unsettled
  <2> QED
    BY <2>1, SetsOfRequests DEF SpendTypeOK
<1>2. ASSUME NEW k \in Keys
      PROVE  /\ peak'[k] \in Nat /\ peak[k] <= peak'[k]
             /\ Cardinality(Unsettled(k)') <= peak'[k]
  <2>1. PICK n \in Nat : n = Cardinality(Unsettled(k)')
    BY <1>1
  <2>2. peak'[k] = Max({peak[k], n})
    BY <2>1 DEF Remember
  <2> QED
    BY <1>1, <2>1, <2>2, MaxOfTwo
<1>3. DOMAIN peak' = Keys
  BY DEF Remember
<1>4. peak' = [k \in Keys |-> peak'[k]]
  BY DEF Remember
<1> QED
  BY <1>2, <1>3, <1>4

\* What a step of r's handler bills leaves r owing that much less; other requests owe
\* what they owed, and other keys are not billed.
LEMMA HandlePaysOff ==
  ASSUME GatewayInv, NEW r \in Requests, Handle(r)
  PROVE  /\ \E cents \in Nat : Add(Ask[r].key, cents) /\ Owe(r)' + cents <= Owe(r)
         /\ Owe(r) \in Nat /\ Owe(r)' \in Nat
<1>1. pc \in [Requests -> Steps] /\ spent \in [Keys -> Nat]
  BY DEF GatewayInv, GatewayTypeOK
<1>2. PICK e, c : e = EmbedPrice[Ask[r].model] /\ c = ChatPrice[Ask[r].model] /\ e \in Nat /\ c \in Nat
  BY AskFacts
<1>3. Owe(r) = (CASE pc[r] = "embed" -> e + c [] pc[r] \in {"lookup", "fetch", "account"} -> c [] OTHER -> 0)
  BY <1>2 DEF Owe
<1>4. Owe(r)' = (CASE pc'[r] = "embed" -> e + c [] pc'[r] \in {"lookup", "fetch", "account"} -> c [] OTHER -> 0)
  BY <1>2 DEF Owe
<1>5. Owe(r) \in Nat /\ Owe(r)' \in Nat
  BY <1>2, <1>3, <1>4
<1>6. CASE EmbedReturns(r)
  <2>1. Add(Ask[r].key, e) /\ pc[r] = "embed" /\ pc'[r] = "lookup"
    BY <1>1, <1>2, <1>6 DEF EmbedReturns, Goto
  <2>2. Owe(r)' + e <= Owe(r)
    BY <1>2, <1>3, <1>4, <2>1
  <2> QED
    BY <1>2, <1>5, <2>1, <2>2
<1>7. CASE Account(r)
  <2>1. Add(Ask[r].key, c) /\ pc[r] = "account" /\ pc'[r] = "learn"
    BY <1>1, <1>2, <1>7 DEF Account, Goto
  <2>2. Owe(r)' + c <= Owe(r)
    BY <1>2, <1>3, <1>4, <2>1
  <2> QED
    BY <1>2, <1>5, <2>1, <2>2
<1>8. CASE ~EmbedReturns(r) /\ ~Account(r)
  <2>1. UNCHANGED spent
    BY <1>8, RequestStepBills
  <2>2. Add(Ask[r].key, 0)
    BY <1>1, <2>1, AskFacts DEF Add
  <2>3. \/ pc'[r] \in {"passthrough", "hit", "learn", "done"}
        \/ pc[r] \in {"lookup", "fetch"} /\ pc'[r] \in {"fetch", "account"}
    BY <1>1, <1>8 DEF Handle, Passthrough, EmbedFails, Lookup, LookupFindsNothing,
       ServeHit, FetchFails, FetchReturns, ColdInsert, SubmitForLabel, Goto
  <2>4. Owe(r)' + 0 <= Owe(r)
    BY <1>2, <1>3, <1>4, <2>3
  <2> QED
    BY <1>5, <2>2, <2>4
<1> QED
  BY <1>6, <1>7, <1>8

\* Two elements make two.
LEMMA TwoOrMore ==
  ASSUME NEW S, IsFiniteSet(S), NEW x \in S, NEW y \in S, x # y
  PROVE  Cardinality(S) >= 2
<1>1. Cardinality(S) \in Nat
  BY FS_CardinalityType
<1>2. Cardinality(S) # 0
  BY FS_EmptySet
<1>3. Cardinality(S) # 1
  BY FS_Singleton
<1> QED
  BY <1>1, <1>2, <1>3

\* What remains is a number of cents, as long as spend is one.
LEMMA RemainingFacts ==
  ASSUME NEW k \in Keys, spent[k] \in Nat, spent'[k] \in Nat
  PROVE  /\ Remaining(k) \in Nat /\ Remaining(k)' \in Nat
         /\ spent'[k] >= spent[k] => Remaining(k)' <= Remaining(k)
         /\ spent'[k] = spent[k] => Remaining(k)' = Remaining(k)
BY BudgetAssumption DEF Remaining, Enabled

\* A request's step adds to the spend of its own key, and only where the gauge is
\* refreshed after it.
LEMMA SpendGrows ==
  ASSUME GatewayInv, NEW r \in Requests, Arrive(r) \/ Handle(r)
  PROVE  /\ \A k \in Keys : spent[k] \in Nat /\ spent'[k] \in Nat /\ spent'[k] >= spent[k]
         /\ \A k \in Keys : k # Ask[r].key => spent'[k] = spent[k]
         /\ ~Bills(r) => UNCHANGED spent
<1>1. spent \in [Keys -> Nat] /\ pc \in [Requests -> Steps]
  BY DEF GatewayInv, GatewayTypeOK
<1>2. CASE UNCHANGED spent
  BY <1>1, <1>2
<1>3. ASSUME NEW cents, Billed(r, cents), EmbedReturns(r) \/ Account(r)
      PROVE  /\ \A k \in Keys : spent[k] \in Nat /\ spent'[k] \in Nat /\ spent'[k] >= spent[k]
             /\ \A k \in Keys : k # Ask[r].key => spent'[k] = spent[k]
             /\ ~Bills(r) => UNCHANGED spent
  <2>1. /\ cents \in Nat
        /\ spent' = IF Enabled THEN [spent EXCEPT ![Ask[r].key] = @ + cents] ELSE spent
    BY <1>3 DEF Billed, Add
  <2>2. Enabled => Bills(r)
    BY <1>1, <1>3 DEF Bills, EmbedReturns, Account, Goto
  <2> QED
    BY <1>1, <2>1, <2>2
<1> QED
  BY <1>2, <1>3, RequestStepBills

\* Whose gauge and whose spend a handler's step touches: with one request of a key at a
\* time, the request that is billed finds no other about to set the gauge.
LEMMA HandlerStepKeepsGauge ==
  ASSUME SpendInv, NEW r \in Requests, HandlerStep(r)
  PROVE  GaugeInv' /\ ExactInv'
<1>1. /\ gauge \in [Keys -> Nat \cup {Unset}] /\ reading \in [Requests -> Nat]
      /\ refresh \in [Requests -> {"no", "read", "set"}] /\ peak \in [Keys -> Nat]
  BY DEF SpendInv, SpendTypeOK
<1>2. /\ refresh[r] = "no" /\ UNCHANGED <<gauge, reading>>
      /\ refresh' = [refresh EXCEPT ![r] = IF Bills(r) THEN "read" ELSE "no"]
      /\ Arrive(r) \/ Handle(r)
  BY DEF HandlerStep
<1>3. \A k \in Keys : /\ spent[k] \in Nat /\ spent'[k] \in Nat /\ spent'[k] >= spent[k]
                      /\ k # Ask[r].key => spent'[k] = spent[k]
                      /\ ~Bills(r) => spent'[k] = spent[k]
  BY <1>2, SpendGrows DEF SpendInv
<1>4. \A k \in Keys : /\ Remaining(k) \in Nat /\ Remaining(k)' \in Nat /\ Remaining(k)' <= Remaining(k)
                      /\ k # Ask[r].key \/ ~Bills(r) => Remaining(k)' = Remaining(k)
  BY <1>3, RemainingFacts
<1>5. \A q \in Requests : refresh'[q] = "set" => q # r /\ refresh[q] = "set"
  BY <1>1, <1>2
<1>6. GaugeInv'
  <2>1. \A k \in Keys : gauge[k] \in Nat \cup {Unset} /\ gauge'[k] = gauge[k]
    BY <1>1, <1>2
  <2>2. \A q \in Requests : reading[q] \in Nat /\ reading'[q] = reading[q]
    BY <1>1, <1>2
  <2> QED
    BY <1>4, <1>5, <2>1, <2>2 DEF SpendInv, GaugeInv, RequestsOf, Unset
<1>7. \A k \in Keys : peak[k] \in Nat /\ peak'[k] \in Nat /\ peak[k] <= peak'[k] /\ Cardinality(Unsettled(k)') <= peak'[k]
  BY <1>1, PeakGrows DEF HandlerStep, SpendInv
<1>8. ASSUME NEW k \in Keys, peak'[k] <= 1
      PROVE  /\ \A q \in RequestsOf(k) : refresh'[q] = "set" => reading'[q] = Remaining(k)'
             /\ (\A q \in RequestsOf(k) : refresh'[q] = "no") /\ gauge'[k] # Unset => gauge'[k] = Remaining(k)'
  <2>1. peak[k] <= 1
    BY <1>7, <1>8
  <2>2. CASE k = Ask[r].key /\ Bills(r)
    <3>1. refresh'[r] = "read" /\ r \in RequestsOf(k)
      BY <1>1, <1>2, <2>2 DEF RequestsOf
    <3>2. ASSUME NEW q \in RequestsOf(k), refresh'[q] = "set"
          PROVE  FALSE
      <4>1. q # r /\ {q, r} \subseteq Unsettled(k)'
        BY <3>1, <3>2 DEF RequestsOf, Unsettled
      <4>2. IsFiniteSet(Unsettled(k)')
        BY SetsOfRequests DEF Unsettled
      <4>3. Cardinality(Unsettled(k)') >= 2
        BY <4>1, <4>2, TwoOrMore
      <4>4. Cardinality(Unsettled(k)') \in Nat
        BY <4>2, FS_CardinalityType
      <4> QED
        BY <1>7, <1>8, <4>3, <4>4
    <3> QED
      BY <3>1, <3>2
  <2>3. CASE k # Ask[r].key \/ ~Bills(r)
    <3>1. Remaining(k)' = Remaining(k) /\ gauge'[k] = gauge[k]
      BY <1>2, <1>4, <2>3
    <3>2. \A q \in RequestsOf(k) : q \in Requests /\ refresh'[q] = refresh[q] /\ reading'[q] = reading[q]
      BY <1>1, <1>2, <2>3 DEF RequestsOf
    <3> QED
      BY <2>1, <3>1, <3>2 DEF SpendInv, ExactInv
  <2> QED
    BY <2>2, <2>3
<1>9. ExactInv'
  BY <1>8 DEF ExactInv, RequestsOf
<1> QED
  BY <1>6, <1>9

\* The first half of a refresh: nothing else happens while the lock is held.
LEMMA ReadKeepsGauge ==
  ASSUME SpendInv, NEW r \in Requests, ReadRemaining(r)
  PROVE  GaugeInv' /\ ExactInv' /\ reading' \in [Requests -> Nat]
<1>1. /\ gauge \in [Keys -> Nat \cup {Unset}] /\ reading \in [Requests -> Nat]
      /\ refresh \in [Requests -> {"no", "read", "set"}] /\ peak \in [Keys -> Nat]
  BY DEF SpendInv, SpendTypeOK
<1>2. PICK key \in Keys : key = Ask[r].key
  BY AskFacts
<1>3. /\ reading' = [reading EXCEPT ![r] = Remaining(key)] /\ refresh' = [refresh EXCEPT ![r] = "set"]
      /\ UNCHANGED <<spent, gauge, peak>>
  BY <1>2 DEF ReadRemaining, gatewayVars
<1>4. \A k \in Keys : Remaining(k) \in Nat /\ Remaining(k)' = Remaining(k) /\ gauge'[k] = gauge[k] /\ peak'[k] = peak[k]
  <2>1. \A k \in Keys : spent[k] \in Nat /\ spent'[k] = spent[k]
    BY <1>3 DEF SpendInv, GatewayInv, GatewayTypeOK
  <2> QED
    BY <1>3, <2>1, RemainingFacts
<1>5. r \in RequestsOf(key) /\ \A k \in Keys : r \in RequestsOf(k) => k = key
  BY <1>2 DEF RequestsOf
<1>6. /\ refresh'[r] = "set" /\ reading'[r] = Remaining(key)
      /\ \A q \in Requests : q # r => refresh'[q] = refresh[q] /\ reading'[q] = reading[q]
  BY <1>1, <1>3
<1>7. ASSUME NEW k \in Keys, NEW q \in RequestsOf(k), refresh'[q] = "set"
      PROVE  reading'[q] >= Remaining(k)' /\ (peak'[k] <= 1 => reading'[q] = Remaining(k)')
  <2>1. CASE q = r
    BY <1>4, <1>5, <1>6, <1>7, <2>1
  <2>2. CASE q # r
    <3>1. q \in Requests
      BY DEF RequestsOf
    <3> QED
      BY <1>4, <1>6, <1>7, <2>2, <3>1 DEF SpendInv, GaugeInv, ExactInv
  <2> QED
    BY <2>1, <2>2
<1>8. ASSUME NEW k \in Keys, gauge'[k] # Unset
      PROVE  gauge'[k] >= Remaining(k)'
  BY <1>4, <1>8 DEF SpendInv, GaugeInv
<1>9. ASSUME NEW k \in Keys, peak'[k] <= 1, \A q \in RequestsOf(k) : refresh'[q] = "no", gauge'[k] # Unset
      PROVE  gauge'[k] = Remaining(k)'
  <2>1. k # key
    BY <1>5, <1>6, <1>9
  <2>2. \A q \in RequestsOf(k) : refresh[q] = "no"
    BY <1>2, <1>6, <1>9, <2>1 DEF RequestsOf
  <2> QED
    BY <1>4, <1>9, <2>2 DEF SpendInv, ExactInv
<1>10. GaugeInv' /\ ExactInv'
  BY <1>7, <1>8, <1>9 DEF GaugeInv, ExactInv, RequestsOf
<1>11. reading' \in [Requests -> Nat]
  BY <1>1, <1>2, <1>3, <1>4
<1> QED
  BY <1>10, <1>11

\* The second half: what it sets may be stale by now, but not below what remains, and
\* not stale at all where the key has no other request.
LEMMA SetKeepsGauge ==
  ASSUME SpendInv, NEW r \in Requests, SetGauge(r)
  PROVE  GaugeInv' /\ ExactInv'
<1>1. /\ gauge \in [Keys -> Nat \cup {Unset}] /\ reading \in [Requests -> Nat]
      /\ refresh \in [Requests -> {"no", "read", "set"}] /\ peak \in [Keys -> Nat]
  BY DEF SpendInv, SpendTypeOK
<1>2. PICK key \in Keys : key = Ask[r].key
  BY AskFacts
<1>3. /\ refresh[r] = "set" /\ gauge' = [gauge EXCEPT ![key] = reading[r]]
      /\ reading' = [reading EXCEPT ![r] = 0] /\ refresh' = [refresh EXCEPT ![r] = "no"]
      /\ UNCHANGED <<spent, peak>>
  BY <1>2 DEF SetGauge, gatewayVars
<1>4. \A k \in Keys : Remaining(k) \in Nat /\ Remaining(k)' = Remaining(k) /\ peak'[k] = peak[k]
  <2>1. \A k \in Keys : spent[k] \in Nat /\ spent'[k] = spent[k]
    BY <1>3 DEF SpendInv, GatewayInv, GatewayTypeOK
  <2> QED
    BY <1>3, <2>1, RemainingFacts
<1>5. gauge'[key] = reading[r] /\ \A k \in Keys : k # key => gauge'[k] = gauge[k]
  BY <1>1, <1>3
<1>6. refresh'[r] = "no" /\ \A q \in Requests : q # r => refresh'[q] = refresh[q] /\ reading'[q] = reading[q]
  BY <1>1, <1>3
<1>7. ASSUME NEW k \in Keys, NEW q \in RequestsOf(k), refresh'[q] = "set"
      PROVE  reading'[q] >= Remaining(k)' /\ (peak'[k] <= 1 => reading'[q] = Remaining(k)')
  <2>1. q \in Requests /\ q # r
    BY <1>6, <1>7 DEF RequestsOf
  <2> QED
    BY <1>4, <1>6, <1>7, <2>1 DEF SpendInv, GaugeInv, ExactInv
<1>8. r \in RequestsOf(key)
  BY <1>2 DEF RequestsOf
<1>9. ASSUME NEW k \in Keys, gauge'[k] # Unset
      PROVE  gauge'[k] >= Remaining(k)'
  <2>1. CASE k = key
    BY <1>3, <1>4, <1>5, <1>8, <2>1 DEF SpendInv, GaugeInv
  <2>2. CASE k # key
    BY <1>4, <1>5, <1>9, <2>2 DEF SpendInv, GaugeInv
  <2> QED
    BY <2>1, <2>2
<1>10. ASSUME NEW k \in Keys, peak'[k] <= 1, \A q \in RequestsOf(k) : refresh'[q] = "no", gauge'[k] # Unset
       PROVE  gauge'[k] = Remaining(k)'
  <2>1. CASE k = key
    BY <1>3, <1>4, <1>5, <1>8, <1>10, <2>1 DEF SpendInv, ExactInv
  <2>2. CASE k # key
    <3>1. \A q \in RequestsOf(k) : refresh[q] = "no"
      BY <1>2, <1>6, <1>10, <2>2 DEF RequestsOf
    <3> QED
      BY <1>4, <1>5, <1>10, <2>2, <3>1 DEF SpendInv, ExactInv
  <2> QED
    BY <2>1, <2>2
<1> QED
  BY <1>7, <1>9, <1>10 DEF GaugeInv, ExactInv, RequestsOf

\* A refresh never makes another request unsettled.
LEMMA RefreshSettles ==
  ASSUME SpendInv, NEW r \in Requests, ReadRemaining(r) \/ SetGauge(r)
  PROVE  PeakInv'
<1>1. UNCHANGED <<pc, peak>> /\ \A q \in Requests : refresh'[q] # "no" => refresh[q] # "no"
  BY DEF ReadRemaining, SetGauge, gatewayVars, handlerVars, SpendInv, SpendTypeOK
<1> SUFFICES ASSUME NEW k \in Keys
             PROVE  Cardinality(Unsettled(k)') <= peak'[k]
  BY DEF PeakInv
<1>2. Unsettled(k)' \subseteq Unsettled(k) /\ IsFiniteSet(Unsettled(k))
  BY <1>1, SetsOfRequests DEF Unsettled
<1>3. Cardinality(Unsettled(k)') <= Cardinality(Unsettled(k))
  BY <1>2, FS_Subset
<1>4. Cardinality(Unsettled(k)') \in Nat /\ Cardinality(Unsettled(k)) \in Nat
  BY SetsOfRequests DEF Unsettled
<1> QED
  BY <1>1, <1>3, <1>4 DEF SpendInv, SpendTypeOK, PeakInv

\* What a request may still owe is a number of cents, at most what one request costs, and
\* nothing once it is settled.
LEMMA OweFacts ==
  /\ \A r \in Requests : Owe(r) \in Nat /\ Owe(r) <= MaxCost
  /\ \A k \in Keys : Owes(k) \in [RequestsOf(k) -> Nat]
  /\ \A k \in Keys : \A r \in RequestsOf(k) : r \notin Unsettled(k) => Owe(r) = 0
<1>1. ASSUME NEW r \in Requests PROVE Owe(r) \in Nat /\ Owe(r) <= MaxCost
  <2>1. PICK e, c : e = EmbedPrice[Ask[r].model] /\ c = ChatPrice[Ask[r].model] /\ e \in Nat /\ c \in Nat
    BY AskFacts
  <2>2. MaxCost \in Nat /\ c + e <= MaxCost
    BY <2>1, MaxCostFacts
  <2>3. Owe(r) \in {e + c, c, 0}
    BY <2>1 DEF Owe
  <2> QED
    BY <2>1, <2>2, <2>3
<1>2. \A k \in Keys : Owes(k) \in [RequestsOf(k) -> Nat]
  BY <1>1 DEF Owes, RequestsOf
<1>3. \A k \in Keys : \A r \in RequestsOf(k) : r \notin Unsettled(k) => Owe(r) = 0
  BY DEF RequestsOf, Unsettled, Owe
<1> QED
  BY <1>1, <1>2, <1>3

\* The requests of a key owe at most what so many requests cost.
OwesAreBounded == \A k \in Keys : /\ Total(Owes(k)) \in Nat
                                  /\ Total(Owes(k)) <= Cardinality(Unsettled(k)) * MaxCost

\* At every moment.
LEMMA FewOweMuch == OwesAreBounded
<1> SUFFICES ASSUME NEW k \in Keys
             PROVE  /\ Total(Owes(k)) \in Nat
                    /\ Total(Owes(k)) <= Cardinality(Unsettled(k)) * MaxCost
  BY DEF OwesAreBounded
<1> DEFINE S == RequestsOf(k)
           T == Unsettled(k)
           c == Owes(k)
<1>1. IsFiniteSet(S) /\ c \in [S -> Nat] /\ T \in SUBSET S
  BY OweFacts, SetsOfRequests DEF RequestsOf, Unsettled
<1>2. PICK m \in Nat : m = MaxCost
  <2>1. PICK r \in Requests : TRUE
    BY LabelerAssumption, GatewayAssumption DEF LabelJobs
  <2> QED
    BY <2>1, MaxCostFacts
<1>3. \A x \in S : c[x] <= IF x \in T THEN m ELSE 0
  BY <1>2, OweFacts DEF Owes, RequestsOf
<1> HIDE DEF S, T, c
<1>4. Total(c) <= Cardinality(T) * m
  BY <1>1, <1>3, TotalBound
<1>5. Total(c) \in Nat
  BY <1>1, TotalFacts, SumFacts
<1> QED
  BY <1>2, <1>4, <1>5 DEF c, T

\* Where a step of r's handler leaves a key's spend and debts, but for one just admitted.
LEMMA HandleStaysUnder ==
  ASSUME GatewayInv, NEW r \in Requests, Handle(r), NEW k \in Keys
  PROVE  spent'[k] + Total(Owes(k)') <= spent[k] + Total(Owes(k))
<1>1. PICK cents \in Nat : Add(Ask[r].key, cents) /\ Owe(r)' + cents <= Owe(r) /\ Owe(r) \in Nat /\ Owe(r)' \in Nat
  BY HandlePaysOff
<1>2. spent \in [Keys -> Nat]
  BY DEF GatewayInv, GatewayTypeOK
<1>3. \A q \in Requests : q # r => Owe(q)' = Owe(q)
  BY OthersStand DEF Owe
<1> DEFINE S == RequestsOf(k)
           c == Owes(k)
           d == Owes(k)'
<1>4. IsFiniteSet(S) /\ c \in [S -> Nat]
  BY OweFacts, SetsOfRequests DEF RequestsOf
<1>5. d \in [S -> Nat]
  <2>1. \A q \in Requests : Owe(q)' \in Nat
    BY <1>1, <1>3, OweFacts
  <2> QED
    BY <2>1 DEF Owes, RequestsOf
<1>6. \A q \in S : q \in Requests /\ c[q] = Owe(q) /\ d[q] = Owe(q)'
  BY DEF Owes, RequestsOf
<1>7. CASE r \in S
  <2>1. Ask[r].key = k
    BY <1>7 DEF RequestsOf
  <2>2. spent[k] \in Nat /\ spent'[k] \in Nat /\ spent'[k] <= spent[k] + cents
    BY <1>1, <1>2, <2>1 DEF Add
  <2>3. \A x \in S : x # r => d[x] = c[x]
    BY <1>3, <1>6
  <2>4. d[r] + cents <= c[r] /\ c[r] \in Nat /\ d[r] \in Nat
    BY <1>1, <1>6, <1>7
  <2> HIDE DEF S, c, d
  <2>5. Total(d) + c[r] = Total(c) + d[r] /\ Total(c) \in Nat /\ Total(d) \in Nat
    BY <1>4, <1>5, <1>7, <2>3, TotalStep
  <2>6. spent'[k] + Total(d) <= spent[k] + Total(c)
    BY <2>2, <2>4, <2>5
  <2> QED
    BY <2>6 DEF c, d
<1>8. CASE r \notin S
  <2>1. Ask[r].key # k
    BY <1>8 DEF RequestsOf
  <2>2. spent'[k] = spent[k] /\ spent[k] \in Nat
    BY <1>1, <1>2, <2>1 DEF Add
  <2>3. d = c
    BY <1>3, <1>6, <1>8 DEF Owes, RequestsOf
  <2>4. Total(c) \in Nat
    BY FewOweMuch DEF OwesAreBounded
  <2> QED
    BY <2>2, <2>3, <2>4
<1> QED
  BY <1>7, <1>8

\* A request is admitted below the ceiling, and from then on is one of the unsettled.
LEMMA ArriveStaysUnder ==
  ASSUME GatewayInv, NEW r \in Requests, Arrive(r), NEW k \in Keys, Enabled
  PROVE  \/ spent'[k] = spent[k] /\ Owes(k)' = Owes(k)
         \/ spent'[k] = spent[k] /\ spent[k] <= Ceiling - 1
<1>1. pc \in [Requests -> Steps] /\ spent \in [Keys -> Nat] /\ pc[r] = "new" /\ UNCHANGED spent
  BY DEF GatewayInv, GatewayTypeOK, Arrive, Reject, Admit
<1>2. \A q \in Requests : q # r => Owe(q)' = Owe(q)
  BY OthersStand DEF Owe
<1>3. CASE r \notin RequestsOf(k) \/ pc'[r] \in {"done", "passthrough"}
  <2>1. \A q \in RequestsOf(k) : Owe(q)' = Owe(q)
    BY <1>1, <1>2, <1>3 DEF Owe, RequestsOf
  <2> QED
    BY <1>1, <2>1 DEF Owes, RequestsOf
<1>4. CASE r \in RequestsOf(k) /\ pc'[r] \notin {"done", "passthrough"}
  <2>1. Admit(r)
    BY <1>1, <1>4 DEF Arrive, Reject, Goto
  <2>2. Ask[r].key = k
    BY <1>4 DEF RequestsOf
  <2>3. ~OverBudget(k)
    BY <2>1, <2>2 DEF Admit, Screen
  <2> QED
    BY <1>1, <2>3, BudgetAssumption DEF OverBudget
<1> QED
  BY <1>3, <1>4

\* So a handler's step keeps a key within its bound.
LEMMA HandlerStepKeepsCeiling ==
  ASSUME SpendInv, NEW r \in Requests, HandlerStep(r)
  PROVE  CeilingInv'
<1> SUFFICES ASSUME Enabled, NEW k \in Keys
             PROVE  spent'[k] + Total(Owes(k)') <= Ceiling - 1 + peak'[k] * MaxCost
  BY DEF CeilingInv, Enabled
<1>1. GatewayInv /\ (Arrive(r) \/ Handle(r)) /\ Ceiling \in Int
  BY BudgetAssumption DEF HandlerStep, SpendInv
<1>2. OwesAreBounded /\ OwesAreBounded'
  BY FewOweMuch, PTL
<1>3. PICK m \in Nat : m = MaxCost
  BY MaxCostFacts
<1>4. PICK p \in Nat, n \in Nat, u \in Nat :
        /\ p = peak[k] /\ n = peak'[k] /\ u = Cardinality(Unsettled(k)') /\ p <= n /\ u <= n
  <2>1. peak[k] \in Nat /\ peak'[k] \in Nat /\ peak[k] <= peak'[k] /\ Cardinality(Unsettled(k)') <= peak'[k]
    BY PeakGrows DEF HandlerStep, SpendInv, SpendTypeOK
  <2>2. Cardinality(Unsettled(k)') \in Nat
    BY SetsOfRequests DEF Unsettled
  <2> QED
    BY <2>1, <2>2
<1>5. p * m \in Nat /\ n * m \in Nat /\ u * m \in Nat /\ p * m <= n * m /\ u * m <= n * m
  BY <1>4, TimesMore
<1>6. PICK a \in Nat, b \in Nat : a = Total(Owes(k)) /\ b = Total(Owes(k)')
  BY <1>2 DEF OwesAreBounded
<1>7. b <= u * m
  BY <1>2, <1>3, <1>4, <1>6 DEF OwesAreBounded
<1>8. spent[k] \in Nat /\ spent'[k] \in Nat
  BY <1>1, SpendGrows
<1>9. spent[k] + a <= Ceiling - 1 + p * m
  BY <1>3, <1>4, <1>6 DEF SpendInv, CeilingInv
<1>10. spent'[k] + b <= spent[k] + a \/ (spent'[k] = spent[k] /\ spent[k] <= Ceiling - 1)
  <2>1. CASE Handle(r)
    BY <1>1, <1>6, <2>1, HandleStaysUnder
  <2>2. CASE Arrive(r)
    BY <1>1, <1>6, <1>8, <2>2, ArriveStaysUnder
  <2> QED
    BY <1>1, <2>1, <2>2
<1>11. spent'[k] + b <= Ceiling - 1 + n * m
  BY <1>1, <1>5, <1>7, <1>8, <1>9, <1>10
<1> QED
  BY <1>3, <1>4, <1>6, <1>11

\* Whatever neither moves a handler nor bills leaves the bound alone.
LEMMA CeilingStands ==
  ASSUME CeilingInv, UNCHANGED <<pc, spent, peak>>
  PROVE  CeilingInv'
<1>1. \A k : Owes(k)' = Owes(k)
  BY DEF Owes, RequestsOf, Owe
<1> QED
  BY <1>1 DEF CeilingInv, Enabled

\* And what does not refresh either leaves all of the gauge alone.
LEMMA GaugeStands ==
  ASSUME SpendInv, UNCHANGED <<pc, spent, gauge, refresh, reading, peak>>
  PROVE  SpendTypeOK' /\ PeakInv' /\ GaugeInv' /\ ExactInv' /\ CeilingInv'
<1>1. \A k : Unsettled(k)' = Unsettled(k) /\ Remaining(k)' = Remaining(k)
  BY DEF Unsettled, Remaining
<1> QED
  BY <1>1, CeilingStands DEF SpendInv, SpendTypeOK, PeakInv, GaugeInv, ExactInv, RequestsOf

\* At the start no key owes anything and no gauge is set.
LEMMA SpendInitInv == SpendInit => SpendInv
<1> SUFFICES ASSUME SpendInit PROVE SpendInv
  OBVIOUS
<1>1. /\ gauge = [k \in Keys |-> Unset] /\ refresh = [r \in Requests |-> "no"]
      /\ reading = [r \in Requests |-> 0] /\ peak = [k \in Keys |-> 0]
      /\ spent = [k \in Keys |-> 0] /\ pc = [r \in Requests |-> "new"]
  BY DEF SpendInit, GatewayInit, BudgetInit
<1>2. GatewayInv
  BY GatewayInitInv DEF SpendInit
<1>3. \A k \in Keys : Unsettled(k) = {}
  BY <1>1 DEF Unsettled
<1>4. SpendTypeOK /\ PeakInv /\ GaugeInv /\ ExactInv
  BY <1>1, <1>3, FS_EmptySet DEF SpendTypeOK, PeakInv, GaugeInv, ExactInv, RequestsOf
<1>5. ASSUME Enabled, NEW k \in Keys
      PROVE  spent[k] + Total(Owes(k)) <= Ceiling - 1 + peak[k] * MaxCost
  <2>1. PICK m \in Nat : m = MaxCost
    <3>1. PICK r \in Requests : TRUE
      BY LabelerAssumption, GatewayAssumption DEF LabelJobs
    <3> QED
      BY <3>1, MaxCostFacts
  <2>2. Total(Owes(k)) \in Nat /\ Total(Owes(k)) <= Cardinality({}) * m
    BY <1>3, <2>1, FewOweMuch DEF OwesAreBounded
  <2>3. 0 * m = 0
    BY <2>1
  <2>4. spent[k] = 0 /\ peak[k] = 0 /\ Ceiling \in Int /\ Ceiling > 0
    BY <1>1, <1>5, BudgetAssumption DEF Enabled
  <2>5. Total(Owes(k)) = 0
    BY <2>2, <2>3, FS_EmptySet
  <2> QED
    BY <2>1, <2>3, <2>4, <2>5
<1> QED
  BY <1>2, <1>4, <1>5 DEF SpendInv, CeilingInv

\* Every step keeps what the gauge, the peak and the spend have to do with each other.
LEMMA SpendNextInv == SpendInv /\ [SpendNext]_spendVars => SpendInv'
<1> SUFFICES ASSUME SpendInv, [SpendNext]_spendVars PROVE SpendInv'
  OBVIOUS
<1>1. GatewayInv'
  BY BesideTheGauge, GatewayNextInv DEF SpendInv
<1>2. ASSUME NEW r \in Requests, HandlerStep(r)
      PROVE  SpendTypeOK' /\ PeakInv' /\ GaugeInv' /\ ExactInv' /\ CeilingInv'
  <2>1. PeakInv' /\ peak' \in [Keys -> Nat]
    BY <1>2, PeakGrows DEF HandlerStep, SpendInv, PeakInv
  <2>2. SpendTypeOK'
    BY <1>2, <2>1 DEF HandlerStep, SpendInv, SpendTypeOK
  <2> QED
    BY <1>2, <2>1, <2>2, HandlerStepKeepsGauge, HandlerStepKeepsCeiling
<1>3. ASSUME NEW r \in Requests, ReadRemaining(r)
      PROVE  SpendTypeOK' /\ PeakInv' /\ GaugeInv' /\ ExactInv' /\ CeilingInv'
  <2>1. UNCHANGED <<pc, spent, peak, gauge>> /\ refresh' = [refresh EXCEPT ![r] = "set"]
    BY <1>3 DEF ReadRemaining, gatewayVars, handlerVars
  <2>2. SpendTypeOK'
    BY <1>3, <2>1, ReadKeepsGauge DEF SpendInv, SpendTypeOK
  <2> QED
    BY <1>3, <2>1, <2>2, ReadKeepsGauge, RefreshSettles, CeilingStands DEF SpendInv
<1>4. ASSUME NEW r \in Requests, SetGauge(r)
      PROVE  SpendTypeOK' /\ PeakInv' /\ GaugeInv' /\ ExactInv' /\ CeilingInv'
  <2>1. UNCHANGED <<pc, spent, peak>>
    BY <1>4 DEF SetGauge, gatewayVars, handlerVars
  <2>2. SpendTypeOK'
    BY <1>4, <2>1, AskFacts DEF SetGauge, SpendInv, SpendTypeOK
  <2> QED
    BY <1>4, <2>1, <2>2, SetKeepsGauge, RefreshSettles, CeilingStands DEF SpendInv
<1>5. ASSUME (\E w \in Workers : WorkerStepBeside(w)) \/ UNCHANGED spendVars
      PROVE  SpendTypeOK' /\ PeakInv' /\ GaugeInv' /\ ExactInv' /\ CeilingInv'
  <2>1. UNCHANGED <<pc, spent>>
    BY <1>5, WorkBillsNothing DEF WorkerStepBeside, spendVars
  <2>2. UNCHANGED <<gauge, refresh, reading, peak>>
    BY <1>5 DEF WorkerStepBeside, spendVars, gaugeVars
  <2> QED
    BY <2>1, <2>2, GaugeStands
<1>6. SpendNext \/ UNCHANGED spendVars
  OBVIOUS
<1>7. SpendTypeOK' /\ PeakInv' /\ GaugeInv' /\ ExactInv' /\ CeilingInv'
  BY <1>2, <1>3, <1>4, <1>5, <1>6 DEF SpendNext
<1> QED
  BY <1>1, <1>7 DEF SpendInv

\* Spend, gauge and concurrency agree throughout.
THEOREM SpendInvariant == SpendSpec => []SpendInv
BY SpendInitInv, SpendNextInv, PTL DEF SpendSpec

\* A key exceeds its ceiling by what its concurrent requests cost and by no more, for every
\* price table (budgetMiddleware checks before, recordBackendUsage bills after).
THEOREM OverspendIsBounded == SpendSpec => []OverspendBounded
<1>1. ASSUME SpendInv, Enabled, NEW k \in Keys
      PROVE  spent[k] <= Ceiling - 1 + peak[k] * MaxCost
  <2>1. PICK x : x = Ceiling - 1 + peak[k] * MaxCost
    OBVIOUS
  <2>2. x \in Int
    <3>1. PICK r \in Requests : TRUE
      BY LabelerAssumption, GatewayAssumption DEF LabelJobs
    <3>2. PICK m \in Nat, p \in Nat : m = MaxCost /\ p = peak[k]
      BY <1>1, <3>1, MaxCostFacts DEF SpendInv, SpendTypeOK
    <3> QED
      BY <2>1, <3>2, BudgetAssumption
  <2>3. spent[k] \in Nat /\ Total(Owes(k)) \in Nat
    BY <1>1, FewOweMuch DEF OwesAreBounded, SpendInv, GatewayInv, GatewayTypeOK
  <2>4. spent[k] + Total(Owes(k)) <= x
    BY <1>1, <2>1 DEF SpendInv, CeilingInv
  <2> QED
    BY <2>1, <2>2, <2>3, <2>4
<1>2. SpendInv => OverspendBounded
  BY <1>1 DEF OverspendBounded
<1> QED
  BY <1>2, SpendInvariant, PTL

\* The exported gauge never shows less than remains, and shows exactly that once a key's
\* requests came one after the other (updateBudgetGauge).
THEOREM GaugeAlwaysTracks == SpendSpec => []GaugeTracksBudget
<1>1. ASSUME SpendInv, NEW k \in Keys, gauge[k] # Unset
      PROVE  /\ gauge[k] >= Remaining(k)
             /\ peak[k] <= 1 /\ Unsettled(k) = {} => gauge[k] = Remaining(k)
  <2>1. Unsettled(k) = {} => \A r \in RequestsOf(k) : refresh[r] = "no"
    BY DEF Unsettled, RequestsOf
  <2> QED
    BY <1>1, <2>1 DEF SpendInv, GaugeInv, ExactInv
<1>2. SpendInv => GaugeTracksBudget
  BY <1>1 DEF GaugeTracksBudget
<1> QED
  BY <1>2, SpendInvariant, PTL

\* Watching the gauge changes nothing of what is billed.
THEOREM SpendStaysExact == SpendSpec => []SpendIsExact
<1>1. SpendInit => SpendIsExact
  BY SpendStartsExact DEF SpendInit
<1>2. SpendInv /\ SpendIsExact /\ [SpendNext]_spendVars => SpendIsExact'
  BY BesideTheGauge, GatewayStepKeepsExact DEF SpendInv
<1> QED
  BY <1>1, <1>2, SpendInvariant, PTL DEF SpendSpec

\* The gateway keeps its promise with budgets enforced and a gauge kept beside it.
THEOREM SpendKeepsPromise == SpendSpec => ImplementsVerifiedCache
<1>1. SpendInit => Promise!PromiseInit
  BY PromiseStarts DEF SpendInit
<1>2. SpendInv /\ SpendInv' /\ [SpendNext]_spendVars => [Promise!PromiseNext]_Promise!promiseVars
  BY BesideTheGauge, StepSimulates DEF SpendInv
<1> QED
  BY <1>1, <1>2, SpendInvariant, PTL DEF SpendSpec, ImplementsVerifiedCache, Promise!PromiseSpec
=============================================================================
