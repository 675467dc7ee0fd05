------------------------------- MODULE Lifecycle -------------------------------
(***************************************************************************)
(* The life of the process (run in cmd/semblance/main.go): the gateway     *)
(* serves until a signal arrives or the listener fails; a signal starts a  *)
(* graceful shutdown, bounded by ShutdownTimeout; the deferred gw.Close    *)
(* then drains the labeler, and the process ends with whatever handlers    *)
(* are still running and whatever responses are still in a buffer.         *)
(***************************************************************************)
EXTENDS Gateway

VARIABLES
  main,  \* "serving", "draining" (in srv.Shutdown), "closing" (returning), "exited"
  exit,  \* why run returns: "none" as long as it does not, "clean", "timeout" or "failed"
  sent   \* the requests whose response net/http has ended, with what its buffer held

lifecycleVars == <<gatewayVars, main, exit, sent>>

LifecycleInit == GatewayInit /\ main = "serving" /\ exit = "none" /\ sent = {}

\* A connection is active until its response has ended, not until its handler has answered.
InFlight == {r \in Requests : pc[r] # "new" /\ r \notin sent}

Returns(why) == main' = "closing" /\ exit' = why

Signal ==
  /\ main = "serving" /\ main' = "draining"
  /\ UNCHANGED <<gatewayVars, exit, sent>>

\* Mutant: ListenAndServe's error is taken for the end of a clean shutdown.
BugListenerFails == main = "serving" /\ Returns("none") /\ UNCHANGED <<gatewayVars, sent>>

ListenerFails == main = "serving" /\ Returns("failed") /\ UNCHANGED <<gatewayVars, sent>>

\* Mutant: srv.Close instead of srv.Shutdown: nobody waits for the handlers.
BugDrained == main = "draining" /\ Returns("clean") /\ UNCHANGED <<gatewayVars, sent>>

\* srv.Shutdown returns once no connection is active, or when its time is up.
Drained == main = "draining" /\ InFlight = {} /\ Returns("clean") /\ UNCHANGED <<gatewayVars, sent>>

DrainTimesOut == main = "draining" /\ Returns("timeout") /\ UNCHANGED <<gatewayVars, sent>>

\* The deferred gw.Close: close the queue, then wait for the workers.
CloseGateway ==
  /\ main = "closing" /\ Close
  /\ UNCHANGED <<storeVars, spent, handlerVars, half, main, exit, sent>>

GatewayClosed ==
  /\ main = "closing" /\ CloseReturns
  /\ UNCHANGED <<storeVars, spent, handlerVars, half, main, exit, sent>>

ProcessExits ==
  /\ main = "closing" /\ closing = "closed" /\ main' = "exited"
  /\ UNCHANGED <<gatewayVars, exit, sent>>

\* A connection that was accepted may still bring its request, unless Shutdown has
\* seen all connections closed.
ArriveWhileUp(r) == main # "exited" /\ exit # "clean" /\ Arrive(r) /\ UNCHANGED <<main, exit, sent>>
HandleWhileUp(r) == main # "exited" /\ Handle(r) /\ UNCHANGED <<main, exit, sent>>
WorkWhileUp(w)   == main # "exited" /\ Work(w) /\ UNCHANGED <<main, exit, sent>>

\* net/http ends the response of a handler that has returned: a short answer, and one
\* whose handler panics after it, has been in a buffer until now.
ResponseEnds(r) ==
  /\ main # "exited" /\ pc[r] = "done" /\ r \notin sent
  /\ sent' = sent \cup {r}
  /\ UNCHANGED <<gatewayVars, main, exit>>

Main == Signal \/ ListenerFails \/ Drained \/ DrainTimesOut \/ CloseGateway \/ GatewayClosed \/ ProcessExits

LifecycleNext ==
  \/ \E r \in Requests : ArriveWhileUp(r) \/ HandleWhileUp(r) \/ ResponseEnds(r)
  \/ \E w \in Workers : WorkWhileUp(w)
  \/ Main

\* Shutdown's deadline expires, main runs on once it has a reason to return, and
\* the judge answers its calls.  No signal need come and no handler need finish.
LifecycleFairness ==
  /\ WF_lifecycleVars(Drained \/ DrainTimesOut)
  /\ WF_lifecycleVars(CloseGateway) /\ WF_lifecycleVars(GatewayClosed) /\ WF_lifecycleVars(ProcessExits)
  /\ \A w \in Workers : WF_lifecycleVars(WorkWhileUp(w))

LifecycleSpec == LifecycleInit /\ [][LifecycleNext]_lifecycleVars /\ LifecycleFairness

-----------------------------------------------------------------------------
\* Type correctness: run has a reason exactly when it is returning, and the
\* labeler is open until then.
LifecycleTypeOK ==
  /\ main \in {"serving", "draining", "closing", "exited"}
  /\ exit \in {"none", "clean", "timeout", "failed"}
  /\ sent \subseteq {r \in Requests : pc[r] = "done"}
  /\ exit = "none" <=> main \in {"serving", "draining"}
  /\ closing # "open" => exit # "none"

\* After "server stopped cleanly" every request that arrived has its whole answer, out
\* of the buffers too, and every explore the labeler accepted has taught the store:
\* nothing was lost to the shutdown (the drain of gw.Close, deferred behind
\* srv.Shutdown).
CleanShutdownLosesNothing ==
  main = "exited" /\ exit = "clean" =>
     /\ \A r \in Requests : pc[r] = "new" \/ (r \in sent /\ reply[r] # "none")
     /\ Accepted = Labelled
     /\ \A r \in Requests : found[r] # NoMatch /\ reply[r] = "miss" => outcome[JobOf(r)] \in {"accepted", "dropped"}

\* A shutdown by timeout or by a failing listener may cut off answers, in a fetch or in
\* a buffer, but every label that was accepted still reaches the store before the
\* process ends, and the lesson of a handler that panics in Submit is lost whole:
\* no entry holds its answer or its label (gw.Close deferred in run,
\* exploreWithNeighbor, GuardedInsert).
AnyShutdownKeepsAccepted ==
  /\ main = "exited" => Accepted = Labelled
  /\ \A j \in Jobs : outcome[j] = "panicked" =>
        /\ exit \in {"timeout", "failed"}
        /\ \A id \in DOMAIN entries :
              /\ entries[id].resp # j[1]
              /\ \A i \in DOMAIN entries[id].obs : entries[id].obs[i].by # j[1]

\* Once told to stop, the process ends, with labels queued or not.
ShutdownTerminates == main # "serving" ~> main = "exited"

\* The comments on Server.Close and Labeler.Close: "nothing submits to a closed
\* queue", callers "stop submitting first, which the gateway does during graceful
\* shutdown".
NoSubmitAfterClose == \A j \in Jobs : outcome[j] # "panicked"
=============================================================================
