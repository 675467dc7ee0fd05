-------------------------------- MODULE Labeler --------------------------------
(***************************************************************************)
(* The asynchronous labeler (internal/judge/labeler.go): a bounded queue,  *)
(* a pool of workers, a judge that may be slow or fail, and a shutdown     *)
(* that closes the queue and waits for the workers.                        *)
(***************************************************************************)
EXTENDS Integers, FiniteSets, SequencesExt

CONSTANTS
  Jobs,         \* labeling tasks; each is submitted at most once
  Equivalent,   \* what a judge that answers says of a job's two texts
  QueueSize,    \* NewLabeler's arguments, not yet clamped
  WorkerCount

ASSUME LabelerAssumption ==
  /\ Jobs # {}
  /\ Equivalent \in [Jobs -> BOOLEAN]
  /\ QueueSize \in Int /\ WorkerCount \in Int

QueueCap == IF QueueSize < 1 THEN 1 ELSE QueueSize
Workers  == 1 .. (IF WorkerCount < 1 THEN 1 ELSE WorkerCount)

VARIABLES
  queue,    \* the channel's buffer
  phase,    \* phase[w]: where worker w is in its loop
  job,      \* job[w]: the job worker w works on, while it is busy
  verdict,  \* verdict[w]: what it will hand to OnResult
  closing,  \* "open", "closing" (Close waits for the workers) or "closed"
  outcome,  \* outcome[j]: what became of the Submit of job j
  labels    \* labels[j]: the verdicts OnResult of job j was called with

labelerVars == <<queue, phase, job, verdict, closing, outcome, labels>>

Phases == {"receive", "judging", "callback", "exited"}
Busy   == {w \in Workers : phase[w] \in {"judging", "callback"}}

LabelerInit ==
  /\ queue = << >>
  /\ phase = [w \in Workers |-> "receive"]
  /\ job = [w \in Workers |-> CHOOSE j \in Jobs : TRUE]  \* unread before the first receive
  /\ verdict = [w \in Workers |-> FALSE]
  /\ closing = "open"
  /\ outcome = [j \in Jobs |-> "new"]
  /\ labels = [j \in Jobs |-> << >>]

\* Mutant: room is tested with <=.
BugSubmit(j) ==
  /\ outcome[j] = "new" /\ closing = "open"
  /\ IF Len(queue) <= QueueCap
     THEN queue' = Append(queue, j) /\ outcome' = [outcome EXCEPT ![j] = "accepted"]
     ELSE outcome' = [outcome EXCEPT ![j] = "dropped"] /\ UNCHANGED queue
  /\ UNCHANGED <<phase, job, verdict, closing, labels>>

\* The non-blocking send: enqueue, or drop and count when the buffer is full; a
\* send on a closed channel panics whether or not the buffer has room.
Submit(j) ==
  /\ outcome[j] = "new"
  /\ \/ /\ closing # "open"
        /\ outcome' = [outcome EXCEPT ![j] = "panicked"]
        /\ UNCHANGED queue
     \/ /\ closing = "open" /\ Len(queue) < QueueCap
        /\ queue' = Append(queue, j)
        /\ outcome' = [outcome EXCEPT ![j] = "accepted"]
     \/ /\ closing = "open" /\ Len(queue) >= QueueCap
        /\ outcome' = [outcome EXCEPT ![j] = "dropped"]
        /\ UNCHANGED queue
  /\ UNCHANGED <<phase, job, verdict, closing, labels>>

\* "for job := range l.queue": the loop takes the next job, also after the
\* channel was closed, as long as one is buffered ...
Receive(w) ==
  /\ phase[w] = "receive" /\ queue # << >>
  /\ job' = [job EXCEPT ![w] = Head(queue)]
  /\ queue' = Tail(queue)
  /\ phase' = [phase EXCEPT ![w] = "judging"]
  /\ UNCHANGED <<verdict, closing, outcome, labels>>

\* Mutant: the worker checks for the shutdown before it drains the queue.
BugExit(w) ==
  /\ phase[w] = "receive" /\ closing # "open"
  /\ phase' = [phase EXCEPT ![w] = "exited"]
  /\ UNCHANGED <<queue, job, verdict, closing, outcome, labels>>

\* ... and ends when it is closed and empty.
Exit(w) ==
  /\ phase[w] = "receive" /\ closing # "open" /\ queue = << >>
  /\ phase' = [phase EXCEPT ![w] = "exited"]
  /\ UNCHANGED <<queue, job, verdict, closing, outcome, labels>>

\* Mutants: a judge error ends the worker, without and with its wg.Done.
BugDiesOnError(w, answer) ==
  /\ phase[w] = "judging"
  /\ phase' = [phase EXCEPT ![w] = IF answer = "error" THEN "dead" ELSE "callback"]
  /\ verdict' = [verdict EXCEPT ![w] = answer = "answer" /\ Equivalent[job[w]]]
  /\ UNCHANGED <<queue, job, closing, outcome, labels>>

BugReturnsOnError(w, answer) ==
  /\ phase[w] = "judging"
  /\ phase' = [phase EXCEPT ![w] = IF answer = "error" THEN "exited" ELSE "callback"]
  /\ verdict' = [verdict EXCEPT ![w] = answer = "answer" /\ Equivalent[job[w]]]
  /\ UNCHANGED <<queue, job, closing, outcome, labels>>

\* Mutant: a failed judgement passes for a positive one.
BugTrustsError(w, answer) ==
  /\ phase[w] = "judging"
  /\ phase' = [phase EXCEPT ![w] = "callback"]
  /\ verdict' = [verdict EXCEPT ![w] = answer = "error" \/ Equivalent[job[w]]]
  /\ UNCHANGED <<queue, job, closing, outcome, labels>>

\* The judge answers or fails; a failure counts as "not equivalent".
JudgeReturns(w, answer) ==
  /\ phase[w] = "judging"
  /\ phase' = [phase EXCEPT ![w] = "callback"]
  /\ verdict' = [verdict EXCEPT ![w] = answer = "answer" /\ Equivalent[job[w]]]
  /\ UNCHANGED <<queue, job, closing, outcome, labels>>

\* OnResult has run; the worker goes back to its queue.
CallbackReturns(w) ==
  /\ phase[w] = "callback"
  /\ labels' = [labels EXCEPT ![job[w]] = Append(@, verdict[w])]
  /\ phase' = [phase EXCEPT ![w] = "receive"]
  /\ UNCHANGED <<queue, job, verdict, closing, outcome>>

\* Mutant: Close discards what is still queued.
BugClose ==
  /\ closing = "open"
  /\ closing' = "closing"
  /\ queue' = << >>
  /\ UNCHANGED <<phase, job, verdict, outcome, labels>>

\* Close: close(queue), then wg.Wait until every worker has ended.
Close ==
  /\ closing = "open"
  /\ closing' = "closing"
  /\ UNCHANGED <<queue, phase, job, verdict, outcome, labels>>

\* Mutant: Close does not wait for the workers.
BugCloseReturns ==
  /\ closing = "closing"
  /\ closing' = "closed"
  /\ UNCHANGED <<queue, phase, job, verdict, outcome, labels>>

CloseReturns ==
  /\ closing = "closing" /\ \A w \in Workers : phase[w] = "exited"
  /\ closing' = "closed"
  /\ UNCHANGED <<queue, phase, job, verdict, outcome, labels>>

WorkerStep(w) ==
  \/ Receive(w)
  \/ Exit(w)
  \/ \E answer \in {"answer", "error"} : JudgeReturns(w, answer)
  \/ CallbackReturns(w)

LabelerNext ==
  \/ \E j \in Jobs : Submit(j)
  \/ \E w \in Workers : WorkerStep(w)
  \/ Close \/ CloseReturns

\* Workers are goroutines the scheduler keeps running, the judge's calls return
\* (it has no timeout of its own), and Close, once called, wakes up when it can.
\* Nothing is assumed of the callers of Submit and Close.
LabelerFairness == (\A w \in Workers : WF_labelerVars(WorkerStep(w))) /\ WF_labelerVars(CloseReturns)

LabelerSpec == LabelerInit /\ [][LabelerNext]_labelerVars /\ LabelerFairness

-----------------------------------------------------------------------------
\* Type correctness, with the bound on the queue.
LabelerTypeOK ==
  /\ queue \in Seq(Jobs) /\ Len(queue) <= QueueCap
  /\ phase \in [Workers -> Phases]
  /\ job \in [Workers -> Jobs]
  /\ verdict \in [Workers -> BOOLEAN]
  /\ closing \in {"open", "closing", "closed"}
  /\ outcome \in [Jobs -> {"new", "accepted", "dropped", "panicked"}]
  /\ labels \in [Jobs -> Seq(BOOLEAN)]

Accepted == {j \in Jobs : outcome[j] = "accepted"}
Labelled == {j \in Jobs : labels[j] # << >>}
Held     == {job[w] : w \in Busy}

\* An accepted job is in exactly one place, once: waiting in the queue, with one
\* worker, or labelled by one call of OnResult.  A dropped job is nowhere: no
\* entry learns twice from one request and none from a job that was dropped.
JobConservation ==
  /\ Accepted = Range(queue) \cup Held \cup Labelled
  /\ Range(queue) \cap Held = {} /\ Labelled \cap (Range(queue) \cup Held) = {}
  /\ IsInjective(queue)
  /\ \A w1, w2 \in Busy : w1 # w2 => job[w1] # job[w2]
  /\ \A j \in Jobs : Len(labels[j]) <= 1

\* When Close returns, every job Submit ever accepted has been labelled: what the
\* comment on Close ("waits for in-flight jobs to finish") promises.
CloseDrains == closing = "closed" => Accepted = Labelled

\* Every accepted job is labelled in the end, also when the judge fails, other
\* jobs overtake it and the labeler is closed meanwhile.
EveryAcceptedJobLabelled == \A j \in Jobs : j \in Accepted ~> j \in Labelled

\* Close returns, whatever was queued when it was called.
CloseTerminates == closing = "closing" ~> closing = "closed"
=============================================================================
