----------------------------- MODULE LabelerProofs -----------------------------
(***************************************************************************)
(* The labeler loses and repeats no accepted job and drains before Close   *)
(* returns, for every number of jobs and workers and every queue size.     *)
(***************************************************************************)
EXTENDS Labeler, SequenceTheorems, TLAPS

\* A worker ends only when nothing is left to do, and Close returns only when
\* every worker has ended.
ExitsOnlyWhenDrained ==
  /\ \A w \in Workers : phase[w] = "exited" => closing # "open" /\ queue = << >>
  /\ closing = "closed" => \A w \in Workers : phase[w] = "exited"

LabelerInv == LabelerTypeOK /\ JobConservation /\ ExitsOnlyWhenDrained

\* The clamps of NewLabeler: room for one job and one worker at least.
LEMMA LabelerBounds == QueueCap \in Nat \ {0} /\ Workers # {} /\ 1 \in Workers
BY LabelerAssumption DEF QueueCap, Workers

\* Appending a new element to an injective sequence.
LEMMA AppendRange ==
  ASSUME NEW S, NEW s \in Seq(S), NEW e \in S, IsInjective(s), e \notin Range(s)
  PROVE  Range(Append(s, e)) = Range(s) \cup {e} /\ IsInjective(Append(s, e))
<1> DEFINE t == Append(s, e)
<1>1. /\ DOMAIN s = 1 .. Len(s) /\ DOMAIN t = 1 .. Len(s) + 1 /\ Len(s) \in Nat
      /\ \A i \in 1 .. Len(s) : t[i] = s[i]
      /\ t[Len(s) + 1] = e
  OBVIOUS
<1> HIDE DEF t
<1>2. ASSUME NEW x \in Range(t) PROVE x \in Range(s) \cup {e}
  BY <1>1 DEF Range
<1>3. ASSUME NEW x \in Range(s) PROVE x \in Range(t)
  <2>1. PICK i \in 1 .. Len(s) : x = s[i]
    BY <1>1 DEF Range
  <2>2. i \in DOMAIN t /\ x = t[i]
    BY <1>1, <2>1
  <2> QED
    BY <2>2 DEF Range
<1>4. e \in Range(t)
  <2>1. Len(s) + 1 \in DOMAIN t
    BY <1>1
  <2> QED
    BY <1>1, <2>1 DEF Range
<1>5. \A i \in 1 .. Len(s) : s[i] # e
  BY <1>1 DEF Range
<1>6. IsInjective(t)
  BY <1>1, <1>5 DEF IsInjective
<1> QED
  BY <1>2, <1>3, <1>4, <1>6 DEF t

\* Taking the head off an injective sequence.
LEMMA TailRange ==
  ASSUME NEW S, NEW s \in Seq(S), s # << >>, IsInjective(s)
  PROVE  /\ Head(s) \in S /\ Tail(s) \in Seq(S) /\ Len(Tail(s)) < Len(s)
         /\ Head(s) \notin Range(Tail(s))
         /\ Range(s) = Range(Tail(s)) \cup {Head(s)}
         /\ IsInjective(Tail(s))
<1> DEFINE t == Tail(s)
<1>1. /\ Head(s) \in S /\ t \in Seq(S) /\ Len(t) = Len(s) - 1 /\ Len(s) \in Nat \ {0}
      /\ Head(s) = s[1]
      /\ DOMAIN s = 1 .. Len(s) /\ DOMAIN t = 1 .. Len(s) - 1
      /\ \A i \in 1 .. Len(s) - 1 : t[i] = s[i + 1]
  OBVIOUS
<1> HIDE DEF t
<1>2. ASSUME NEW x \in Range(t) PROVE x \in Range(s) /\ x # Head(s)
  <2>1. PICK i \in 1 .. Len(s) - 1 : x = t[i]
    BY <1>1 DEF Range
  <2>2. x = s[i + 1] /\ i + 1 \in DOMAIN s /\ 1 \in DOMAIN s /\ i + 1 # 1
    BY <1>1, <2>1
  <2> QED
    BY <1>1, <2>2 DEF Range, IsInjective
<1>3. ASSUME NEW x \in Range(s) PROVE x \in Range(t) \cup {Head(s)}
  <2>1. PICK i \in 1 .. Len(s) : x = s[i]
    BY <1>1 DEF Range
  <2>2. CASE i = 1
    BY <1>1, <2>1, <2>2
  <2>3. CASE i # 1
    <3>1. i - 1 \in DOMAIN t /\ x = t[i - 1]
      BY <1>1, <2>1, <2>3
    <3> QED
      BY <3>1 DEF Range
  <2> QED
    BY <2>2, <2>3
<1>4. Head(s) \in Range(s)
  BY <1>1 DEF Range
<1>5. IsInjective(t)
  <2> SUFFICES ASSUME NEW i \in DOMAIN t, NEW k \in DOMAIN t, t[i] = t[k] PROVE i = k
    BY DEF IsInjective
  <2>1. i + 1 \in DOMAIN s /\ k + 1 \in DOMAIN s /\ s[i + 1] = s[k + 1]
    BY <1>1
  <2>2. i + 1 = k + 1
    BY <2>1 DEF IsInjective
  <2> QED
    BY <1>1, <2>2
<1> QED
  BY <1>1, <1>2, <1>3, <1>4, <1>5 DEF t

-----------------------------------------------------------------------------
\* Submit puts a new job in one place, or nowhere.
LEMMA SubmitKeepsInv ==
  ASSUME LabelerInv, NEW j \in Jobs, Submit(j)
  PROVE  LabelerInv'
<1> USE DEF LabelerInv
<1>1. /\ outcome[j] = "new" /\ j \notin Accepted
      /\ UNCHANGED <<phase, job, verdict, closing, labels>>
      /\ outcome \in [Jobs -> {"new", "accepted", "dropped", "panicked"}]
  BY DEF Submit, Accepted, LabelerTypeOK
<1>2. Held' = Held /\ Labelled' = Labelled /\ Busy' = Busy
  BY <1>1 DEF Held, Labelled, Busy
<1>3. CASE closing # "open"
  <2>1. queue' = queue /\ outcome' = [outcome EXCEPT ![j] = "panicked"]
    BY <1>3 DEF Submit
  <2>2. Accepted' = Accepted
    BY <1>1, <2>1 DEF Accepted
  <2>3. LabelerTypeOK'
    BY <1>1, <2>1 DEF LabelerTypeOK
  <2>4. JobConservation'
    BY <1>1, <1>2, <2>1, <2>2 DEF JobConservation
  <2> QED
    BY <1>1, <2>1, <2>3, <2>4 DEF ExitsOnlyWhenDrained
<1>4. CASE closing = "open" /\ Len(queue) >= QueueCap
  <2>1. queue' = queue /\ outcome' = [outcome EXCEPT ![j] = "dropped"]
    BY <1>4, LabelerBounds DEF Submit, LabelerTypeOK
  <2>2. Accepted' = Accepted
    BY <1>1, <2>1 DEF Accepted
  <2>3. LabelerTypeOK'
    BY <1>1, <2>1 DEF LabelerTypeOK
  <2>4. JobConservation'
    BY <1>1, <1>2, <2>1, <2>2 DEF JobConservation
  <2> QED
    BY <1>1, <2>1, <2>3, <2>4 DEF ExitsOnlyWhenDrained
<1>5. CASE closing = "open" /\ Len(queue) < QueueCap
  <2>1. queue' = Append(queue, j) /\ outcome' = [outcome EXCEPT ![j] = "accepted"]
    BY <1>5, LabelerBounds DEF Submit, LabelerTypeOK
  <2>2. Accepted' = Accepted \cup {j}
    BY <1>1, <2>1 DEF Accepted
  <2>3. j \notin Range(queue) /\ j \notin Held /\ j \notin Labelled
    BY <1>1 DEF JobConservation
  <2>4. queue \in Seq(Jobs) /\ IsInjective(queue)
    BY DEF LabelerTypeOK, JobConservation
  <2>5. Range(queue') = Range(queue) \cup {j} /\ IsInjective(queue')
    BY <2>1, <2>3, <2>4, AppendRange
  <2>6. LabelerTypeOK'
    BY <1>1, <1>5, <2>1, <2>4, LabelerBounds DEF LabelerTypeOK
  <2>7. JobConservation'
    BY <1>1, <1>2, <2>2, <2>3, <2>5 DEF JobConservation
  <2>8. \A w \in Workers : phase[w] # "exited"
    BY <1>5 DEF ExitsOnlyWhenDrained
  <2> QED
    BY <1>1, <1>5, <2>6, <2>7, <2>8 DEF ExitsOnlyWhenDrained
<1>6. closing # "open" \/ Len(queue) >= QueueCap \/ Len(queue) < QueueCap
  BY LabelerBounds DEF LabelerTypeOK
<1> QED
  BY <1>3, <1>4, <1>5, <1>6

\* Receive moves a job from the queue to one worker.
LEMMA ReceiveKeepsInv ==
  ASSUME LabelerInv, NEW w \in Workers, Receive(w)
  PROVE  LabelerInv'
<1> USE DEF LabelerInv
<1>1. /\ phase[w] = "receive" /\ queue # << >>
      /\ job' = [job EXCEPT ![w] = Head(queue)]
      /\ queue' = Tail(queue)
      /\ phase' = [phase EXCEPT ![w] = "judging"]
      /\ UNCHANGED <<verdict, closing, outcome, labels>>
  BY DEF Receive
<1>2. queue \in Seq(Jobs) /\ IsInjective(queue)
  BY DEF LabelerTypeOK, JobConservation
<1>3. /\ Head(queue) \in Jobs /\ Tail(queue) \in Seq(Jobs) /\ Len(Tail(queue)) < Len(queue)
      /\ Head(queue) \notin Range(queue')
      /\ Range(queue) = Range(queue') \cup {Head(queue)} /\ IsInjective(queue')
  BY <1>1, <1>2, TailRange
<1>4. /\ phase \in [Workers -> Phases] /\ job \in [Workers -> Jobs]
  BY DEF LabelerTypeOK
<1>5. /\ Busy' = Busy \cup {w} /\ w \notin Busy
      /\ \A v \in Busy : job'[v] = job[v]
      /\ job'[w] = Head(queue)
  BY <1>1, <1>4 DEF Busy
<1>6. Held' = Held \cup {Head(queue)}
  BY <1>5 DEF Held
<1>7. Accepted' = Accepted /\ Labelled' = Labelled
  BY <1>1 DEF Accepted, Labelled
<1>8. LabelerTypeOK'
  <2>1. Len(Tail(queue)) <= QueueCap
    BY <1>2, <1>3, LabelerBounds DEF LabelerTypeOK
  <2> QED
    BY <1>1, <1>3, <2>1 DEF LabelerTypeOK, Phases
<1>9. JobConservation'
  <2>1. ASSUME NEW w1 \in Busy', NEW w2 \in Busy', w1 # w2 PROVE job'[w1] # job'[w2]
    <3>1. \A v \in Busy : job[v] # Head(queue)
      BY <1>3 DEF JobConservation, Held
    <3> QED
      BY <2>1, <3>1, <1>5 DEF JobConservation
  <2>2. Head(queue) \notin Labelled /\ Head(queue) \notin Held
    BY <1>3 DEF JobConservation
  <2>3. /\ Accepted' = Range(queue') \cup Held' \cup Labelled'
        /\ Range(queue') \cap Held' = {}
        /\ Labelled' \cap (Range(queue') \cup Held') = {}
    BY <1>3, <1>6, <1>7, <2>2 DEF JobConservation
  <2>4. \A j \in Jobs : Len(labels'[j]) <= 1
    BY <1>1 DEF JobConservation
  <2> QED
    BY <1>3, <2>1, <2>3, <2>4 DEF JobConservation
<1>10. ExitsOnlyWhenDrained'
  BY <1>1, <1>4 DEF ExitsOnlyWhenDrained, Phases
<1> QED
  BY <1>8, <1>9, <1>10

\* A worker ends only on an empty queue.
LEMMA ExitKeepsInv ==
  ASSUME LabelerInv, NEW w \in Workers, Exit(w)
  PROVE  LabelerInv'
<1> USE DEF LabelerInv
<1>1. /\ phase[w] = "receive" /\ closing # "open" /\ queue = << >>
      /\ phase' = [phase EXCEPT ![w] = "exited"]
      /\ UNCHANGED <<queue, job, verdict, closing, outcome, labels>>
      /\ phase \in [Workers -> Phases]
  BY DEF Exit, LabelerTypeOK
<1>2. Busy' = Busy
  BY <1>1 DEF Busy
<1>3. Held' = Held /\ Accepted' = Accepted /\ Labelled' = Labelled
  BY <1>1, <1>2 DEF Held, Accepted, Labelled
<1>4. LabelerTypeOK'
  BY <1>1 DEF LabelerTypeOK, Phases
<1>5. JobConservation'
  BY <1>1, <1>2, <1>3 DEF JobConservation
<1>6. ExitsOnlyWhenDrained'
  BY <1>1 DEF ExitsOnlyWhenDrained
<1> QED
  BY <1>4, <1>5, <1>6

\* The judge changes what a worker will report and not which job it holds.
LEMMA JudgeKeepsInv ==
  ASSUME LabelerInv, NEW w \in Workers, NEW answer, JudgeReturns(w, answer)
  PROVE  LabelerInv'
<1> USE DEF LabelerInv
<1>1. /\ phase[w] = "judging"
      /\ phase' = [phase EXCEPT ![w] = "callback"]
      /\ UNCHANGED <<queue, job, closing, outcome, labels>>
      /\ phase \in [Workers -> Phases]
  BY DEF JudgeReturns, LabelerTypeOK
<1>2. verdict' \in [Workers -> BOOLEAN]
  <2>1. verdict' = [verdict EXCEPT ![w] = answer = "answer" /\ Equivalent[job[w]]]
    BY DEF JudgeReturns
  <2>2. (answer = "answer" /\ Equivalent[job[w]]) \in BOOLEAN
    OBVIOUS
  <2> QED
    BY <2>1, <2>2 DEF LabelerTypeOK
<1>3. Busy' = Busy
  BY <1>1 DEF Busy
<1>4. Held' = Held /\ Accepted' = Accepted /\ Labelled' = Labelled
  BY <1>1, <1>3 DEF Held, Accepted, Labelled
<1>5. LabelerTypeOK'
  BY <1>1, <1>2 DEF LabelerTypeOK, Phases
<1>6. JobConservation'
  BY <1>1, <1>3, <1>4 DEF JobConservation
<1>7. ExitsOnlyWhenDrained'
  BY <1>1 DEF ExitsOnlyWhenDrained
<1> QED
  BY <1>5, <1>6, <1>7

\* OnResult moves a job from its worker to the labelled ones.
LEMMA CallbackKeepsInv ==
  ASSUME LabelerInv, NEW w \in Workers, CallbackReturns(w)
  PROVE  LabelerInv'
<1> USE DEF LabelerInv
<1> DEFINE j == job[w]
<1>1. /\ phase[w] = "callback"
      /\ labels' = [labels EXCEPT ![j] = Append(@, verdict[w])]
      /\ phase' = [phase EXCEPT ![w] = "receive"]
      /\ UNCHANGED <<queue, job, verdict, closing, outcome>>
  BY DEF CallbackReturns
<1>2. /\ phase \in [Workers -> Phases] /\ job \in [Workers -> Jobs] /\ j \in Jobs
      /\ labels \in [Jobs -> Seq(BOOLEAN)] /\ verdict[w] \in BOOLEAN
  BY DEF LabelerTypeOK
<1>3. Busy' = Busy \ {w} /\ w \in Busy
  BY <1>1, <1>2 DEF Busy
<1>4. j \in Held /\ j \notin Labelled /\ j \notin Range(queue)
  BY <1>3 DEF Held, JobConservation
<1>5. Held' = Held \ {j}
  BY <1>1, <1>3 DEF Held, JobConservation
<1>6. labels[j] = << >>
  BY <1>2, <1>4 DEF Labelled
<1>7. labels' = [labels EXCEPT ![j] = <<verdict[w]>>]
  BY <1>1, <1>2, <1>6
<1> HIDE DEF j
<1>8. Labelled' = Labelled \cup {j} /\ Accepted' = Accepted
  BY <1>1, <1>2, <1>7 DEF Labelled, Accepted
<1>9. LabelerTypeOK'
  BY <1>1, <1>2, <1>7 DEF LabelerTypeOK, Phases
<1>10. JobConservation'
  <2>1. \A i \in Jobs : Len(labels'[i]) <= 1
    BY <1>2, <1>7 DEF JobConservation
  <2>2. \A w1, w2 \in Busy' : w1 # w2 => job'[w1] # job'[w2]
    BY <1>1, <1>3 DEF JobConservation
  <2>3. /\ Accepted' = Range(queue') \cup Held' \cup Labelled'
        /\ Range(queue') \cap Held' = {}
        /\ Labelled' \cap (Range(queue') \cup Held') = {}
    BY <1>1, <1>4, <1>5, <1>8 DEF JobConservation
  <2> QED
    BY <1>1, <2>1, <2>2, <2>3 DEF JobConservation
<1>11. ExitsOnlyWhenDrained'
  BY <1>1, <1>2 DEF ExitsOnlyWhenDrained
<1> QED
  BY <1>9, <1>10, <1>11

\* Close and its return move no job.
LEMMA ClosingKeepsInv ==
  ASSUME LabelerInv, Close \/ CloseReturns
  PROVE  LabelerInv'
<1> USE DEF LabelerInv
<1>1. /\ UNCHANGED <<queue, phase, job, verdict, outcome, labels>>
      /\ \/ closing = "open" /\ closing' = "closing"
         \/ closing' = "closed" /\ \A w \in Workers : phase[w] = "exited"
      /\ closing' # "open"
  BY DEF Close, CloseReturns
<1>2. Held' = Held /\ Accepted' = Accepted /\ Labelled' = Labelled /\ Busy' = Busy
  BY <1>1 DEF Held, Accepted, Labelled, Busy
<1>3. LabelerTypeOK'
  BY <1>1 DEF LabelerTypeOK
<1>4. JobConservation'
  BY <1>1, <1>2 DEF JobConservation
<1>5. ExitsOnlyWhenDrained'
  BY <1>1 DEF ExitsOnlyWhenDrained
<1> QED
  BY <1>3, <1>4, <1>5

\* A step that changes nothing keeps the invariant.
LEMMA LabelerStutterKeepsInv ==
  ASSUME LabelerInv, UNCHANGED labelerVars
  PROVE  LabelerInv'
BY DEF labelerVars, LabelerInv, LabelerTypeOK, JobConservation, ExitsOnlyWhenDrained,
       Accepted, Held, Labelled, Busy

\* No job is anywhere at the start.
LEMMA LabelerInitInv == LabelerInit => LabelerInv
<1> SUFFICES ASSUME LabelerInit PROVE LabelerInv
  OBVIOUS
<1>1. /\ queue = << >> /\ phase = [w \in Workers |-> "receive"]
      /\ job = [w \in Workers |-> CHOOSE j \in Jobs : TRUE]
      /\ verdict = [w \in Workers |-> FALSE] /\ closing = "open"
      /\ outcome = [j \in Jobs |-> "new"] /\ labels = [j \in Jobs |-> << >>]
  BY DEF LabelerInit
<1>2. (CHOOSE j \in Jobs : TRUE) \in Jobs
  BY LabelerAssumption
<1>3. LabelerTypeOK
  BY <1>1, <1>2, LabelerBounds DEF LabelerTypeOK, Phases
<1>4. Accepted = {} /\ Labelled = {} /\ Busy = {} /\ Held = {} /\ Range(queue) = {}
  BY <1>1 DEF Accepted, Labelled, Busy, Held, Range
<1>5. IsInjective(queue) /\ \A j \in Jobs : Len(labels[j]) <= 1
  BY <1>1 DEF IsInjective
<1>6. JobConservation
  BY <1>4, <1>5 DEF JobConservation
<1>7. ExitsOnlyWhenDrained
  BY <1>1 DEF ExitsOnlyWhenDrained
<1> QED
  BY <1>3, <1>6, <1>7 DEF LabelerInv

\* The invariant is inductive.
LEMMA LabelerNextInv == LabelerInv /\ [LabelerNext]_labelerVars => LabelerInv'
<1> SUFFICES ASSUME LabelerInv, [LabelerNext]_labelerVars PROVE LabelerInv'
  OBVIOUS
<1>1. ASSUME NEW j \in Jobs, Submit(j) PROVE LabelerInv'
  BY <1>1, SubmitKeepsInv
<1>2. ASSUME NEW w \in Workers, WorkerStep(w) PROVE LabelerInv'
  BY <1>2, ReceiveKeepsInv, ExitKeepsInv, JudgeKeepsInv, CallbackKeepsInv DEF WorkerStep
<1>3. CASE Close \/ CloseReturns
  BY <1>3, ClosingKeepsInv
<1>4. CASE UNCHANGED labelerVars
  BY <1>4, LabelerStutterKeepsInv
<1> QED
  BY <1>1, <1>2, <1>3, <1>4 DEF LabelerNext

\* The labeler's invariant holds in every reachable state.
THEOREM LabelerInvariant == LabelerSpec => []LabelerInv
  BY LabelerInitInv, LabelerNextInv, PTL DEF LabelerSpec

\* The queue never outgrows its size, and every worker is in its loop or done.
THEOREM LabelerTypeCorrect == LabelerSpec => []LabelerTypeOK
<1>1. LabelerInv => LabelerTypeOK
  BY DEF LabelerInv
<1> QED
  BY <1>1, LabelerInvariant, PTL

\* Whatever the judge answers and whoever submits while the labeler shuts down,
\* no accepted job is lost, duplicated or labelled twice.
THEOREM NoJobLostOrRepeated == LabelerSpec => []JobConservation
<1>1. LabelerInv => JobConservation
  BY DEF LabelerInv
<1> QED
  BY <1>1, LabelerInvariant, PTL

\* Every worker has ended, so nothing is queued and nothing is held.
LEMMA DrainedWhenClosed == LabelerInv => CloseDrains
<1> SUFFICES ASSUME LabelerInv, closing = "closed" PROVE Accepted = Labelled
  BY DEF CloseDrains
<1>1. \A w \in Workers : phase[w] = "exited"
  BY DEF LabelerInv, ExitsOnlyWhenDrained
<1>2. queue = << >>
  BY <1>1, LabelerBounds DEF LabelerInv, ExitsOnlyWhenDrained
<1>3. Range(queue) = {} /\ Held = {}
  BY <1>1, <1>2 DEF Range, Held, Busy
<1> QED
  BY <1>3 DEF LabelerInv, JobConservation

\* When Close has returned, every accepted job has been labelled.
THEOREM CloseReturnsDrained == LabelerSpec => []CloseDrains
BY LabelerInvariant, DrainedWhenClosed, PTL
=============================================================================
