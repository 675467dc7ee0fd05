----------------------------- MODULE GatewayProofs -----------------------------
(***************************************************************************)
(* What the gateway learns and what it serves, for every set of requests,  *)
(* every size of the store, the queue and the pool of workers, and every   *)
(* order in which handlers and workers take their steps.                   *)
(***************************************************************************)
EXTENDS Gateway, CacheStoreProofs, LabelerProofs, FiniteSetTheorems

\* Before its lookup a handler has no neighbor; behind its backend call the client
\* has its answer.
BeforeLookup == {"new", "embed", "lookup", "passthrough"}
Replied      == {"account", "learn"}

HandlersInv ==
  \A r \in Requests :
     /\ pc[r] \in BeforeLookup => found[r] = NoMatch
     /\ pc[r] \in Replied => reply[r] = "miss"
     /\ pc[r] \notin Replied \cup {"done"} => reply[r] = "none"
     /\ pc[r] = "hit" \/ reply[r] = "hit" => found[r] # NoMatch

\* What was submitted is the comparison of a request that has ended with the neighbor
\* it found.
JobsInv ==
  \A j \in Jobs : outcome[j] # "new" =>
     /\ found[j[1]] # NoMatch /\ j = JobOf(j[1])
     /\ pc[j[1]] = "done" /\ reply[j[1]] = "miss"

\* A positive verdict is a true one, from the judge to the store.
VerdictsInv ==
  /\ \A v \in Workers : phase[v] = "callback" /\ verdict[v] => SameAnswer[job[v]]
  /\ \A v \in Workers : half[v] = "insert" => phase[v] = "callback"
  /\ \A j \in Jobs : labels[j] # << >> => labels[j] = <<FALSE>> \/ (labels[j] = <<TRUE>> /\ SameAnswer[j])

\* What Nearest returned was issued, was planted, and still names the same entry or none.
MatchesInv ==
  \A r \in Requests : found[r] # NoMatch =>
     /\ found[r].id[2] <= counter[found[r].id[1]]
     /\ found[r].id \in DOMAIN entries =>
           entries[found[r].id].resp = found[r].of /\ entries[found[r].id].bucket = Ask[r].bucket
     /\ found[r].of \in Planted /\ Ask[found[r].of].bucket = Ask[r].bucket

SameEntrySameAnswer ==
  \A r, q \in Requests :
     found[r] # NoMatch /\ found[q] # NoMatch /\ found[r].id = found[q].id => found[r].of = found[q].of

EntriesInv == \A id \in DOMAIN entries : Ask[entries[id].resp].bucket = entries[id].bucket

HitsInv ==
  \A r \in Requests : pc[r] = "hit" \/ reply[r] = "hit" => Cardinality(LabelsOf(found[r].id)) >= NMin

LearningInv == MatchesInv /\ SameEntrySameAnswer /\ EntriesInv /\ LabelsReachTheirEntry /\ InsertsAreGuarded

GatewayInv ==
  /\ StoreInv /\ LabelerInv /\ GatewayTypeOK
  /\ HandlersInv /\ JobsInv /\ VerdictsInv /\ LearningInv /\ HitsInv

-----------------------------------------------------------------------------
\* A match is told from none by its ID.
LEMMA MatchFacts ==
  /\ NoMatch \in Matches
  /\ \A m \in Matches : m.of \in Requests /\ (m # NoMatch => m.id \in EntryIDs)
  /\ \A id \in EntryIDs, q \in Requests :
        /\ [id |-> id, of |-> q] \in Matches /\ [id |-> id, of |-> q] # NoMatch
<1>1. Requests # {}
  BY LabelerAssumption, GatewayAssumption DEF LabelJobs
<1>2. (CHOOSE r \in Requests : TRUE) \in Requests
  BY <1>1
<1>3. <<0, 0>> \notin EntryIDs
  BY DEF EntryIDs
<1> QED
  BY <1>2, <1>3 DEF Matches, NoMatch

\* The job of a request names the request and what it was compared with.
LEMMA JobFacts ==
  ASSUME GatewayTypeOK
  PROVE  \A r \in Requests : JobOf(r) \in Jobs /\ JobOf(r)[1] = r /\ JobOf(r)[2] = found[r].of
BY MatchFacts, GatewayAssumption DEF GatewayTypeOK, JobOf, LabelJobs

\* A job's two requests.
LEMMA JobsAreComparisons ==
  \A j \in Jobs : j[1] \in Requests /\ j[2] \in Requests /\ j = <<j[1], j[2]>>
BY GatewayAssumption DEF LabelJobs

\* What a worker holds was accepted, is not labelled and is held by no other.
LEMMA HeldJob ==
  ASSUME LabelerInv, NEW v \in Workers, phase[v] \in {"judging", "callback"}
  PROVE  /\ job[v] \in Jobs /\ outcome[job[v]] = "accepted" /\ labels[job[v]] = << >>
         /\ \A u \in Workers : u # v /\ phase[u] \in {"judging", "callback"} => job[u] # job[v]
<1>1. v \in Busy /\ job[v] \in Held /\ job[v] \in Jobs
  BY DEF Busy, Held, LabelerInv, LabelerTypeOK
<1>2. job[v] \in Accepted /\ job[v] \notin Labelled
  BY <1>1 DEF LabelerInv, JobConservation
<1>3. \A u \in Workers : u # v /\ phase[u] \in {"judging", "callback"} => job[u] # job[v]
  BY <1>1 DEF LabelerInv, JobConservation, Busy
<1> QED
  BY <1>1, <1>2, <1>3 DEF Accepted, Labelled

\* What is labelled was accepted.
LEMMA LabelledJob ==
  ASSUME LabelerInv, NEW j \in Jobs, labels[j] # << >>
  PROVE  outcome[j] = "accepted"
BY DEF LabelerInv, JobConservation, Accepted, Labelled

\* Only a request that has ended, with the backend's answer, is being labelled.
LEMMA LabelsAreOfEndedRequests ==
  ASSUME GatewayInv
  PROVE  /\ \A v \in Workers, r \in Requests : Labels(v, r) =>
               /\ found[r] # NoMatch /\ job[v] = JobOf(r) /\ pc[r] = "done" /\ reply[r] = "miss"
               /\ labels[JobOf(r)] = << >>
         /\ \A r \in Requests : labels[JobOf(r)] # << >> => pc[r] = "done" /\ reply[r] = "miss"
<1>1. ASSUME NEW v \in Workers, NEW r \in Requests, Labels(v, r)
      PROVE  /\ found[r] # NoMatch /\ job[v] = JobOf(r) /\ pc[r] = "done" /\ reply[r] = "miss"
             /\ labels[JobOf(r)] = << >>
  <2>1. phase[v] = "callback" /\ r = job[v][1]
    BY <1>1 DEF Labels
  <2>2. job[v] \in Jobs /\ outcome[job[v]] = "accepted" /\ labels[job[v]] = << >>
    BY <2>1, HeldJob DEF GatewayInv
  <2> QED
    BY <2>1, <2>2 DEF GatewayInv, JobsInv
<1>2. ASSUME NEW r \in Requests, labels[JobOf(r)] # << >>
      PROVE  pc[r] = "done" /\ reply[r] = "miss"
  <2>1. JobOf(r) \in Jobs /\ JobOf(r)[1] = r
    BY JobFacts DEF GatewayInv
  <2>2. outcome[JobOf(r)] = "accepted"
    BY <1>2, <2>1, LabelledJob DEF GatewayInv
  <2> QED
    BY <2>1, <2>2 DEF GatewayInv, JobsInv
<1> QED
  BY <1>1, <1>2

\* What has been offered, and what has been planted, is of ended requests.
LEMMA EndedFacts ==
  ASSUME GatewayInv
  PROVE  /\ \A r \in Requests : Offers(r) => pc[r] = "done" /\ reply[r] = "miss" /\ found[r] # NoMatch
         /\ \A r \in Planted : r \in Requests /\ pc[r] = "done" /\ reply[r] = "miss"
<1>1. ASSUME NEW r \in Requests, Offers(r)
      PROVE  pc[r] = "done" /\ reply[r] = "miss" /\ found[r] # NoMatch
  BY <1>1, LabelsAreOfEndedRequests DEF Offers
<1>2. ASSUME NEW r \in Planted PROVE r \in Requests /\ pc[r] = "done" /\ reply[r] = "miss"
  <2>1. CASE r \in ColdLearned
    BY <2>1 DEF ColdLearned
  <2>2. CASE r \in Refuting
    <3>1. r \in Requests /\ labels[JobOf(r)] = <<FALSE>>
      BY <2>2 DEF Refuting
    <3>2. <<FALSE>> # << >>
      OBVIOUS
    <3> QED
      BY <3>1, <3>2, LabelsAreOfEndedRequests
  <2> QED
    BY <2>1, <2>2 DEF Planted
<1> QED
  BY <1>1, <1>2

\* Sets of requests are finite, and so have a size.
LEMMA SetsOfRequests ==
  ASSUME NEW R, R \subseteq Requests
  PROVE  IsFiniteSet(R) /\ Cardinality(R) \in Nat
BY GatewayAssumption, FS_Subset, FS_CardinalityType

\* One request more makes the set larger by one.
LEMMA OneMore ==
  ASSUME NEW R, R \subseteq Requests, NEW r \in Requests, r \notin R
  PROVE  Cardinality(R \cup {r}) = Cardinality(R) + 1
BY SetsOfRequests, FS_AddElement

-----------------------------------------------------------------------------
\* Nothing has been planted, and no verdict has reached the store.
TeachesNothing == Planted' = Planted /\ \A q \in Requests : Offers(q)' <=> Offers(q)

\* An entry's labels depend on what was found and what was offered.
LEMMA SameLabelsOf ==
  ASSUME \A q \in Requests : found'[q] = found[q] /\ (Offers(q)' <=> Offers(q))
  PROVE  \A id : LabelsOf(id)' = LabelsOf(id)
BY DEF LabelsOf

\* A step that teaches the store nothing and changes no match keeps what was learned.
LEMMA QuietStep ==
  ASSUME GatewayInv, UNCHANGED <<counter, entries, found>>, TeachesNothing
  PROVE  LearningInv' /\ \A id : LabelsOf(id)' = LabelsOf(id)
<1>1. \A id : LabelsOf(id)' = LabelsOf(id)
  BY SameLabelsOf DEF TeachesNothing
<1>2. MatchesInv' /\ SameEntrySameAnswer' /\ EntriesInv'
  BY DEF GatewayInv, LearningInv, MatchesInv, SameEntrySameAnswer, EntriesInv, TeachesNothing
<1>3. LabelsReachTheirEntry'
  BY <1>1 DEF GatewayInv, LearningInv, LabelsReachTheirEntry
<1>4. InsertsAreGuarded'
  BY DEF GatewayInv, LearningInv, InsertsAreGuarded, TeachesNothing
<1> QED
  BY <1>1, <1>2, <1>3, <1>4 DEF LearningInv

\* One handler goes from one point to the next, away from the labeler and with no
\* answer learned from yet.
HandlerMove(r, p, s) ==
  /\ pc' = [pc EXCEPT ![r] = p] /\ reply' = [reply EXCEPT ![r] = s]
  /\ pc[r] \notin {"learn", "done"}
  /\ p \in Steps \ {"hit"} /\ s \in Replies
  /\ p \in BeforeLookup => found[r] = NoMatch
  /\ p \in Replied => s = "miss"
  /\ p \notin Replied \cup {"done"} => s = "none"
  /\ p = "done" => s \notin {"none", "miss"}
  /\ s = "hit" => pc[r] = "hit"

\* The handlers' own steps, up to the point where they learn.
LEMMA HandlerMoveKeepsInv ==
  ASSUME GatewayInv, NEW r \in Requests, NEW p, NEW s, HandlerMove(r, p, s),
         spent' \in [Keys -> Nat], UNCHANGED <<storeVars, labelerVars, found, half>>
  PROVE  GatewayInv' /\ TeachesNothing
<1>1. /\ UNCHANGED <<counter, lru, entries>>
      /\ UNCHANGED <<queue, phase, job, verdict, closing, outcome, labels>>
      /\ UNCHANGED <<found, half>>
  BY DEF storeVars, labelerVars
<1>2. /\ pc' = [pc EXCEPT ![r] = p] /\ reply' = [reply EXCEPT ![r] = s]
      /\ pc \in [Requests -> Steps] /\ reply \in [Requests -> Replies]
      /\ pc' \in [Requests -> Steps] /\ reply' \in [Requests -> Replies]
  BY DEF HandlerMove, GatewayInv, GatewayTypeOK
<1>3. \A q \in Requests : q # r => pc'[q] = pc[q] /\ reply'[q] = reply[q]
  BY <1>2
<1>4. pc'[r] = p /\ reply'[r] = s
  BY <1>2
<1>5. \A q \in Requests : (Offers(q)' <=> Offers(q)) /\ JobOf(q)' = JobOf(q)
  BY <1>1 DEF Offers, JobOf, Labels
<1>6. Planted' = Planted
  <2>1. ColdLearned' = ColdLearned
    BY <1>1, <1>3, <1>4 DEF ColdLearned, HandlerMove
  <2>2. Refuting' = Refuting
    BY <1>1, <1>5 DEF Refuting
  <2> QED
    BY <2>1, <2>2 DEF Planted
<1>7. LearningInv' /\ \A id : LabelsOf(id)' = LabelsOf(id)
  BY <1>1, <1>5, <1>6, QuietStep DEF TeachesNothing
<1>8. StoreInv' /\ LabelerInv'
  BY <1>1, StutterKeepsInv, LabelerStutterKeepsInv DEF GatewayInv
<1>9. GatewayTypeOK'
  BY <1>1, <1>2, <1>3, <1>4 DEF GatewayInv, GatewayTypeOK, HandlerMove
<1>10. HandlersInv'
  BY <1>1, <1>3, <1>4 DEF GatewayInv, HandlersInv, HandlerMove
<1>11. JobsInv'
  <2> SUFFICES ASSUME NEW j \in Jobs, outcome[j] # "new"
               PROVE  /\ found[j[1]] # NoMatch /\ j = JobOf(j[1])
                      /\ pc'[j[1]] = "done" /\ reply'[j[1]] = "miss"
    BY <1>1, <1>5, JobsAreComparisons DEF JobsInv
  <2>1. /\ found[j[1]] # NoMatch /\ j = JobOf(j[1])
        /\ pc[j[1]] = "done" /\ reply[j[1]] = "miss"
    BY DEF GatewayInv, JobsInv
  <2> QED
    BY <1>3, <2>1, JobsAreComparisons DEF HandlerMove
<1>12. VerdictsInv'
  BY <1>1 DEF GatewayInv, VerdictsInv
<1>13. HitsInv'
  BY <1>1, <1>3, <1>4, <1>7 DEF GatewayInv, HitsInv, HandlerMove
<1> QED
  BY <1>5, <1>6, <1>7, <1>8, <1>9, <1>10, <1>11, <1>12, <1>13 DEF GatewayInv, TeachesNothing

\* Billing a key keeps the tracker's type.
LEMMA AddKeepsType ==
  ASSUME spent \in [Keys -> Nat], NEW k \in Keys, NEW cents \in Nat, Add(k, cents)
  PROVE  spent' \in [Keys -> Nat]
BY DEF Add

\* What a request carries.
LEMMA AskFacts ==
  ASSUME NEW r \in Requests
  PROVE  /\ Ask[r].key \in Keys /\ Ask[r].bucket \in Buckets /\ Ask[r].vec \in Vecs
         /\ Ask[r].kind \in Kinds
         /\ ChatPrice[Ask[r].model] \in Nat /\ EmbedPrice[Ask[r].model] \in Nat
BY GatewayAssumption

\* A handler's own steps are moves.
LEMMA HandlerStepKeepsInv ==
  ASSUME GatewayInv, NEW r \in Requests,
         \/ Reject(r) \/ Admit(r) \/ Passthrough(r) \/ EmbedFails(r) \/ EmbedReturns(r)
         \/ LookupFindsNothing(r) \/ ServeHit(r) \/ FetchFails(r) \/ FetchReturns(r) \/ Account(r)
  PROVE  GatewayInv' /\ TeachesNothing
<1>1. /\ spent \in [Keys -> Nat] /\ pc \in [Requests -> Steps] /\ reply \in [Requests -> Replies]
  BY DEF GatewayInv, GatewayTypeOK
<1>2. reply = [reply EXCEPT ![r] = reply[r]] /\ reply[r] \in Replies
  BY <1>1
<1>3. /\ pc[r] \in BeforeLookup => found[r] = NoMatch
      /\ pc[r] \in Replied => reply[r] = "miss"
      /\ pc[r] \notin Replied \cup {"done"} => reply[r] = "none"
  BY DEF GatewayInv, HandlersInv
<1>4. UNCHANGED spent => spent' \in [Keys -> Nat]
  BY <1>1
<1>5. CASE Reject(r)
  <2>1. Screen(r) \in {"401", "429", "400", "none"}
    BY DEF Screen
  <2>2. HandlerMove(r, "done", Screen(r))
    BY <1>5, <2>1 DEF Reject, Goto, Answer, HandlerMove, Steps, Replies, BeforeLookup, Replied
  <2> QED
    BY <1>4, <1>5, <2>2, HandlerMoveKeepsInv DEF Reject
<1>6. CASE Admit(r)
  <2>1. PICK p \in {"passthrough", "embed"} : pc' = [pc EXCEPT ![r] = p]
    BY <1>6 DEF Admit, Goto
  <2>2. HandlerMove(r, p, reply[r])
    BY <1>2, <1>3, <1>6, <2>1 DEF Admit, HandlerMove, Steps, BeforeLookup, Replied
  <2> QED
    BY <1>4, <1>6, <2>2, HandlerMoveKeepsInv DEF Admit
<1>7. CASE Passthrough(r)
  <2>1. HandlerMove(r, "done", "passed")
    BY <1>7 DEF Passthrough, Goto, Answer, HandlerMove, Steps, Replies, BeforeLookup, Replied
  <2> QED
    BY <1>4, <1>7, <2>1, HandlerMoveKeepsInv DEF Passthrough
<1>8. CASE EmbedFails(r)
  <2>1. HandlerMove(r, "passthrough", reply[r])
    BY <1>2, <1>3, <1>8 DEF EmbedFails, Goto, HandlerMove, Steps, BeforeLookup, Replied
  <2> QED
    BY <1>4, <1>8, <2>1, HandlerMoveKeepsInv DEF EmbedFails
<1>9. CASE EmbedReturns(r)
  <2>1. HandlerMove(r, "lookup", reply[r])
    BY <1>2, <1>3, <1>9 DEF EmbedReturns, Goto, HandlerMove, Steps, BeforeLookup, Replied
  <2>2. spent' \in [Keys -> Nat]
    BY <1>1, <1>9, AddKeepsType, AskFacts DEF EmbedReturns
  <2> QED
    BY <1>9, <2>1, <2>2, HandlerMoveKeepsInv DEF EmbedReturns
<1>10. CASE LookupFindsNothing(r)
  <2>1. HandlerMove(r, "fetch", reply[r])
    BY <1>2, <1>3, <1>10 DEF LookupFindsNothing, Goto, HandlerMove, Steps, BeforeLookup, Replied
  <2> QED
    BY <1>4, <1>10, <2>1, HandlerMoveKeepsInv DEF LookupFindsNothing, NearestNone
<1>11. CASE ServeHit(r)
  <2>1. HandlerMove(r, "done", "hit")
    BY <1>11 DEF ServeHit, Goto, Answer, HandlerMove, Steps, Replies, BeforeLookup, Replied
  <2> QED
    BY <1>4, <1>11, <2>1, HandlerMoveKeepsInv DEF ServeHit
<1>12. CASE FetchFails(r)
  <2>1. PICK status \in {"502", "relayed"} : reply' = [reply EXCEPT ![r] = status]
    BY <1>12 DEF FetchFails, Answer
  <2>2. HandlerMove(r, "done", status)
    BY <1>12, <2>1 DEF FetchFails, Goto, HandlerMove, Steps, Replies, BeforeLookup, Replied
  <2> QED
    BY <1>4, <1>12, <2>2, HandlerMoveKeepsInv DEF FetchFails
<1>13. CASE FetchReturns(r)
  <2>1. HandlerMove(r, "account", "miss")
    BY <1>13 DEF FetchReturns, Goto, Answer, HandlerMove, Steps, Replies, BeforeLookup, Replied
  <2> QED
    BY <1>4, <1>13, <2>1, HandlerMoveKeepsInv DEF FetchReturns
<1>14. CASE Account(r)
  <2>1. HandlerMove(r, "learn", reply[r])
    BY <1>2, <1>3, <1>14 DEF Account, Goto, HandlerMove, Steps, BeforeLookup, Replied
  <2>2. spent' \in [Keys -> Nat]
    BY <1>1, <1>14, AddKeepsType, AskFacts DEF Account
  <2> QED
    BY <1>14, <2>1, <2>2, HandlerMoveKeepsInv DEF Account
<1> QED
  BY <1>5, <1>6, <1>7, <1>8, <1>9, <1>10, <1>11, <1>12, <1>13, <1>14

-----------------------------------------------------------------------------
\* A request that has not ended has no label, whatever it is compared with.
LEMMA NoLabelYet ==
  ASSUME GatewayInv, NEW r \in Requests, pc[r] # "done"
  PROVE  /\ \A q \in Requests : <<r, q>> \in Jobs /\ labels[<<r, q>>] = << >> /\ outcome[<<r, q>>] = "new"
         /\ \A v \in Workers : ~Labels(v, r)
<1>1. ASSUME NEW q \in Requests
      PROVE  <<r, q>> \in Jobs /\ labels[<<r, q>>] = << >> /\ outcome[<<r, q>>] = "new"
  <2> DEFINE j == <<r, q>>
  <2>1. j \in Jobs /\ j[1] = r
    BY GatewayAssumption DEF LabelJobs
  <2> HIDE DEF j
  <2>2. outcome[j] = "new"
    BY <2>1 DEF GatewayInv, JobsInv
  <2>3. labels[j] = << >>
    BY <2>1, <2>2, LabelledJob DEF GatewayInv
  <2> QED
    BY <2>1, <2>2, <2>3 DEF j
<1>2. \A v \in Workers : ~Labels(v, r)
  BY LabelsAreOfEndedRequests
<1> QED
  BY <1>1, <1>2

\* The entry Nearest returns is live, in its bucket, and was offered all that it kept.
LEMMA NearestFacts ==
  ASSUME GatewayInv, NEW b \in Buckets, NEW v \in Vecs, NEW id, Nearest(b, v, id)
  PROVE  /\ id \in DOMAIN entries /\ id \in EntryIDs /\ entries[id] \in Entry /\ entries[id].bucket = b
         /\ entries[id].resp \in Planted /\ Ask[entries[id].resp].bucket = b
         /\ id[2] <= counter[id[1]]
         /\ Len(entries[id].obs) <= Cardinality(LabelsOf(id))
<1>1. Live(b, id)
  BY DEF Nearest, Best, Comparable
<1>2. id \in DOMAIN entries /\ id \in EntryIDs /\ entries[id] \in Entry /\ entries[id].bucket = b
  BY <1>1, LiveIsListed DEF GatewayInv, Live
<1>3. entries[id].seen = Cardinality(LabelsOf(id)) /\ entries[id].seen \in Nat
  BY <1>2 DEF GatewayInv, LearningInv, LabelsReachTheirEntry, Entry
<1>4. Len(entries[id].obs) = IF entries[id].seen < ObsCap THEN entries[id].seen ELSE ObsCap
  BY <1>2 DEF GatewayInv, StoreInv, ReservoirCount
<1>5. Len(entries[id].obs) <= Cardinality(LabelsOf(id))
  BY <1>3, <1>4, Bounds
<1> QED
  BY <1>2, <1>5 DEF GatewayInv, LearningInv, EntriesInv, InsertsAreGuarded, StoreInv, OnlyIssuedIDs

\* A lookup gives the handler a neighbor, or its hit.
LEMMA LookupKeepsInv ==
  ASSUME GatewayInv, NEW r \in Requests, NEW id, Lookup(r, id)
  PROVE  GatewayInv' /\ TeachesNothing
<1> DEFINE m == [id |-> id, of |-> entries[id].resp]
<1>1. /\ pc[r] = "lookup" /\ Nearest(Ask[r].bucket, Ask[r].vec, id)
      /\ UNCHANGED <<counter, entries>>
      /\ UNCHANGED <<queue, phase, job, verdict, closing, outcome, labels>>
      /\ UNCHANGED <<spent, reply, half>>
  BY DEF Lookup, labelerVars, Nearest
<1>0. found' = [found EXCEPT ![r] = m]
  BY DEF Lookup
<1>2. PICK p \in {"hit", "fetch"} :
         pc' = [pc EXCEPT ![r] = p] /\ (p = "hit" => MayExploit(entries[id].obs))
  BY DEF Lookup, Goto
<1>3. /\ id \in DOMAIN entries /\ id \in EntryIDs /\ entries[id].bucket = Ask[r].bucket
      /\ entries[id].resp \in Planted /\ Ask[entries[id].resp].bucket = Ask[r].bucket
      /\ id[2] <= counter[id[1]]
      /\ Len(entries[id].obs) <= Cardinality(LabelsOf(id))
  BY <1>1, AskFacts, NearestFacts
<1>4. entries[id].resp \in Requests
  BY <1>3, EndedFacts
<1>5. m \in Matches /\ m # NoMatch /\ m.id = id /\ m.of = entries[id].resp
  BY <1>3, <1>4, MatchFacts
<1> HIDE DEF m
<1>6. /\ found \in [Requests -> Matches] /\ pc \in [Requests -> Steps] /\ reply \in [Requests -> Replies]
      /\ found[r] = NoMatch /\ reply[r] = "none"
  BY <1>1 DEF GatewayInv, GatewayTypeOK, HandlersInv, BeforeLookup, Replied
<1>7. /\ \A q \in Requests : q # r => pc'[q] = pc[q] /\ found'[q] = found[q]
      /\ pc'[r] = p /\ found'[r] = m
      /\ found' \in [Requests -> Matches] /\ pc' \in [Requests -> Steps]
  BY <1>0, <1>2, <1>5, <1>6 DEF Steps
<1>8. /\ \A q \in Requests : q # r => JobOf(q)' = JobOf(q)
      /\ labels[JobOf(r)'] = << >> /\ \A v \in Workers : ~Labels(v, r)
  BY <1>1, <1>4, <1>5, <1>7, NoLabelYet DEF JobOf
<1>9. \A q \in Requests : Offers(q)' <=> Offers(q)
  <2>1. ~Offers(r) /\ ~Offers(r)'
    BY <1>1, <1>6, <1>8 DEF Offers, Labels
  <2>2. ASSUME NEW q \in Requests, q # r PROVE Offers(q)' <=> Offers(q)
    BY <1>1, <1>7, <1>8, <2>2 DEF Offers, Labels
  <2> QED
    BY <2>1, <2>2
<1>10. \A i : LabelsOf(i)' = LabelsOf(i)
  <2>1. ~Offers(r) /\ ~Offers(r)'
    BY <1>6, <1>9 DEF Offers
  <2> QED
    BY <1>7, <1>9, <2>1 DEF LabelsOf
<1>11. Planted' = Planted
  <2>1. ColdLearned' = ColdLearned
    BY <1>1, <1>2, <1>7 DEF ColdLearned
  <2>2. Refuting' = Refuting
    <3>1. << >> # <<FALSE>>
      OBVIOUS
    <3>2. r \notin Refuting /\ r \notin Refuting'
      BY <1>1, <1>6, <1>8, <3>1 DEF Refuting
    <3>3. ASSUME NEW q \in Requests, q # r PROVE q \in Refuting' <=> q \in Refuting
      BY <1>1, <1>7, <1>8, <3>3 DEF Refuting
    <3>4. Refuting \subseteq Requests /\ Refuting' \subseteq Requests
      BY DEF Refuting
    <3> QED
      BY <3>2, <3>3, <3>4
  <2> QED
    BY <2>1, <2>2 DEF Planted
<1>12. EntriesInv' /\ LabelsReachTheirEntry' /\ InsertsAreGuarded'
  BY <1>1, <1>10, <1>11 DEF GatewayInv, LearningInv, EntriesInv, LabelsReachTheirEntry, InsertsAreGuarded
<1>13. MatchesInv' /\ SameEntrySameAnswer'
  <2>1. MatchesInv'
    BY <1>1, <1>3, <1>5, <1>7, <1>11 DEF GatewayInv, LearningInv, MatchesInv
  <2>2. \A q \in Requests : found[q] # NoMatch /\ found[q].id = id => found[q].of = entries[id].resp
    BY <1>3 DEF GatewayInv, LearningInv, MatchesInv
  <2>3. SameEntrySameAnswer'
    BY <1>5, <1>7, <2>2 DEF GatewayInv, LearningInv, SameEntrySameAnswer
  <2> QED
    BY <2>1, <2>3
<1>14. StoreInv' /\ LabelerInv'
  BY <1>1, AskFacts, NearestKeepsInv, LabelerStutterKeepsInv DEF GatewayInv, labelerVars
<1>15. GatewayTypeOK'
  BY <1>1, <1>2, <1>6, <1>7 DEF GatewayInv, GatewayTypeOK
<1>16. HandlersInv'
  BY <1>1, <1>2, <1>5, <1>6, <1>7 DEF GatewayInv, HandlersInv, BeforeLookup, Replied
<1>17. JobsInv'
  <2> SUFFICES ASSUME NEW j \in Jobs, outcome[j] # "new"
               PROVE  /\ found'[j[1]] # NoMatch /\ j = JobOf(j[1])'
                      /\ pc'[j[1]] = "done" /\ reply[j[1]] = "miss"
    BY <1>1 DEF JobsInv
  <2>1. /\ found[j[1]] # NoMatch /\ j = JobOf(j[1])
        /\ pc[j[1]] = "done" /\ reply[j[1]] = "miss" /\ j[1] \in Requests
    BY JobsAreComparisons DEF GatewayInv, JobsInv
  <2> QED
    BY <1>1, <1>7, <1>8, <2>1
<1>18. VerdictsInv'
  BY <1>1 DEF GatewayInv, VerdictsInv
<1>19. HitsInv'
  <2>1. p = "hit" => Cardinality(LabelsOf(id)) >= NMin
    <3>1. Len(entries[id].obs) \in Nat /\ Cardinality(LabelsOf(id)) \in Nat /\ NMin \in Nat
      <4>1. entries[id].obs \in Seq(Observations)
        BY <1>1, AskFacts, NearestFacts DEF Entry
      <4>2. LabelsOf(id) \subseteq Requests
        BY DEF LabelsOf
      <4> QED
        BY <4>1, <4>2, SetsOfRequests, GatewayAssumption
    <3> DEFINE size == Cardinality(LabelsOf(id))
               kept == Len(entries[id].obs)
    <3>2. /\ kept \in Nat /\ size \in Nat /\ NMin \in Nat
          /\ kept <= size
      BY <1>3, <3>1
    <3>4. p = "hit" => kept >= NMin
      BY <1>2 DEF MayExploit
    <3> HIDE DEF size, kept
    <3>3. p = "hit" => size >= NMin
      BY <3>2, <3>4
    <3> QED
      BY <3>3 DEF size
  <2> QED
    BY <1>1, <1>5, <1>6, <1>7, <1>10, <2>1 DEF GatewayInv, HitsInv
<1> QED
  BY <1>9, <1>11, <1>12, <1>13, <1>14, <1>15, <1>16, <1>17, <1>18, <1>19 DEF GatewayInv, LearningInv, TeachesNothing

-----------------------------------------------------------------------------
\* Handing a comparison to the labeler, which may take, drop or refuse it.
LEMMA SubmitForLabelKeepsInv ==
  ASSUME GatewayInv, NEW r \in Requests, SubmitForLabel(r)
  PROVE  GatewayInv' /\ TeachesNothing
<1>1. /\ pc[r] = "learn" /\ found[r] # NoMatch /\ Submit(JobOf(r))
      /\ pc' = [pc EXCEPT ![r] = "done"]
      /\ UNCHANGED <<counter, lru, entries, spent, reply, found, half>>
  BY DEF SubmitForLabel, Goto, storeVars
<1>2. UNCHANGED <<phase, job, verdict, closing, labels>>
  BY <1>1 DEF Submit
<1>3. /\ pc \in [Requests -> Steps] /\ reply[r] = "miss"
      /\ JobOf(r) \in Jobs /\ JobOf(r)[1] = r
  BY <1>1, JobFacts DEF GatewayInv, GatewayTypeOK, HandlersInv, Replied
<1>4. /\ pc' \in [Requests -> Steps] /\ pc'[r] = "done"
      /\ \A q \in Requests : q # r => pc'[q] = pc[q]
  BY <1>1, <1>3 DEF Steps
<1>5. \A j \in Jobs : j # JobOf(r) => outcome'[j] = outcome[j]
  BY <1>1 DEF Submit, GatewayInv, LabelerInv, LabelerTypeOK
<1>6. \A q \in Requests : (Offers(q)' <=> Offers(q)) /\ JobOf(q)' = JobOf(q)
  BY <1>1, <1>2 DEF Offers, JobOf, Labels
<1>7. Planted' = Planted
  <2>1. ColdLearned' = ColdLearned
    BY <1>1, <1>4 DEF ColdLearned
  <2>2. Refuting' = Refuting
    BY <1>1, <1>2, <1>6 DEF Refuting
  <2> QED
    BY <2>1, <2>2 DEF Planted
<1>8. LearningInv' /\ \A id : LabelsOf(id)' = LabelsOf(id)
  BY <1>1, <1>6, <1>7, QuietStep DEF TeachesNothing
<1>9. StoreInv' /\ LabelerInv'
  BY <1>1, <1>3, StutterKeepsInv, SubmitKeepsInv DEF GatewayInv, storeVars
<1>10. GatewayTypeOK' /\ HandlersInv'
  BY <1>1, <1>3, <1>4 DEF GatewayInv, GatewayTypeOK, HandlersInv, BeforeLookup, Replied
<1>11. JobsInv'
  BY <1>1, <1>3, <1>4, <1>5, <1>6, JobsAreComparisons DEF GatewayInv, JobsInv
<1>12. VerdictsInv'
  BY <1>1, <1>2 DEF GatewayInv, VerdictsInv
<1>13. HitsInv'
  BY <1>1, <1>4, <1>8 DEF GatewayInv, HitsInv
<1> QED
  BY <1>6, <1>7, <1>8, <1>9, <1>10, <1>11, <1>12, <1>13 DEF GatewayInv, TeachesNothing

\* A worker takes a job, ends, or gets an answer.
LEMMA IdleKeepsInv ==
  ASSUME GatewayInv, NEW w \in Workers, Idle(w)
  PROVE  GatewayInv' /\ TeachesNothing
<1>1. UNCHANGED <<counter, lru, entries, spent, pc, reply, found, half>>
  BY DEF Idle, storeVars, handlerVars
<1>2. /\ phase \in [Workers -> Phases] /\ job \in [Workers -> Jobs] /\ verdict \in [Workers -> BOOLEAN]
  BY DEF GatewayInv, LabelerInv, LabelerTypeOK
<1>3. /\ UNCHANGED <<outcome, labels>> /\ phase[w] # "callback"
      /\ \A v \in Workers : v # w => phase'[v] = phase[v] /\ job'[v] = job[v] /\ verdict'[v] = verdict[v]
      /\ phase'[w] = "callback" /\ verdict'[w] => Equivalent[job'[w]]
  <2>1. CASE Receive(w)
    BY <1>2, <2>1 DEF Receive
  <2>2. CASE Exit(w)
    BY <1>2, <2>2 DEF Exit
  <2>3. CASE \E answer \in {"answer", "error"} : JudgeReturns(w, answer)
    BY <1>2, <2>3 DEF JudgeReturns
  <2> QED
    BY <2>1, <2>2, <2>3 DEF Idle
<1>4. Equivalent = SameAnswer
  BY GatewayAssumption
<1>5. half[w] # "insert"
  BY <1>3 DEF GatewayInv, VerdictsInv
<1>6. \A q \in Requests : (Offers(q)' <=> Offers(q)) /\ JobOf(q)' = JobOf(q)
  BY <1>1, <1>3, <1>5 DEF Offers, JobOf, Labels
<1>7. Planted' = Planted
  <2>1. ColdLearned' = ColdLearned
    BY <1>1 DEF ColdLearned
  <2>2. Refuting' = Refuting
    BY <1>1, <1>3, <1>6 DEF Refuting
  <2> QED
    BY <2>1, <2>2 DEF Planted
<1>8. LearningInv' /\ \A id : LabelsOf(id)' = LabelsOf(id)
  BY <1>1, <1>6, <1>7, QuietStep DEF TeachesNothing
<1>9. StoreInv'
  BY <1>1, StutterKeepsInv DEF GatewayInv, storeVars
<1>10. LabelerInv'
  BY ReceiveKeepsInv, ExitKeepsInv, JudgeKeepsInv DEF Idle, GatewayInv
<1>11. GatewayTypeOK' /\ HandlersInv'
  BY <1>1 DEF GatewayInv, GatewayTypeOK, HandlersInv
<1>12. JobsInv'
  BY <1>1, <1>3, <1>6, JobsAreComparisons DEF GatewayInv, JobsInv
<1>13. VerdictsInv'
  BY <1>1, <1>3, <1>4, <1>5 DEF GatewayInv, VerdictsInv
<1>14. HitsInv'
  BY <1>1, <1>8 DEF GatewayInv, HitsInv
<1> QED
  BY <1>6, <1>7, <1>8, <1>9, <1>10, <1>11, <1>12, <1>13, <1>14 DEF GatewayInv, TeachesNothing

\* Closing the labeler, which the process does when it ends.
LEMMA ClosingKeepsGatewayInv ==
  ASSUME GatewayInv, Close \/ CloseReturns, UNCHANGED <<storeVars, spent, handlerVars, half>>
  PROVE  GatewayInv' /\ TeachesNothing
<1>1. /\ UNCHANGED <<counter, lru, entries, spent, pc, reply, found, half>>
      /\ UNCHANGED <<phase, job, verdict, outcome, labels>>
  BY DEF storeVars, handlerVars, Close, CloseReturns
<1>2. \A q \in Requests : (Offers(q)' <=> Offers(q)) /\ JobOf(q)' = JobOf(q)
  BY <1>1 DEF Offers, JobOf, Labels
<1>3. Planted' = Planted
  BY <1>1, <1>2 DEF Planted, ColdLearned, Refuting
<1>4. LearningInv' /\ \A id : LabelsOf(id)' = LabelsOf(id)
  BY <1>1, <1>2, <1>3, QuietStep DEF TeachesNothing
<1>5. StoreInv' /\ LabelerInv'
  BY <1>1, StutterKeepsInv, ClosingKeepsInv DEF GatewayInv
<1>6. GatewayTypeOK' /\ HandlersInv' /\ VerdictsInv'
  BY <1>1 DEF GatewayInv, GatewayTypeOK, HandlersInv, VerdictsInv
<1>7. JobsInv'
  BY <1>1, <1>2, JobsAreComparisons DEF GatewayInv, JobsInv
<1>8. HitsInv'
  BY <1>1, <1>4 DEF GatewayInv, HitsInv
<1> QED
  BY <1>2, <1>3, <1>4, <1>5, <1>6, <1>7, <1>8 DEF GatewayInv, TeachesNothing

-----------------------------------------------------------------------------
\* A sample holds what it held, but for the new label.
LEMMA ReservoirElements ==
  ASSUME NEW obs \in Seq(Observations), NEW seen \in Nat, NEW ob \in Observations,
         Len(obs) = IF seen < ObsCap THEN seen ELSE ObsCap,
         NEW new \in Reservoir(obs, seen + 1, ob)
  PROVE  \A k \in DOMAIN new : new[k] = ob \/ (k \in DOMAIN obs /\ new[k] = obs[k])
<1>1. \/ new = Append(obs, ob)
      \/ new = obs
      \/ \E j \in 1 .. Len(obs) : new = [obs EXCEPT ![j] = ob]
  BY ReservoirProperties
<1>2. CASE new = Append(obs, ob)
  BY <1>2
<1>3. CASE new = obs
  BY <1>3
<1>4. CASE \E j \in 1 .. Len(obs) : new = [obs EXCEPT ![j] = ob]
  BY <1>4
<1> QED
  BY <1>1, <1>2, <1>3, <1>4

\* An entry that is offered a label keeps everything else, and the others everything.
LEMMA ObserveFacts ==
  ASSUME StoreInv, NEW b \in Buckets, NEW id, NEW ob \in Observations, Observe(b, id, ob)
  PROVE  /\ counter' = counter /\ DOMAIN entries' = DOMAIN entries
         /\ \A i \in DOMAIN entries :
               /\ entries'[i].bucket = entries[i].bucket /\ entries'[i].resp = entries[i].resp
               /\ i # id => entries'[i] = entries[i]
         /\ Live(b, id) =>
               /\ entries'[id].seen = entries[id].seen + 1
               /\ \A k \in DOMAIN entries'[id].obs :
                     \/ entries'[id].obs[k] = ob
                     \/ k \in DOMAIN entries[id].obs /\ entries'[id].obs[k] = entries[id].obs[k]
<1>1. CASE ~Live(b, id)
  BY <1>1 DEF Observe, storeVars
<1>2. CASE Live(b, id)
  <2>1. id \in DOMAIN entries /\ entries[id] \in Entry
    BY <1>2, LiveIsListed DEF Live
  <2>2. /\ entries[id].obs \in Seq(Observations) /\ entries[id].seen \in Nat
        /\ Len(entries[id].obs) = IF entries[id].seen < ObsCap THEN entries[id].seen ELSE ObsCap
    BY <2>1 DEF Entry, StoreInv, ReservoirCount
  <2>3. PICK obs \in Reservoir(entries[id].obs, entries[id].seen + 1, ob) :
          entries' = [entries EXCEPT ![id] = Offered(@, obs)]
    BY <1>2 DEF Observe
  <2>4. /\ counter' = counter /\ DOMAIN entries' = DOMAIN entries
        /\ entries'[id] = Offered(entries[id], obs)
        /\ \A i \in DOMAIN entries : i # id => entries'[i] = entries[i]
    BY <1>2, <2>1, <2>3 DEF Observe
  <2>5. obs \in Seq(Observations)
    BY <2>2, ReservoirProperties
  <2>6. /\ entries'[id].bucket = entries[id].bucket /\ entries'[id].resp = entries[id].resp
        /\ entries'[id].seen = entries[id].seen + 1 /\ entries'[id].obs = obs
    BY <2>1, <2>4, <2>5, OfferedProperties
  <2>7. \A k \in DOMAIN obs :
           obs[k] = ob \/ (k \in DOMAIN entries[id].obs /\ obs[k] = entries[id].obs[k])
    BY <2>2, ReservoirElements
  <2> QED
    BY <2>4, <2>6, <2>7
<1> QED
  BY <1>1, <1>2

\* The first half of OnResult: the label reaches the entry that was found, or none.
LEMMA CallbackObservesKeepsInv ==
  ASSUME GatewayInv, NEW w \in Workers, NEW r \in Requests, CallbackObserves(w, r)
  PROVE  /\ GatewayInv' /\ Planted' = Planted /\ ~Offers(r) /\ Offers(r)'
         /\ \A q \in Requests : q # r => (Offers(q)' <=> Offers(q))
<1> DEFINE ob == [by |-> r, c |-> verdict[w]]
<1>0. PICK id : id = found[r].id
  OBVIOUS
<1>1. /\ Labels(w, r) /\ half[w] = "observe" /\ Observe(Ask[r].bucket, id, ob)
      /\ half' = [half EXCEPT ![w] = "insert"]
      /\ UNCHANGED <<queue, phase, job, verdict, closing, outcome, labels>>
      /\ UNCHANGED <<spent, pc, reply, found>>
  BY <1>0 DEF CallbackObserves, labelerVars, handlerVars
<1>2. /\ half \in [Workers -> {"observe", "insert"}] /\ verdict \in [Workers -> BOOLEAN]
      /\ phase[w] = "callback" /\ job[w][1] = r
  BY <1>1 DEF GatewayInv, GatewayTypeOK, LabelerInv, LabelerTypeOK, Labels
<1>3. /\ half' \in [Workers -> {"observe", "insert"}] /\ half'[w] = "insert"
      /\ \A v \in Workers : v # w => half'[v] = half[v]
  BY <1>1, <1>2
<1>4. /\ found[r] # NoMatch /\ job[w] = JobOf(r) /\ pc[r] = "done" /\ reply[r] = "miss"
      /\ labels[JobOf(r)] = << >>
  BY <1>1, LabelsAreOfEndedRequests
<1>5. ob \in Observations /\ ob.by = r /\ ob.c = verdict[w]
  BY <1>2, GatewayAssumption DEF Observation
<1> HIDE DEF ob
<1>6. \A v \in Workers : v # w => ~Labels(v, r)
  <2> SUFFICES ASSUME NEW v \in Workers, v # w, Labels(v, r) PROVE FALSE
    OBVIOUS
  <2>1. job[v] = JobOf(r) /\ phase[v] = "callback"
    BY LabelsAreOfEndedRequests DEF Labels
  <2> QED
    BY <1>2, <1>4, <2>1, HeldJob DEF GatewayInv
<1>7. ~Offers(r) /\ Offers(r)'
  <2>1. ~Offers(r)
    BY <1>1, <1>4, <1>6 DEF Offers
  <2>2. Offers(r)'
    BY <1>1, <1>3, <1>4 DEF Offers, Labels
  <2> QED
    BY <2>1, <2>2
<1>8. \A q \in Requests : JobOf(q)' = JobOf(q) /\ (q # r => (Offers(q)' <=> Offers(q)))
  BY <1>1, <1>2, <1>3 DEF Offers, Labels, JobOf
<1>9. /\ LabelsOf(id)' = LabelsOf(id) \cup {r} /\ r \notin LabelsOf(id) /\ LabelsOf(id) \subseteq Requests
      /\ \A i : i # id => LabelsOf(i)' = LabelsOf(i)
  BY <1>0, <1>1, <1>7, <1>8 DEF LabelsOf
<1>10. Cardinality(LabelsOf(id)') = Cardinality(LabelsOf(id)) + 1
  BY <1>9, OneMore
<1>11. Planted' = Planted
  <2>1. ColdLearned' = ColdLearned /\ Refuting' = Refuting
    BY <1>1, <1>8 DEF ColdLearned, Refuting
  <2> QED
    BY <2>1 DEF Planted
<1>12. /\ counter' = counter /\ DOMAIN entries' = DOMAIN entries
       /\ \A i \in DOMAIN entries :
             /\ entries'[i].bucket = entries[i].bucket /\ entries'[i].resp = entries[i].resp
             /\ i # id => entries'[i] = entries[i]
       /\ Live(Ask[r].bucket, id) =>
             /\ entries'[id].seen = entries[id].seen + 1
             /\ \A k \in DOMAIN entries'[id].obs :
                   \/ entries'[id].obs[k] = ob
                   \/ k \in DOMAIN entries[id].obs /\ entries'[id].obs[k] = entries[id].obs[k]
  BY <1>1, <1>5, AskFacts, ObserveFacts DEF GatewayInv
<1>13. id \in DOMAIN entries => Live(Ask[r].bucket, id) /\ entries[id].resp = found[r].of
  BY <1>0, <1>4 DEF GatewayInv, LearningInv, MatchesInv, Live
<1>14. LabelsReachTheirEntry'
  <2> SUFFICES ASSUME NEW i \in DOMAIN entries
               PROVE  /\ entries'[i].seen = Cardinality(LabelsOf(i)')
                      /\ \A k \in DOMAIN entries'[i].obs :
                            /\ entries'[i].obs[k].by \in LabelsOf(i)'
                            /\ entries'[i].obs[k].c => SameAnswer[<<entries'[i].obs[k].by, entries'[i].resp>>]
    BY <1>12 DEF LabelsReachTheirEntry
  <2>1. /\ entries[i].seen = Cardinality(LabelsOf(i))
        /\ \A k \in DOMAIN entries[i].obs :
              /\ entries[i].obs[k].by \in LabelsOf(i)
              /\ entries[i].obs[k].c => SameAnswer[<<entries[i].obs[k].by, entries[i].resp>>]
    BY DEF GatewayInv, LearningInv, LabelsReachTheirEntry
  <2>2. CASE i # id
    BY <1>9, <1>12, <2>1, <2>2
  <2>3. CASE i = id
    <3>1. /\ entries'[i].seen = entries[i].seen + 1 /\ entries'[i].resp = entries[i].resp
          /\ entries[i].resp = found[r].of
          /\ \A k \in DOMAIN entries'[i].obs :
                \/ entries'[i].obs[k] = ob
                \/ k \in DOMAIN entries[i].obs /\ entries'[i].obs[k] = entries[i].obs[k]
      BY <1>12, <1>13, <2>3
    <3>2. ob.c => SameAnswer[<<ob.by, found[r].of>>]
      BY <1>2, <1>4, <1>5 DEF GatewayInv, VerdictsInv, JobOf
    <3>3. ob.by \in LabelsOf(i)' /\ LabelsOf(i) \subseteq LabelsOf(i)'
      BY <1>5, <1>9, <1>10, <2>3
    <3>4. entries'[i].seen = Cardinality(LabelsOf(i)')
      BY <1>9, <1>10, <2>1, <2>3, <3>1
    <3>5. ASSUME NEW k \in DOMAIN entries'[i].obs
          PROVE  /\ entries'[i].obs[k].by \in LabelsOf(i)'
                 /\ entries'[i].obs[k].c => SameAnswer[<<entries'[i].obs[k].by, entries'[i].resp>>]
      <4>1. CASE entries'[i].obs[k] = ob
        BY <3>1, <3>2, <3>3, <4>1
      <4>2. CASE k \in DOMAIN entries[i].obs /\ entries'[i].obs[k] = entries[i].obs[k]
        BY <2>1, <3>1, <3>3, <4>2
      <4> QED
        BY <3>1, <4>1, <4>2
    <3> QED
      BY <3>4, <3>5
  <2> QED
    BY <2>2, <2>3
<1>15. MatchesInv' /\ SameEntrySameAnswer' /\ EntriesInv' /\ InsertsAreGuarded'
  BY <1>1, <1>11, <1>12
     DEF GatewayInv, LearningInv, MatchesInv, SameEntrySameAnswer, EntriesInv, InsertsAreGuarded
<1>16. StoreInv' /\ LabelerInv'
  BY <1>1, <1>5, AskFacts, ObserveKeepsInv, LabelerStutterKeepsInv DEF GatewayInv, labelerVars
<1>17. GatewayTypeOK' /\ HandlersInv' /\ JobsInv'
  BY <1>1, <1>3, <1>8, JobsAreComparisons DEF GatewayInv, GatewayTypeOK, HandlersInv, JobsInv
<1>18. VerdictsInv'
  BY <1>1, <1>2, <1>3 DEF GatewayInv, VerdictsInv
<1>19. HitsInv'
  <2> SUFFICES ASSUME NEW q \in Requests, pc[q] = "hit" \/ reply[q] = "hit"
               PROVE  Cardinality(LabelsOf(found[q].id)') >= NMin
    BY <1>1 DEF HitsInv
  <2> PICK e : e = found[q].id
    OBVIOUS
  <2>1. Cardinality(LabelsOf(e)) >= NMin
    BY DEF GatewayInv, HitsInv
  <2>2. Cardinality(LabelsOf(id)) \in Nat /\ NMin \in Nat
    BY <1>9, SetsOfRequests, GatewayAssumption
  <2>3. Cardinality(LabelsOf(e)') >= NMin
    BY <1>9, <1>10, <2>1, <2>2
  <2> QED
    BY <1>1, <2>3
<1> QED
  BY <1>7, <1>8, <1>11, <1>14, <1>15, <1>16, <1>17, <1>18, <1>19 DEF GatewayInv, LearningInv

-----------------------------------------------------------------------------
\* An insert adds an entry under a new ID, and may only forget others.
LEMMA InsertFacts ==
  ASSUME StoreInv, NEW b \in Buckets, NEW v \in Vecs, NEW resp \in Responses, Insert(b, v, resp)
  PROVE  /\ counter \in [Shards -> Nat] /\ ShardOf(b) \in Shards
         /\ counter' = [counter EXCEPT ![ShardOf(b)] = @ + 1]
         /\ NextID(b) \notin DOMAIN entries
         /\ DOMAIN entries' \subseteq DOMAIN entries \cup {NextID(b)}
         /\ \A i \in DOMAIN entries' :
               entries'[i] = IF i = NextID(b) THEN NewEntry(b, v, resp) ELSE entries[i]
<1>1. ShardOf(b) \in Shards /\ counter \in [Shards -> Nat]
  BY Bounds, StoreAssumption DEF StoreInv, StoreTypeOK
<1>2. NextID(b) \notin DOMAIN entries
  BY <1>1 DEF StoreInv, OnlyIssuedIDs, NextID
<1> QED
  BY <1>1, <1>2 DEF Insert

\* A request that is planted teaches the store its own answer, in a new entry.
LEMMA PlantingKeepsInv ==
  ASSUME GatewayInv, NEW r \in Requests, r \notin Planted,
         Insert(Ask[r].bucket, Ask[r].vec, r), Planted' = Planted \cup {r},
         UNCHANGED found, \A q \in Requests : Offers(q)' <=> Offers(q)
  PROVE  LearningInv' /\ \A i : LabelsOf(i)' = LabelsOf(i)
<1>0. PICK id, sh : id = NextID(Ask[r].bucket) /\ sh = ShardOf(Ask[r].bucket)
  OBVIOUS
<1>1. Ask[r].bucket \in Buckets /\ Ask[r].vec \in Vecs /\ r \in Responses
  BY AskFacts, GatewayAssumption
<1>2. /\ counter \in [Shards -> Nat] /\ sh \in Shards
      /\ counter' = [counter EXCEPT ![sh] = @ + 1]
      /\ id \notin DOMAIN entries
      /\ DOMAIN entries' \subseteq DOMAIN entries \cup {id}
      /\ \A i \in DOMAIN entries' :
            entries'[i] = IF i = id THEN NewEntry(Ask[r].bucket, Ask[r].vec, r) ELSE entries[i]
  BY <1>0, <1>1, InsertFacts DEF GatewayInv
<1>3. id[1] = sh /\ id[2] = counter[sh] + 1
  BY <1>0 DEF NextID
<1>4. id \in DOMAIN entries' =>
         /\ entries'[id].bucket = Ask[r].bucket /\ entries'[id].resp = r
         /\ entries'[id].obs = << >> /\ entries'[id].seen = 0
  BY <1>2 DEF NewEntry
<1>5. \A i \in DOMAIN entries' : i # id => i \in DOMAIN entries /\ entries'[i] = entries[i]
  BY <1>2
<1>6. \A i : LabelsOf(i)' = LabelsOf(i)
  BY SameLabelsOf
<1>7. \A q \in Requests : found[q] # NoMatch =>
         /\ found[q].id # id
         /\ found[q].id[2] <= counter'[found[q].id[1]]
  <2> SUFFICES ASSUME NEW q \in Requests, found[q] # NoMatch
               PROVE  found[q].id # id /\ found[q].id[2] <= counter'[found[q].id[1]]
    OBVIOUS
  <2>1. found[q].id[2] <= counter[found[q].id[1]]
    BY DEF GatewayInv, LearningInv, MatchesInv
  <2>2. found[q].id \in EntryIDs
    BY MatchFacts DEF GatewayInv, GatewayTypeOK
  <2>3. found[q].id[1] \in Shards /\ found[q].id[2] \in Nat
    BY <2>2, StoreAssumption DEF EntryIDs
  <2> QED
    BY <1>2, <1>3, <2>1, <2>3
<1>8. MatchesInv' /\ SameEntrySameAnswer'
  BY <1>5, <1>7 DEF GatewayInv, LearningInv, MatchesInv, SameEntrySameAnswer
<1>9. EntriesInv'
  BY <1>4, <1>5 DEF GatewayInv, LearningInv, EntriesInv
<1>10. LabelsReachTheirEntry'
  <2>1. LabelsOf(id) = {}
    BY <1>7 DEF LabelsOf, Offers
  <2>2. Cardinality({}) = 0
    BY FS_EmptySet
  <2>3. ASSUME NEW i \in DOMAIN entries', i = id
        PROVE  entries'[i].seen = Cardinality(LabelsOf(i)) /\ DOMAIN entries'[i].obs = {}
    <3>1. entries'[i].seen = 0 /\ entries'[i].obs = << >>
      BY <1>4, <2>3
    <3>2. Cardinality(LabelsOf(i)) = 0
      BY <2>1, <2>2, <2>3
    <3>3. DOMAIN << >> = {}
      OBVIOUS
    <3> QED
      BY <3>1, <3>2, <3>3
  <2>4. ASSUME NEW i \in DOMAIN entries', i # id
        PROVE  /\ entries'[i].seen = Cardinality(LabelsOf(i))
               /\ \A k \in DOMAIN entries'[i].obs :
                     /\ entries'[i].obs[k].by \in LabelsOf(i)
                     /\ entries'[i].obs[k].c => SameAnswer[<<entries'[i].obs[k].by, entries'[i].resp>>]
    BY <1>5, <2>4 DEF GatewayInv, LearningInv, LabelsReachTheirEntry
  <2> QED
    BY <1>6, <2>3, <2>4 DEF LabelsReachTheirEntry
<1>11. InsertsAreGuarded'
  <2> DEFINE Of(s)  == {q \in Planted : ShardOf(Ask[q].bucket) = s}
             Now(s) == {q \in Planted' : ShardOf(Ask[q].bucket) = s}
  <2>1. Now(sh) = Of(sh) \cup {r} /\ \A s : s # sh => Now(s) = Of(s)
    BY <1>0
  <2>2. r \notin Of(sh) /\ Of(sh) \subseteq Requests
    BY EndedFacts
  <2>3. \A s \in Shards : counter[s] = Cardinality(Of(s))
    BY DEF GatewayInv, LearningInv, InsertsAreGuarded
  <2> HIDE DEF Of, Now
  <2>4. Cardinality(Now(sh)) = Cardinality(Of(sh)) + 1
    BY <2>1, <2>2, OneMore
  <2>5. \A s \in Shards : counter'[s] = Cardinality(Now(s))
    BY <1>2, <2>1, <2>3, <2>4
  <2>6. /\ \A i \in DOMAIN entries : entries[i].resp \in Planted
        /\ \A i, j \in DOMAIN entries : entries[i].resp = entries[j].resp => i = j
    BY DEF GatewayInv, LearningInv, InsertsAreGuarded
  <2>7. \A i \in DOMAIN entries' : entries'[i].resp \in Planted'
    BY <1>4, <1>5, <2>6
  <2>8. \A i, j \in DOMAIN entries' : entries'[i].resp = entries'[j].resp => i = j
    BY <1>4, <1>5, <2>6
  <2> QED
    BY <2>5, <2>7, <2>8 DEF InsertsAreGuarded, Now, ShardOf, Shards
<1> QED
  BY <1>6, <1>8, <1>9, <1>10, <1>11 DEF LearningInv

\* A cold miss plants its answer.
LEMMA ColdInsertKeepsInv ==
  ASSUME GatewayInv, NEW r \in Requests, ColdInsert(r)
  PROVE  /\ GatewayInv' /\ r \notin Planted /\ Planted' = Planted \cup {r}
         /\ \A q \in Requests : Offers(q)' <=> Offers(q)
<1>1. /\ pc[r] = "learn" /\ found[r] = NoMatch /\ pc' = [pc EXCEPT ![r] = "done"]
      /\ Insert(Ask[r].bucket, Ask[r].vec, r)
      /\ UNCHANGED <<queue, phase, job, verdict, closing, outcome, labels>>
      /\ UNCHANGED <<spent, reply, found, half>>
  BY DEF ColdInsert, Goto, labelerVars
<1>2. pc \in [Requests -> Steps] /\ reply[r] = "miss"
  BY <1>1 DEF GatewayInv, GatewayTypeOK, HandlersInv, Replied
<1>3. /\ pc' \in [Requests -> Steps] /\ pc'[r] = "done"
      /\ \A q \in Requests : q # r => pc'[q] = pc[q]
  BY <1>1, <1>2 DEF Steps
<1>4. \A q \in Requests : (Offers(q)' <=> Offers(q)) /\ JobOf(q)' = JobOf(q)
  BY <1>1 DEF Offers, Labels, JobOf
<1>5. r \notin Planted
  BY <1>1, EndedFacts
<1>6. Planted' = Planted \cup {r}
  <2>1. Refuting' = Refuting
    BY <1>1, <1>4 DEF Refuting
  <2>2. ColdLearned' = ColdLearned \cup {r}
    BY <1>1, <1>2, <1>3 DEF ColdLearned
  <2> QED
    BY <2>1, <2>2 DEF Planted
<1>7. LearningInv' /\ \A i : LabelsOf(i)' = LabelsOf(i)
  BY <1>1, <1>4, <1>5, <1>6, PlantingKeepsInv
<1>8. r \in Responses /\ StoreInv' /\ LabelerInv'
  BY <1>1, AskFacts, GatewayAssumption, InsertKeepsInv, LabelerStutterKeepsInv DEF GatewayInv, labelerVars
<1>9. GatewayTypeOK' /\ HandlersInv'
  BY <1>1, <1>2, <1>3 DEF GatewayInv, GatewayTypeOK, HandlersInv, BeforeLookup, Replied
<1>10. JobsInv' /\ VerdictsInv'
  <2>1. VerdictsInv'
    BY <1>1 DEF GatewayInv, VerdictsInv
  <2>2. ASSUME NEW j \in Jobs, outcome[j] # "new"
        PROVE  /\ found'[j[1]] # NoMatch /\ j = JobOf(j[1])'
               /\ pc'[j[1]] = "done" /\ reply'[j[1]] = "miss"
    <3>1. /\ found[j[1]] # NoMatch /\ j = JobOf(j[1]) /\ j[1] \in Requests
          /\ pc[j[1]] = "done" /\ reply[j[1]] = "miss"
      BY <2>2, JobsAreComparisons DEF GatewayInv, JobsInv
    <3> QED
      BY <1>1, <1>3, <1>4, <3>1
  <2>3. JobsInv'
    BY <1>1, <2>2 DEF JobsInv
  <2> QED
    BY <2>1, <2>3
<1>11. HitsInv'
  BY <1>1, <1>3, <1>7 DEF GatewayInv, HitsInv
<1> QED
  BY <1>4, <1>5, <1>6, <1>7, <1>8, <1>9, <1>10, <1>11 DEF GatewayInv

\* The second half of OnResult: a refuted neighbor's request plants its own answer.
LEMMA CallbackInsertsKeepsInv ==
  ASSUME GatewayInv, NEW w \in Workers, NEW r \in Requests, CallbackInserts(w, r)
  PROVE  /\ GatewayInv' /\ r \notin Planted /\ Planted' = IF verdict[w] THEN Planted ELSE Planted \cup {r}
         /\ \A q \in Requests : Offers(q)' <=> Offers(q)
<1>0. PICK j : j = job[w]
  OBVIOUS
<1>1. /\ Labels(w, r) /\ half[w] = "insert" /\ GuardedInsert(r, verdict[w]) /\ CallbackReturns(w)
      /\ half' = [half EXCEPT ![w] = "observe"]
      /\ labels' = [labels EXCEPT ![j] = Append(@, verdict[w])]
      /\ phase' = [phase EXCEPT ![w] = "receive"]
      /\ UNCHANGED <<queue, job, verdict, closing, outcome>>
      /\ UNCHANGED <<spent, pc, reply, found>>
  BY <1>0 DEF CallbackInserts, CallbackReturns, handlerVars
<1>2. /\ half \in [Workers -> {"observe", "insert"}] /\ phase \in [Workers -> Phases]
      /\ verdict \in [Workers -> BOOLEAN] /\ labels \in [Jobs -> Seq(BOOLEAN)]
      /\ phase[w] = "callback" /\ j[1] = r
  BY <1>0, <1>1 DEF GatewayInv, GatewayTypeOK, LabelerInv, LabelerTypeOK, Labels
<1>3. /\ found[r] # NoMatch /\ j = JobOf(r) /\ j \in Jobs /\ pc[r] = "done" /\ reply[r] = "miss"
      /\ labels[j] = << >>
  BY <1>0, <1>1, <1>2, LabelsAreOfEndedRequests, HeldJob DEF GatewayInv
<1>4. /\ half' \in [Workers -> {"observe", "insert"}] /\ half'[w] = "observe"
      /\ phase'[w] = "receive"
      /\ \A v \in Workers : v # w => half'[v] = half[v] /\ phase'[v] = phase[v]
  BY <1>1, <1>2
<1>5. labels'[j] = <<verdict[w]>> /\ verdict[w] \in BOOLEAN /\ \A k \in Jobs : k # j => labels'[k] = labels[k]
  BY <1>1, <1>2, <1>3
<1>6. \A q \in Requests : JobOf(q)' = JobOf(q) /\ JobOf(q) \in Jobs /\ (q # r => JobOf(q) # j)
  BY <1>1, <1>2, JobFacts DEF GatewayInv, JobOf
<1>7. \A q \in Requests : Offers(q)' <=> Offers(q)
  <2>1. Offers(r) /\ Offers(r)'
    <3>1. <<verdict[w]>> # << >>
      OBVIOUS
    <3> QED
      BY <1>1, <1>3, <1>5, <1>6, <3>1 DEF Offers
  <2>2. ASSUME NEW q \in Requests, q # r PROVE Offers(q)' <=> Offers(q)
    <3>1. \A v \in Workers : (Labels(v, q) /\ half[v] = "insert")' <=> (Labels(v, q) /\ half[v] = "insert")
      BY <1>0, <1>1, <1>2, <1>4, <2>2 DEF Labels
    <3>2. labels'[JobOf(q)'] = labels[JobOf(q)] /\ found'[q] = found[q]
      BY <1>1, <1>5, <1>6, <2>2
    <3> QED
      BY <3>1, <3>2 DEF Offers
  <2> QED
    BY <2>1, <2>2
<1>8. ColdLearned' = ColdLearned /\ r \notin ColdLearned
  BY <1>1, <1>3 DEF ColdLearned
<1>9. r \notin Refuting /\ Refuting' = IF verdict[w] THEN Refuting ELSE Refuting \cup {r}
  <2>1. << >> # <<FALSE>> /\ <<TRUE>> # <<FALSE>>
    OBVIOUS
  <2>2. r \notin Refuting
    BY <1>3, <2>1 DEF Refuting
  <2>3. r \in Refuting' <=> ~verdict[w]
    BY <1>1, <1>3, <1>5, <1>6, <2>1 DEF Refuting
  <2>4. ASSUME NEW q \in Requests, q # r PROVE q \in Refuting' <=> q \in Refuting
    BY <1>1, <1>5, <1>6, <2>4 DEF Refuting
  <2>5. Refuting \subseteq Requests /\ Refuting' \subseteq Requests
    BY DEF Refuting
  <2> QED
    BY <1>5, <2>2, <2>3, <2>4, <2>5
<1>10. LearningInv' /\ StoreInv' /\ \A i : LabelsOf(i)' = LabelsOf(i)
  <2>1. CASE verdict[w]
    <3>1. UNCHANGED <<counter, lru, entries>>
      BY <1>1, <2>1 DEF GuardedInsert, storeVars
    <3>2. Planted' = Planted
      BY <1>8, <1>9, <2>1 DEF Planted
    <3>3. LearningInv' /\ \A i : LabelsOf(i)' = LabelsOf(i)
      BY <1>1, <1>7, <3>1, <3>2, QuietStep DEF TeachesNothing
    <3>4. StoreInv'
      BY <3>1, StutterKeepsInv DEF GatewayInv, storeVars
    <3> QED
      BY <3>3, <3>4
  <2>2. CASE ~verdict[w]
    <3>1. Insert(Ask[r].bucket, Ask[r].vec, r)
      BY <1>1, <2>2 DEF GuardedInsert
    <3>2. Planted' = Planted \cup {r} /\ r \notin Planted
      BY <1>8, <1>9, <2>2 DEF Planted
    <3>3. LearningInv' /\ \A i : LabelsOf(i)' = LabelsOf(i)
      BY <1>1, <1>7, <3>1, <3>2, PlantingKeepsInv
    <3>4. r \in Responses /\ StoreInv'
      BY <3>1, AskFacts, GatewayAssumption, InsertKeepsInv DEF GatewayInv
    <3> QED
      BY <3>3, <3>4
  <2> QED
    BY <2>1, <2>2
<1>11. LabelerInv'
  BY <1>1, CallbackKeepsInv DEF GatewayInv
<1>12. GatewayTypeOK' /\ HandlersInv' /\ JobsInv'
  BY <1>1, <1>4, <1>6, JobsAreComparisons DEF GatewayInv, GatewayTypeOK, HandlersInv, JobsInv
<1>13. VerdictsInv'
  <2>1. /\ \A v \in Workers : phase'[v] = "callback" /\ verdict'[v] => SameAnswer[job'[v]]
        /\ \A v \in Workers : half'[v] = "insert" => phase'[v] = "callback"
    BY <1>1, <1>4 DEF GatewayInv, VerdictsInv
  <2>2. \/ labels'[j] = <<FALSE>>
        \/ labels'[j] = <<TRUE>> /\ SameAnswer[j]
    <3>1. verdict[w] => SameAnswer[j]
      BY <1>0, <1>2 DEF GatewayInv, VerdictsInv
    <3> QED
      BY <1>5, <3>1
  <2>3. \A k \in Jobs : labels'[k] # << >> => labels'[k] = <<FALSE>> \/ (labels'[k] = <<TRUE>> /\ SameAnswer[k])
    BY <1>5, <2>2 DEF GatewayInv, VerdictsInv
  <2> QED
    BY <2>1, <2>3 DEF VerdictsInv
<1>14. HitsInv'
  BY <1>1, <1>10 DEF GatewayInv, HitsInv
<1>15. r \notin Planted /\ Planted' = IF verdict[w] THEN Planted ELSE Planted \cup {r}
  BY <1>8, <1>9 DEF Planted
<1> QED
  BY <1>7, <1>10, <1>15, <1>11, <1>12, <1>13, <1>14 DEF GatewayInv

-----------------------------------------------------------------------------
\* No request has arrived.
LEMMA GatewayInitInv == GatewayInit => GatewayInv
<1> SUFFICES ASSUME GatewayInit PROVE GatewayInv
  OBVIOUS
<1>1. StoreInv /\ LabelerInv
  BY InitEstablishesInv, LabelerInitInv DEF GatewayInit
<1>2. /\ counter = [sh \in Shards |-> 0] /\ entries = << >> /\ DOMAIN entries = {}
      /\ phase = [v \in Workers |-> "receive"] /\ outcome = [j \in Jobs |-> "new"]
      /\ labels = [j \in Jobs |-> << >>]
      /\ spent = [k \in Keys |-> 0]
      /\ pc = [r \in Requests |-> "new"] /\ reply = [r \in Requests |-> "none"]
      /\ found = [r \in Requests |-> NoMatch] /\ half = [v \in Workers |-> "observe"]
  BY DEF GatewayInit, StoreInit, LabelerInit, BudgetInit
<1>3. GatewayTypeOK /\ HandlersInv
  BY <1>2, MatchFacts DEF GatewayTypeOK, HandlersInv, Steps, Replies, BeforeLookup, Replied
<1>4. JobsInv /\ VerdictsInv
  BY <1>2 DEF JobsInv, VerdictsInv
<1>5. Planted = {}
  BY <1>2 DEF Planted, ColdLearned, Refuting
<1>6. MatchesInv /\ SameEntrySameAnswer /\ EntriesInv /\ LabelsReachTheirEntry
  BY <1>2 DEF MatchesInv, SameEntrySameAnswer, EntriesInv, LabelsReachTheirEntry
<1>7. InsertsAreGuarded
  <2>1. \A sh \in Shards : {r \in Planted : ShardOf(Ask[r].bucket) = sh} = {}
    BY <1>5
  <2> QED
    BY <1>2, <2>1, FS_EmptySet DEF InsertsAreGuarded
<1>8. HitsInv
  BY <1>2 DEF HitsInv
<1> QED
  BY <1>1, <1>3, <1>4, <1>6, <1>7, <1>8 DEF GatewayInv, LearningInv

\* A request's step is no other request's.
LEMMA OthersStand ==
  ASSUME GatewayInv, NEW r \in Requests, Arrive(r) \/ Handle(r)
  PROVE  \A q \in Requests : q # r => pc'[q] = pc[q] /\ reply'[q] = reply[q] /\ found'[q] = found[q]
<1>1. pc \in [Requests -> Steps] /\ reply \in [Requests -> Replies] /\ found \in [Requests -> Matches]
  BY DEF GatewayInv, GatewayTypeOK
<1>2. CASE Arrive(r)
  BY <1>1, <1>2 DEF Arrive, Reject, Admit, Goto, Answer
<1>3. CASE Handle(r)
  BY <1>1, <1>3 DEF Handle, Passthrough, EmbedFails, EmbedReturns, Lookup, LookupFindsNothing, ServeHit,
                    FetchFails, FetchReturns, Account, ColdInsert, SubmitForLabel, Goto, Answer
<1> QED
  BY <1>2, <1>3

\* A step of a request keeps the invariant.
LEMMA RequestStepKeepsInv ==
  ASSUME GatewayInv, NEW r \in Requests, Arrive(r) \/ Handle(r)
  PROVE  GatewayInv'
<1>1. CASE Arrive(r)
  BY <1>1, HandlerStepKeepsInv DEF Arrive
<1>2. CASE Handle(r)
  BY <1>2, HandlerStepKeepsInv, LookupKeepsInv, ColdInsertKeepsInv, SubmitForLabelKeepsInv DEF Handle
<1> QED
  BY <1>1, <1>2

\* So does a step of a worker.
LEMMA WorkKeepsInv ==
  ASSUME GatewayInv, NEW w \in Workers, Work(w)
  PROVE  GatewayInv'
BY IdleKeepsInv, CallbackObservesKeepsInv, CallbackInsertsKeepsInv DEF Work

\* And a step of neither.
LEMMA GatewayStutterKeepsInv ==
  ASSUME GatewayInv, UNCHANGED gatewayVars
  PROVE  GatewayInv' /\ TeachesNothing
<1>1. /\ UNCHANGED <<counter, lru, entries>>
      /\ UNCHANGED <<queue, phase, job, verdict, closing, outcome, labels>>
      /\ UNCHANGED <<spent, pc, reply, found, half>>
  BY DEF gatewayVars, storeVars, labelerVars, handlerVars
<1>2. \A q \in Requests : (Offers(q)' <=> Offers(q)) /\ JobOf(q)' = JobOf(q)
  BY <1>1 DEF Offers, JobOf, Labels
<1>3. Planted' = Planted
  BY <1>1, <1>2 DEF Planted, ColdLearned, Refuting
<1>4. LearningInv' /\ \A id : LabelsOf(id)' = LabelsOf(id)
  BY <1>1, <1>2, <1>3, QuietStep DEF TeachesNothing
<1>5. StoreInv' /\ LabelerInv'
  BY <1>1, StutterKeepsInv, LabelerStutterKeepsInv DEF GatewayInv, storeVars, labelerVars
<1>6. GatewayTypeOK' /\ HandlersInv' /\ VerdictsInv'
  BY <1>1 DEF GatewayInv, GatewayTypeOK, HandlersInv, VerdictsInv
<1>7. JobsInv'
  BY <1>1, <1>2, JobsAreComparisons DEF GatewayInv, JobsInv
<1>8. HitsInv'
  BY <1>1, <1>4 DEF GatewayInv, HitsInv
<1> QED
  BY <1>2, <1>3, <1>4, <1>5, <1>6, <1>7, <1>8 DEF GatewayInv, TeachesNothing

\* Every step of the gateway keeps its invariant.
LEMMA GatewayNextInv == GatewayInv /\ [GatewayNext]_gatewayVars => GatewayInv'
BY RequestStepKeepsInv, WorkKeepsInv, GatewayStutterKeepsInv DEF GatewayNext

\* Handlers, store, queue, workers and tracker agree at every moment.
THEOREM GatewayInvariant == GatewaySpec => []GatewayInv
BY GatewayInitInv, GatewayNextInv, PTL DEF GatewaySpec

\* A handler's state keeps its type, and one that has returned has answered.
THEOREM GatewayTypeCorrect == GatewaySpec => []GatewayTypeOK
<1>1. GatewayInv => GatewayTypeOK
  BY DEF GatewayInv
<1> QED
  BY <1>1, GatewayInvariant, PTL

\* However late a label comes and whatever the store has evicted meanwhile, it counts
\* for the entry its request was compared with and for no other, once, and a positive
\* one is true of that entry's answer (the closure in exploreWithNeighbor, Observe).
THEOREM LabelsAlwaysReachTheirEntry == GatewaySpec => []LabelsReachTheirEntry
<1>1. GatewayInv => LabelsReachTheirEntry
  BY DEF GatewayInv, LearningInv
<1> QED
  BY <1>1, GatewayInvariant, PTL

\* The store is given an entry for each cold miss and each refuted neighbor, in the
\* shard of the request's bucket, and for nothing else (exploreColdMiss, GuardedInsert).
THEOREM InsertsAlwaysGuarded == GatewaySpec => []InsertsAreGuarded
<1>1. GatewayInv => InsertsAreGuarded
  BY DEF GatewayInv, LearningInv
<1> QED
  BY <1>1, GatewayInvariant, PTL

\* A hit is the answer another request of the same bucket got from the backend, and it
\* was judged NMin times, by as many requests, before it was served (serveHit, Decide).
THEOREM HitsAlwaysEarned == GatewaySpec => []HitsAreEarned
<1>1. ASSUME GatewayInv PROVE HitsAreEarned
  <2> SUFFICES ASSUME NEW r \in Requests, pc[r] = "hit" \/ reply[r] = "hit"
               PROVE  /\ Ask[found[r].of].bucket = Ask[r].bucket
                      /\ reply[found[r].of] = "miss"
                      /\ Cardinality(LabelsOf(found[r].id)) >= NMin
    BY DEF HitsAreEarned
  <2>1. found[r] # NoMatch
    BY <1>1 DEF GatewayInv, HandlersInv
  <2>2. found[r].of \in Planted /\ Ask[found[r].of].bucket = Ask[r].bucket
    BY <1>1, <2>1 DEF GatewayInv, LearningInv, MatchesInv
  <2>3. reply[found[r].of] = "miss"
    BY <1>1, <2>2, EndedFacts
  <2>4. Cardinality(LabelsOf(found[r].id)) >= NMin
    BY <1>1 DEF GatewayInv, HitsInv
  <2> QED
    BY <2>2, <2>3, <2>4
<1> QED
  BY <1>1, GatewayInvariant, PTL

-----------------------------------------------------------------------------
\* The verdict on a request is that of the worker that holds its job, and after that
\* its label.
VerdictsAreHeld ==
  /\ \A v \in Workers, r \in Requests : Labels(v, r) => VerdictOn(r) = verdict[v]
  /\ \A r \in Requests : labels[JobOf(r)] # << >> => VerdictOn(r) = labels[JobOf(r)][1]

\* No two workers hold a verdict on the same request.
LEMMA VerdictFacts == GatewayInv => VerdictsAreHeld
<1> SUFFICES ASSUME GatewayInv, NEW v \in Workers, NEW r \in Requests, Labels(v, r)
             PROVE  VerdictOn(r) = verdict[v]
  BY DEF VerdictsAreHeld, VerdictOn
<1>1. labels[JobOf(r)] = << >> /\ job[v] = JobOf(r) /\ phase[v] = "callback"
  BY LabelsAreOfEndedRequests DEF Labels
<1>2. ASSUME NEW u \in Workers, Labels(u, r) PROVE u = v
  <2>1. job[u] = JobOf(r) /\ phase[u] = "callback"
    BY <1>2, LabelsAreOfEndedRequests DEF Labels
  <2> QED
    BY <1>1, <2>1, HeldJob DEF GatewayInv
<1>3. (CHOOSE u \in Workers : Labels(u, r)) = v
  BY <1>2
<1> QED
  BY <1>1, <1>3 DEF VerdictOn

\* A label that has been offered keeps its verdict, whoever holds it.
LEMMA SameVerdicts ==
  ASSUME GatewayInv, GatewayInv', UNCHANGED labels,
         \A q \in Requests : Offers(q) => found'[q] = found[q],
         \A v \in Workers : half[v] = "insert" =>
            phase'[v] = phase[v] /\ job'[v] = job[v] /\ verdict'[v] = verdict[v]
  PROVE  \A q \in Requests : Offers(q) => VerdictOn(q)' = VerdictOn(q)
<1> SUFFICES ASSUME NEW q \in Requests, Offers(q)
             PROVE  VerdictOn(q)' = VerdictOn(q)
  OBVIOUS
<1>1. JobOf(q)' = JobOf(q)
  BY DEF JobOf
<1>2. VerdictsAreHeld /\ VerdictsAreHeld'
  BY VerdictFacts, PTL
<1>3. CASE labels[JobOf(q)] # << >>
  BY <1>1, <1>2, <1>3 DEF VerdictsAreHeld
<1>4. CASE \E v \in Workers : Labels(v, q) /\ half[v] = "insert"
  <2>1. PICK v \in Workers : Labels(v, q) /\ half[v] = "insert"
    BY <1>4
  <2>2. Labels(v, q)' /\ verdict'[v] = verdict[v]
    BY <2>1 DEF Labels
  <2> QED
    BY <1>2, <2>1, <2>2 DEF VerdictsAreHeld
<1> QED
  BY <1>3, <1>4 DEF Offers

\* What the promise calls a verdict.
LEMMA VerdictsUnchanged ==
  ASSUME \A q \in Requests : Offers(q)' <=> Offers(q),
         \A q \in Requests : Offers(q) => found'[q] = found[q] /\ VerdictOn(q)' = VerdictOn(q)
  PROVE  Verdicts' = Verdicts
<1> DEFINE Passed == {q \in Requests : Offers(q)}
<1>1. Passed' = Passed
  OBVIOUS
<1>2. \A q \in Passed : found'[q].of = found[q].of /\ VerdictOn(q)' = VerdictOn(q)
  OBVIOUS
<1>3. Verdicts = {<<q, found[q].of, VerdictOn(q)>> : q \in Passed}
  BY DEF Verdicts
<1>4. Verdicts' = {<<q, found'[q].of, VerdictOn(q)'>> : q \in Passed'}
  BY DEF Verdicts
<1> HIDE DEF Passed
<1> QED
  BY <1>1, <1>2, <1>3, <1>4

\* The answers of the promise, of which a step changes at most one.
Answers == [r \in Requests |-> AnswerOf(r)]

\* Who answers and what.
LEMMA AnswerFacts ==
  /\ \A r \in Requests : Answers[r] = AnswerOf(r)
  /\ \A r \in Requests : reply[r] = "none" => AnswerOf(r).how = "none"
  /\ \A r \in Requests : reply[r] = "miss" => AnswerOf(r) = [how |-> "fresh", of |-> r]
BY DEF Answers, AnswerOf

\* No step but a reply changes an answer.
LEMMA AnswersUnchanged ==
  ASSUME UNCHANGED reply, \A q \in Requests : reply[q] = "hit" => found'[q] = found[q]
  PROVE  Answers' = Answers
BY DEF Answers, AnswerOf

\* A reply changes the answer of its own request.
LEMMA OneAnswer ==
  ASSUME GatewayTypeOK, NEW r \in Requests, NEW s, reply' = [reply EXCEPT ![r] = s], UNCHANGED found
  PROVE  Answers' = [Answers EXCEPT ![r] = AnswerOf(r)']
<1>1. reply'[r] = s /\ \A q \in Requests : q # r => reply'[q] = reply[q]
  BY DEF GatewayTypeOK
<1> QED
  BY <1>1 DEF Answers, AnswerOf

\* The requests a stored answer was judged for passed a verdict on it each.
LEMMA VerdictsOnAnEntry ==
  ASSUME GatewayInv, NEW r \in Requests, found[r] # NoMatch
  PROVE  \A n \in Nat : Cardinality(LabelsOf(found[r].id)) >= n
                        => Cardinality({v \in Verdicts : v[2] = found[r].of}) >= n
<1> DEFINE L == LabelsOf(found[r].id)
           V == {v \in Verdicts : v[2] = found[r].of}
           O == {q \in Requests : Offers(q)}
           h == [q \in L |-> <<q, found[q].of, VerdictOn(q)>>]
           g == [q \in O |-> <<q, found[q].of, VerdictOn(q)>>]
<1>1. IsFiniteSet(L) /\ IsFiniteSet(O)
  BY SetsOfRequests DEF LabelsOf
<1>2. g \in Surjection(O, Verdicts)
  BY DEF Surjection, Verdicts
<1>3. IsFiniteSet(Verdicts)
  BY <1>1, <1>2, FS_Surjection
<1>4. IsFiniteSet(V) /\ Cardinality(V) \in Nat /\ Cardinality(L) \in Nat
  BY <1>1, <1>3, FS_Subset, FS_CardinalityType
<1>5. \A q \in L : q \in O /\ found[q].of = found[r].of
  BY DEF LabelsOf, Offers, GatewayInv, LearningInv, SameEntrySameAnswer
<1>6. \A q \in L : h[q] \in V
  BY <1>5 DEF Verdicts
<1>7. h \in Injection(L, V)
  <2>1. h \in [L -> V] /\ \A a, b \in L : h[a] = h[b] => a = b
    BY <1>6
  <2> HIDE DEF h
  <2> QED
    BY <2>1 DEF Injection, IsInjective
<1>8. Cardinality(L) <= Cardinality(V)
  BY <1>4, <1>7, FS_Injection
<1> QED
  BY <1>4, <1>8

-----------------------------------------------------------------------------
\* A step that neither answers, plants nor judges is none of the promise.
LEMMA SilentStep ==
  ASSUME UNCHANGED reply, Planted' = Planted, Verdicts' = Verdicts,
         \A q \in Requests : reply[q] = "hit" => found'[q] = found[q]
  PROVE  UNCHANGED Promise!promiseVars
BY AnswersUnchanged DEF Promise!promiseVars, Answers

\* A request is answered for good.
LEMMA ReplyStep ==
  ASSUME GatewayInv, NEW r \in Requests, NEW s \in Replies \ {"none"}, reply[r] = "none",
         reply' = [reply EXCEPT ![r] = s], UNCHANGED found,
         Planted' = Planted, Verdicts' = Verdicts, s = "hit" => pc[r] = "hit"
  PROVE  Promise!PromiseNext
<1>1. reply'[r] = s /\ Answers' = [Answers EXCEPT ![r] = AnswerOf(r)'] /\ Answers[r].how = "none"
  BY OneAnswer, AnswerFacts DEF GatewayInv, GatewayTypeOK
<1>2. CASE s # "hit"
  <2>1. PICK how \in {"refused", "failed", "relayed", "fresh"} : AnswerOf(r)' = [how |-> how, of |-> r]
    BY <1>1, <1>2 DEF AnswerOf, Replies
  <2>2. Promise!Answered(r, how, r)
    BY <1>1, <2>1 DEF Promise!Answered, Answers
  <2> QED
    BY <2>2 DEF Promise!PromiseNext, Promise!FromBackend
<1>3. CASE s = "hit"
  <2> DEFINE q == found[r].of
  <2>1. found[r] # NoMatch /\ Cardinality(LabelsOf(found[r].id)) >= NMin
    BY <1>3 DEF GatewayInv, HandlersInv, HitsInv
  <2>2. q \in Planted /\ Ask[q].bucket = Ask[r].bucket /\ q \in Requests
    BY <2>1, EndedFacts DEF GatewayInv, LearningInv, MatchesInv
  <2>3. AnswerOf(r)' = [how |-> "cached", of |-> q]
    BY <1>1, <1>3 DEF AnswerOf
  <2>4. Cardinality({v \in Verdicts : v[2] = q}) >= NMin
    BY <2>1, VerdictsOnAnEntry, GatewayAssumption
  <2>5. Promise!Answered(r, "cached", q)
    BY <1>1, <2>3 DEF Promise!Answered, Answers
  <2> HIDE DEF q
  <2> DEFINE V == {v \in Verdicts : v[2] = q}
  <2>6. Promise!Cardinality(V) = Cardinality(V)
    BY DEF Promise!Cardinality, Cardinality
  <2>7. Promise!FromCache(r, q)
    BY <2>2, <2>4, <2>5, <2>6 DEF Promise!FromCache
  <2> QED
    BY <2>2, <2>7 DEF Promise!PromiseNext
<1> QED
  BY <1>2, <1>3

\* The handlers' own steps are replies, or none of the promise.
LEMMA HandlerStepSimulates ==
  ASSUME GatewayInv, GatewayInv', NEW r \in Requests,
         \/ Reject(r) \/ Admit(r) \/ Passthrough(r) \/ EmbedFails(r) \/ EmbedReturns(r)
         \/ LookupFindsNothing(r) \/ ServeHit(r) \/ FetchFails(r) \/ FetchReturns(r) \/ Account(r)
  PROVE  Promise!PromiseNext \/ UNCHANGED Promise!promiseVars
<1>1. TeachesNothing
  BY HandlerStepKeepsInv
<1>2. /\ UNCHANGED found
      /\ UNCHANGED <<labels, half, phase, job, verdict>>
  BY DEF Reject, Admit, Passthrough, EmbedFails, EmbedReturns, LookupFindsNothing, ServeHit,
         FetchFails, FetchReturns, Account, labelerVars
<1>3. Planted' = Planted /\ Verdicts' = Verdicts
  <2>1. \A q \in Requests : Offers(q) => VerdictOn(q)' = VerdictOn(q)
    BY <1>2, SameVerdicts
  <2> QED
    BY <1>1, <1>2, <2>1, VerdictsUnchanged DEF TeachesNothing
<1>4. CASE UNCHANGED reply
  BY <1>2, <1>3, <1>4, SilentStep
<1>5. CASE Admit(r) \/ EmbedFails(r) \/ EmbedReturns(r) \/ LookupFindsNothing(r) \/ Account(r)
  <2>1. UNCHANGED reply
    BY <1>5 DEF Admit, EmbedFails, EmbedReturns, LookupFindsNothing, Account
  <2> QED
    BY <1>4, <2>1
<1>6. pc[r] \notin Replied \cup {"done"} => reply[r] = "none"
  BY DEF GatewayInv, HandlersInv
<1>7. CASE Reject(r)
  <2>1. Screen(r) \in Replies \ {"none", "hit"}
    BY <1>7 DEF Reject, Screen, Replies
  <2>2. reply[r] = "none" /\ reply' = [reply EXCEPT ![r] = Screen(r)]
    BY <1>6, <1>7 DEF Reject, Answer, Replied
  <2> QED
    BY <1>2, <1>3, <2>1, <2>2, ReplyStep
<1>8. CASE Passthrough(r)
  <2>1. reply[r] = "none" /\ reply' = [reply EXCEPT ![r] = "passed"] /\ "passed" \in Replies
    BY <1>6, <1>8 DEF Passthrough, Answer, Replied, Replies
  <2> QED
    BY <1>2, <1>3, <2>1, ReplyStep
<1>9. CASE ServeHit(r)
  <2>1. reply[r] = "none" /\ reply' = [reply EXCEPT ![r] = "hit"] /\ pc[r] = "hit" /\ "hit" \in Replies
    BY <1>6, <1>9 DEF ServeHit, Answer, Replied, Replies
  <2> QED
    BY <1>2, <1>3, <2>1, ReplyStep
<1>10. CASE FetchFails(r)
  <2>1. PICK status \in {"502", "relayed"} : reply' = [reply EXCEPT ![r] = status]
    BY <1>10 DEF FetchFails, Answer
  <2>2. reply[r] = "none" /\ status \in Replies \ {"none", "hit"}
    BY <1>6, <1>10, <2>1 DEF FetchFails, Replied, Replies
  <2> QED
    BY <1>2, <1>3, <2>1, <2>2, ReplyStep
<1>11. CASE FetchReturns(r)
  <2>1. reply[r] = "none" /\ reply' = [reply EXCEPT ![r] = "miss"] /\ "miss" \in Replies
    BY <1>6, <1>11 DEF FetchReturns, Answer, Replied, Replies
  <2> QED
    BY <1>2, <1>3, <2>1, ReplyStep
<1> QED
  BY <1>5, <1>7, <1>8, <1>9, <1>10, <1>11

\* Finding a neighbor, handing over a comparison and the labeler's own steps are none
\* of the promise.
LEMMA LearnerStepIsSilent ==
  ASSUME GatewayInv, GatewayInv', NEW r \in Requests, NEW w \in Workers, NEW id,
         Lookup(r, id) \/ SubmitForLabel(r) \/ Idle(w)
  PROVE  UNCHANGED Promise!promiseVars
<1>1. TeachesNothing
  BY LookupKeepsInv, SubmitForLabelKeepsInv, IdleKeepsInv
<1>2. /\ UNCHANGED <<labels, reply, half>>
      /\ \A q \in Requests : found[q] # NoMatch => found'[q] = found[q]
      /\ \A v \in Workers : half[v] = "insert" =>
            phase'[v] = phase[v] /\ job'[v] = job[v] /\ verdict'[v] = verdict[v]
  <2>1. CASE Lookup(r, id)
    <3>1. found[r] = NoMatch
      BY <2>1 DEF Lookup, GatewayInv, HandlersInv, BeforeLookup
    <3> QED
      BY <2>1, <3>1 DEF Lookup, labelerVars, GatewayInv, GatewayTypeOK
  <2>2. CASE SubmitForLabel(r)
    BY <2>2 DEF SubmitForLabel, Submit
  <2>3. CASE Idle(w)
    <3>1. half[w] # "insert"
      BY <2>3 DEF Idle, Receive, Exit, JudgeReturns, GatewayInv, VerdictsInv
    <3> QED
      BY <2>3, <3>1 DEF Idle, handlerVars, Receive, Exit, JudgeReturns, GatewayInv, LabelerInv, LabelerTypeOK
  <2> QED
    BY <2>1, <2>2, <2>3
<1>3. /\ \A q \in Requests : Offers(q) => found'[q] = found[q]
      /\ \A q \in Requests : reply[q] = "hit" => found'[q] = found[q]
  BY <1>2 DEF Offers, GatewayInv, HandlersInv
<1>4. \A q \in Requests : Offers(q) => VerdictOn(q)' = VerdictOn(q)
  BY <1>2, <1>3, SameVerdicts
<1>5. Planted' = Planted /\ Verdicts' = Verdicts
  BY <1>1, <1>3, <1>4, VerdictsUnchanged DEF TeachesNothing
<1> QED
  BY <1>2, <1>3, <1>5, SilentStep

\* A verdict that reaches the store is the first on its request, and judges a planted answer.
LEMMA ObservingJudges ==
  ASSUME GatewayInv, GatewayInv', NEW w \in Workers, NEW r \in Requests, CallbackObserves(w, r)
  PROVE  Promise!PromiseNext
<1> DEFINE q == found[r].of
           c == verdict[w]
<1>1. /\ Planted' = Planted /\ ~Offers(r) /\ Offers(r)'
      /\ \A x \in Requests : x # r => (Offers(x)' <=> Offers(x))
  BY CallbackObservesKeepsInv
<1>2. /\ Labels(w, r) /\ half[w] = "observe" /\ UNCHANGED <<phase, job, verdict, labels>>
      /\ UNCHANGED <<pc, reply, found>>
  BY DEF CallbackObserves, labelerVars, handlerVars
<1>3. \A x \in Requests : Offers(x) => VerdictOn(x)' = VerdictOn(x)
  BY <1>2, SameVerdicts
<1>4. VerdictOn(r)' = c
  <2>1. VerdictsAreHeld'
    BY VerdictFacts, PTL
  <2>2. Labels(w, r)'
    BY <1>2 DEF Labels
  <2> QED
    BY <1>2, <2>1, <2>2 DEF VerdictsAreHeld
<1>5. /\ found[r] # NoMatch /\ job[w] = JobOf(r) /\ pc[r] = "done" /\ reply[r] = "miss"
      /\ labels[JobOf(r)] = << >> /\ phase[w] = "callback"
  BY <1>2, LabelsAreOfEndedRequests DEF Labels
<1>6. q \in Planted /\ Ask[q].bucket = Ask[r].bucket /\ q \in Requests
  BY <1>5, EndedFacts DEF GatewayInv, LearningInv, MatchesInv
<1>7. c \in BOOLEAN /\ (c => SameAnswer[<<r, q>>])
  BY <1>5 DEF GatewayInv, LabelerInv, LabelerTypeOK, VerdictsInv, JobOf
<1>8. r \notin Planted
  <2>1. << >> # <<FALSE>>
    OBVIOUS
  <2> QED
    BY <1>5, <2>1 DEF Planted, ColdLearned, Refuting
<1>9. \A v \in Verdicts : v[1] # r
  BY <1>1 DEF Verdicts
<1>10. Answers' = Answers /\ Answers[r].how = "fresh"
  BY <1>2, <1>5, AnswersUnchanged, AnswerFacts
<1> HIDE DEF c
<1>11. Verdicts' = Verdicts \cup {<<r, q, c>>}
  <2> DEFINE Passed == {x \in Requests : Offers(x)}
  <2>1. Passed' = Passed \cup {r} /\ r \notin Passed
    BY <1>1
  <2>2. \A x \in Passed : found'[x].of = found[x].of /\ VerdictOn(x)' = VerdictOn(x)
    BY <1>2, <1>3
  <2>3. Verdicts = {<<x, found[x].of, VerdictOn(x)>> : x \in Passed}
    BY DEF Verdicts
  <2>4. Verdicts' = {<<x, found'[x].of, VerdictOn(x)'>> : x \in Passed'}
    BY DEF Verdicts
  <2>5. found'[r].of = q
    BY <1>2
  <2> HIDE DEF Passed, q
  <2> QED
    BY <1>4, <2>1, <2>2, <2>3, <2>4, <2>5
<1> HIDE DEF q
<1>12. Promise!Judged(r, q, c)
  BY <1>1, <1>6, <1>7, <1>8, <1>9, <1>10, <1>11 DEF Promise!Judged, Promise!VerdictsBy, Answers
<1> QED
  BY <1>6, <1>7, <1>12 DEF Promise!PromiseNext

\* An answer that is planted is its request's own, and was not judged redundant.
LEMMA PlantingPlants ==
  ASSUME GatewayInv, NEW r \in Requests, r \notin Planted, Planted' = Planted \cup {r},
         reply[r] = "miss", UNCHANGED <<reply, found>>, Verdicts' = Verdicts,
         Offers(r) => ~VerdictOn(r)
  PROVE  Promise!PromiseNext
<1>1. Answers' = Answers /\ Answers[r].how = "fresh"
  BY AnswersUnchanged, AnswerFacts
<1>2. \A v \in Verdicts : v[1] = r => ~v[3]
  BY DEF Verdicts
<1>3. Promise!Planted(r)
  BY <1>1, <1>2 DEF Promise!Planted, Promise!VerdictsBy, Answers
<1> QED
  BY <1>3 DEF Promise!PromiseNext

\* So is a cold miss's.
LEMMA ColdInsertPlants ==
  ASSUME GatewayInv, GatewayInv', NEW r \in Requests, ColdInsert(r)
  PROVE  Promise!PromiseNext
<1>1. /\ r \notin Planted /\ Planted' = Planted \cup {r}
      /\ \A q \in Requests : Offers(q)' <=> Offers(q)
  BY ColdInsertKeepsInv
<1>2. /\ UNCHANGED <<phase, job, verdict, labels, half>> /\ UNCHANGED <<reply, found>>
      /\ pc[r] = "learn" /\ found[r] = NoMatch
  BY DEF ColdInsert, labelerVars
<1>3. Verdicts' = Verdicts
  <2>1. \A q \in Requests : Offers(q) => VerdictOn(q)' = VerdictOn(q)
    BY <1>2, SameVerdicts
  <2> QED
    BY <1>1, <1>2, <2>1, VerdictsUnchanged
<1>4. reply[r] = "miss" /\ ~Offers(r)
  BY <1>2 DEF GatewayInv, HandlersInv, Replied, Offers
<1> QED
  BY <1>1, <1>2, <1>3, <1>4, PlantingPlants

\* The guard on the second half of OnResult is the promise's.
LEMMA InsertingPlants ==
  ASSUME GatewayInv, GatewayInv', NEW w \in Workers, NEW r \in Requests, CallbackInserts(w, r)
  PROVE  Promise!PromiseNext \/ UNCHANGED Promise!promiseVars
<1>1. /\ r \notin Planted /\ Planted' = IF verdict[w] THEN Planted ELSE Planted \cup {r}
      /\ \A q \in Requests : Offers(q)' <=> Offers(q)
  BY CallbackInsertsKeepsInv
<1>2. PICK j : j = job[w]
  OBVIOUS
<1>3. /\ Labels(w, r) /\ phase[w] = "callback"
      /\ labels' = [labels EXCEPT ![j] = Append(@, verdict[w])]
      /\ phase' = [phase EXCEPT ![w] = "receive"]
      /\ UNCHANGED <<job, verdict>> /\ UNCHANGED <<pc, reply, found>>
  BY <1>2 DEF CallbackInserts, CallbackReturns, handlerVars, Labels
<1>4. /\ found[r] # NoMatch /\ j = JobOf(r) /\ j \in Jobs /\ reply[r] = "miss" /\ labels[j] = << >>
  BY <1>2, <1>3, LabelsAreOfEndedRequests, HeldJob DEF GatewayInv
<1>5. labels'[j] = <<verdict[w]>> /\ \A k \in Jobs : k # j => labels'[k] = labels[k]
  BY <1>3, <1>4 DEF GatewayInv, LabelerInv, LabelerTypeOK
<1>6. \A q \in Requests : JobOf(q)' = JobOf(q) /\ JobOf(q) \in Jobs /\ (q # r => JobOf(q) # j)
  BY <1>3, <1>4, JobFacts DEF GatewayInv, JobOf
<1>7. VerdictsAreHeld /\ VerdictsAreHeld'
  BY VerdictFacts, PTL
<1>8. VerdictOn(r) = verdict[w] /\ VerdictOn(r)' = verdict[w]
  <2>1. <<verdict[w]>> # << >> /\ <<verdict[w]>>[1] = verdict[w]
    OBVIOUS
  <2>2. VerdictOn(r) = verdict[w]
    BY <1>3, <1>7 DEF VerdictsAreHeld
  <2>3. VerdictOn(r)' = labels'[JobOf(r)'][1]
    BY <1>4, <1>5, <1>6, <1>7, <2>1 DEF VerdictsAreHeld
  <2> QED
    BY <1>4, <1>5, <1>6, <2>1, <2>2, <2>3
<1>9. ASSUME NEW q \in Requests, q # r, Offers(q)
      PROVE  VerdictOn(q)' = VerdictOn(q)
  <2>1. labels'[JobOf(q)'] = labels[JobOf(q)]
    BY <1>5, <1>6, <1>9
  <2>2. CASE labels[JobOf(q)] # << >>
    BY <1>7, <2>1, <2>2 DEF VerdictsAreHeld
  <2>3. CASE \E v \in Workers : Labels(v, q) /\ half[v] = "insert"
    <3>1. PICK v \in Workers : Labels(v, q)
      BY <2>3
    <3>2. v # w
      BY <1>3, <1>9, <3>1 DEF Labels
    <3>3. Labels(v, q)' /\ verdict'[v] = verdict[v]
      BY <1>3, <3>1, <3>2 DEF Labels, GatewayInv, LabelerInv, LabelerTypeOK
    <3> QED
      BY <1>7, <3>1, <3>3 DEF VerdictsAreHeld
  <2> QED
    BY <1>9, <2>2, <2>3 DEF Offers
<1>10. Verdicts' = Verdicts
  BY <1>1, <1>3, <1>8, <1>9, VerdictsUnchanged
<1>11. CASE verdict[w]
  BY <1>1, <1>3, <1>10, <1>11, SilentStep
<1>12. CASE ~verdict[w]
  BY <1>1, <1>3, <1>4, <1>8, <1>10, <1>12, PlantingPlants
<1> QED
  BY <1>11, <1>12

\* A step of neither the handlers nor the workers is none of the promise.
LEMMA StutterIsSilent ==
  ASSUME GatewayInv, GatewayInv', UNCHANGED gatewayVars
  PROVE  UNCHANGED Promise!promiseVars
<1>1. TeachesNothing
  BY GatewayStutterKeepsInv
<1>2. UNCHANGED <<phase, job, verdict, labels, half>> /\ UNCHANGED <<reply, found>>
  BY DEF gatewayVars, labelerVars, handlerVars
<1>3. \A q \in Requests : Offers(q) => VerdictOn(q)' = VerdictOn(q)
  BY <1>2, SameVerdicts
<1>4. Planted' = Planted /\ Verdicts' = Verdicts
  BY <1>1, <1>2, <1>3, VerdictsUnchanged DEF TeachesNothing
<1> QED
  BY <1>2, <1>4, SilentStep

\* At the start nothing is answered, planted or judged.
LEMMA PromiseStarts == GatewayInit => Promise!PromiseInit
<1> SUFFICES ASSUME GatewayInit PROVE Promise!PromiseInit
  OBVIOUS
<1>1. /\ reply = [r \in Requests |-> "none"] /\ pc = [r \in Requests |-> "new"]
      /\ found = [r \in Requests |-> NoMatch]
  BY DEF GatewayInit
<1>2. \A r \in Requests : AnswerOf(r) = [how |-> "none", of |-> r]
  BY <1>1 DEF AnswerOf
<1>3. Planted = {} /\ Verdicts = {}
  BY <1>1 DEF Planted, ColdLearned, Refuting, Verdicts, Offers
<1> QED
  BY <1>2, <1>3 DEF Promise!PromiseInit

\* Every step of the gateway is one of the promise, or none.
LEMMA StepSimulates ==
  GatewayInv /\ GatewayInv' /\ [GatewayNext]_gatewayVars => [Promise!PromiseNext]_Promise!promiseVars
<1> SUFFICES ASSUME GatewayInv, GatewayInv', [GatewayNext]_gatewayVars
             PROVE  Promise!PromiseNext \/ UNCHANGED Promise!promiseVars
  OBVIOUS
<1>1. ASSUME NEW r \in Requests, Arrive(r)
      PROVE  Promise!PromiseNext \/ UNCHANGED Promise!promiseVars
  BY <1>1, HandlerStepSimulates DEF Arrive
<1>2. PICK w \in Workers : TRUE
  BY LabelerBounds
<1>3. ASSUME NEW r \in Requests, Handle(r)
      PROVE  Promise!PromiseNext \/ UNCHANGED Promise!promiseVars
  BY <1>2, <1>3, HandlerStepSimulates, LearnerStepIsSilent, ColdInsertPlants DEF Handle
<1>4. ASSUME NEW v \in Workers, Work(v)
      PROVE  Promise!PromiseNext \/ UNCHANGED Promise!promiseVars
  <2>1. CASE Idle(v)
    <3>1. PICK r \in Requests : TRUE
      BY LabelerAssumption, GatewayAssumption DEF LabelJobs
    <3> QED
      BY <2>1, <3>1, LearnerStepIsSilent
  <2>2. CASE \E r \in Requests : CallbackObserves(v, r) \/ CallbackInserts(v, r)
    BY <2>2, ObservingJudges, InsertingPlants
  <2> QED
    BY <1>4, <2>1, <2>2 DEF Work
<1>5. CASE UNCHANGED gatewayVars
  BY <1>5, StutterIsSilent
<1> QED
  BY <1>1, <1>3, <1>4, <1>5 DEF GatewayNext

\* The gateway keeps the promise of a verified semantic cache: whatever the store evicts,
\* the queue drops and the judge delays, a request is answered once, from the backend or
\* with a planted answer of its bucket that was judged NMin times before, passes at most
\* one true verdict, after its answer, and plants that answer unless it was redundant.
THEOREM GatewayRefinesPromise == GatewaySpec => ImplementsVerifiedCache
BY GatewayInvariant, PromiseStarts, StepSimulates, PTL
   DEF GatewaySpec, ImplementsVerifiedCache, Promise!PromiseSpec
=============================================================================
