---------------------------- MODULE ExchangeProofs ----------------------------
(***************************************************************************)
(* What a client receives in an exchange, and what the access log says of  *)
(* it, for every set of requests and environments, every set of backend    *)
(* statuses and every length of an upstream body.                          *)
(***************************************************************************)
EXTENDS Exchange, PolicyProofs, SequenceTheorems

\* The statuses a response may be sent with, and what the recorder may take down.
Sendable == {200, 400, 401, 404, 405, 429, 500, 502} \cup {s \in Statuses : Valid(s)}
Noted    == {0, 200, 400, 401, 404, 405, 429, 500, 502} \cup Statuses

Writer == [logged : Noted, wrote : BOOLEAN, status : {0} \cup Sendable, pend : Seq(Int), body : Seq(Int)]

BeforeWriting == {"start", "exit", "arrive", "inspect", "embed", "lookup", "hit", "fetch", "call"}
Relaying      == {"learn", "relay", "write", "flush"}
Ending        == {"finish", "ended"}

Ints(n) == [i \in 1 .. n |-> i]

\* The client has, or will have, the first n chunks of the upstream's body; one that
\* has gone may have fewer.
Holds(n) ==
  \/ client = "here" /\ Written = Ints(n)
  \/ client = "gone" /\ \E k \in 0 .. n : Written = Ints(k)

\* One message of the gateway's own and nothing of an upstream's.
Messages   == {<< >>, <<Envelope>>, <<Cached>>, <<Page>>}
Unasked    == up = 0 /\ chunk.end = "more" /\ from = NoAnswer
OwnMessage == Written \in Messages /\ Unasked

Untouched == ~w.wrote /\ w.status = 0 /\ w.body = << >> /\ w.pend = << >> /\ Unasked

\* The response has the backend's status, or the backend's cannot be sent.
BackendsStatus == from \in Statuses /\ w.status = from
Attributed     == from \in Statuses /\ (Valid(from) => w.status = from)

\* The status was taken down as it was sent.
StatusNoted == w.wrote /\ w.logged = w.status /\ w.status # 0

WriterInv ==
  /\ case \in Cases /\ w \in Writer /\ up \in 0 .. MaxChunks
  /\ streaming \in BOOLEAN /\ client \in {"here", "gone"} /\ panicked \in {"no", "early", "late"}
  /\ chunk.end \in EndsOfRead /\ from \in Statuses \cup {NoAnswer}
  /\ step \in BeforeWriting \cup Relaying \cup {"return", "recover"} \cup Ending

RelayInv ==
  /\ step \in Relaying => BackendsStatus /\ StatusNoted
  /\ step \in Relaying \ {"write"} => Holds(up)
  /\ step \in {"write", "flush"} => \/ chunk.data = << >> /\ chunk.end # "more"
                                    \/ chunk.data = <<up>> /\ up > 0
  /\ step = "write" => Holds(up - Len(chunk.data))
  /\ step \in {"relay", "write"} /\ streaming => w.pend = << >>

\* How an exchange that a panic did or did not interrupt comes to its end.
EndInv ==
  /\ step = "return" => StatusNoted /\ (OwnMessage \/ (BackendsStatus /\ Holds(up)))
  /\ step = "recover" => Untouched \/ (w.wrote /\ Attributed /\ \E n \in 0 .. up : Holds(n))
  /\ step \in Ending =>
        \/ OwnMessage
        \/ /\ Attributed
           /\ \E n \in 0 .. up : Holds(n) /\ (panicked = "no" => n = up)
  /\ step = "ended" => w.pend = << >>

LogInv ==
  /\ panicked # "no" => step \in {"recover"} \cup Ending
  /\ step = "recover" => panicked # "no"
  /\ log # Unlogged => step \in Ending /\ panicked = "no" /\ w.wrote /\ log = w.status /\ log # 0

ExchangeInv ==
  /\ WriterInv
  /\ step \in BeforeWriting => Untouched
  /\ RelayInv /\ EndInv /\ LogInv

-----------------------------------------------------------------------------
\* Every status the code writes is one that can be sent.
LEMMA StatusFacts ==
  /\ Sendable \subseteq Noted /\ Sendable \subseteq Nat /\ 0 \notin Sendable
  /\ \A s \in Sendable : Valid(s)
  /\ \A s \in Statuses : s \in Noted /\ s \in Nat /\ (Valid(s) => s \in Sendable)
<1>1. \A s \in Sendable : s \in Nat /\ s \in Noted /\ s >= 100
  BY ExchangeAssumption DEF Sendable, Noted, Valid
<1>2. \A s \in Statuses : s \in Noted /\ s \in Nat /\ (Valid(s) => s \in Sendable)
  BY ExchangeAssumption DEF Sendable, Noted
<1> QED
  BY <1>1, <1>2 DEF Valid

\* WriteHeader takes down the first status only, and sends it unless it is not valid.
LEMMA WriteHeaderProperties ==
  ASSUME NEW x \in Writer, NEW s \in Noted, Valid(s) => s \in Sendable
  PROVE  /\ WriteHeader(x, s) \in Writer /\ WriteHeader(x, s).wrote
         /\ WriteHeader(x, s).logged = IF x.wrote THEN x.logged ELSE s
         /\ WriteHeader(x, s).status = IF x.status = 0 /\ Valid(s) THEN s ELSE x.status
         /\ WriteHeader(x, s).pend = x.pend /\ WriteHeader(x, s).body = x.body
<1> DEFINE noted == IF x.wrote THEN x ELSE [x EXCEPT !.logged = s, !.wrote = TRUE]
<1>1. /\ noted \in Writer /\ noted.wrote /\ noted.status = x.status
      /\ noted.logged = IF x.wrote THEN x.logged ELSE s
      /\ noted.pend = x.pend /\ noted.body = x.body
  BY DEF Writer
<1>2. WriteHeader(x, s) = IF x.status = 0 /\ Valid(s) THEN [noted EXCEPT !.status = s] ELSE noted
  BY DEF WriteHeader
<1> HIDE DEF noted
<1> QED
  BY <1>1, <1>2 DEF Writer

\* A write or a flush before any header sends a 200.
LEMMA ImpliedProperties ==
  ASSUME NEW x \in Writer
  PROVE  /\ Implied(x) \in Writer /\ Implied(x).wrote = x.wrote /\ Implied(x).logged = x.logged
         /\ Implied(x).status = IF x.status = 0 THEN 200 ELSE x.status
         /\ Implied(x).pend = x.pend /\ Implied(x).body = x.body
<1>1. CASE x.status = 0
  <2>1. Implied(x) = [x EXCEPT !.status = 200]
    BY <1>1 DEF Implied
  <2>2. 200 \in Sendable
    BY DEF Sendable
  <2>3. [x EXCEPT !.status = 200] \in Writer
    BY <2>2 DEF Writer
  <2>4. LET y == [x EXCEPT !.status = 200]
        IN  y.status = 200 /\ y.wrote = x.wrote /\ y.logged = x.logged /\ y.pend = x.pend /\ y.body = x.body
    BY DEF Writer
  <2> QED
    BY <1>1, <2>1, <2>3, <2>4
<1>2. CASE x.status # 0
  <2>1. Implied(x) = x
    BY <1>2 DEF Implied, Writer
  <2> QED
    BY <1>2, <2>1
<1> QED
  BY <1>1, <1>2

\* Concatenation under a name of its own, for the steps that need nothing but its laws.
Joined(a, b) == a \o b

\* The length and the first elements of a concatenation.
LEMMA JoinedProperties ==
  ASSUME NEW a \in Seq(Int), NEW b \in Seq(Int)
  PROVE  /\ Joined(a, b) \in Seq(Int) /\ Joined(a, << >>) = a /\ Joined(<< >>, a) = a
         /\ Len(Joined(a, b)) = Len(a) + Len(b)
         /\ Len(a) \in Nat /\ Len(b) \in Nat
         /\ \A i \in 1 .. Len(a) : Joined(a, b)[i] = a[i]
BY DEF Joined

\* Two concatenations may be made in either order.
LEMMA JoinedAssociative ==
  ASSUME NEW a \in Seq(Int), NEW b \in Seq(Int), NEW c \in Seq(Int)
  PROVE  Joined(Joined(a, b), c) = Joined(a, Joined(b, c))
BY DEF Joined

\* A write appends to the buffer, behind a header.
LEMMA WriteProperties ==
  ASSUME NEW x \in Writer, NEW data \in Seq(Int)
  PROVE  /\ Write(x, data) \in Writer /\ Write(x, data).wrote
         /\ Write(x, data).logged = IF x.wrote THEN x.logged ELSE 200
         /\ Write(x, data).status = IF x.status = 0 THEN 200 ELSE x.status
         /\ Write(x, data).pend = Joined(x.pend, data) /\ Write(x, data).body = x.body
<1> DEFINE headed == IF x.wrote THEN x ELSE WriteHeader(x, 200)
           sent   == Implied(headed)
<1>1. 200 \in Noted /\ 200 \in Sendable /\ Valid(200)
  BY DEF Noted, Sendable, Valid
<1>2. /\ headed \in Writer /\ headed.wrote /\ headed.pend = x.pend /\ headed.body = x.body
      /\ headed.logged = IF x.wrote THEN x.logged ELSE 200
      /\ headed.status = x.status \/ (x.status = 0 /\ headed.status = 200)
  BY <1>1, WriteHeaderProperties
<1> HIDE DEF headed
<1>3. /\ sent \in Writer /\ sent.wrote /\ sent.logged = headed.logged
      /\ sent.status = IF headed.status = 0 THEN 200 ELSE headed.status
      /\ sent.pend = x.pend /\ sent.body = x.body
  BY <1>2, ImpliedProperties
<1>4. Write(x, data) = [sent EXCEPT !.pend = Joined(sent.pend, data)]
  BY DEF Write, headed, Joined
<1> HIDE DEF sent
<1>5. x.pend \in Seq(Int)
  BY DEF Writer
<1>6. Joined(x.pend, data) \in Seq(Int)
  BY <1>5, JoinedProperties
<1>7. /\ Write(x, data) \in Writer /\ Write(x, data).wrote
      /\ Write(x, data).logged = sent.logged /\ Write(x, data).status = sent.status
      /\ Write(x, data).pend = Joined(x.pend, data) /\ Write(x, data).body = sent.body
  BY <1>3, <1>4, <1>6 DEF Writer
<1> QED
  BY <1>2, <1>3, <1>7

\* What is delivered to a client that is here leaves the buffer for its body.
LEMMA DeliveredProperties ==
  ASSUME NEW x \in Writer
  PROVE  /\ Delivered(x) \in Writer /\ Delivered(x).wrote = x.wrote
         /\ Delivered(x).logged = x.logged /\ Delivered(x).status = x.status
         /\ Delivered(x).pend = << >>
         /\ Delivered(x).body = IF client = "here" THEN Joined(x.body, x.pend) ELSE x.body
<1> DEFINE got == IF client = "here" THEN Joined(x.body, x.pend) ELSE x.body
<1>1. x.pend \in Seq(Int) /\ x.body \in Seq(Int) /\ << >> \in Seq(Int)
  BY DEF Writer
<1>2. got \in Seq(Int)
  BY <1>1, JoinedProperties
<1>3. Delivered(x) = [[x EXCEPT !.pend = << >>] EXCEPT !.body = got]
  BY DEF Delivered, Joined
<1> HIDE DEF got
<1>4. /\ Delivered(x) \in Writer /\ Delivered(x).pend = << >> /\ Delivered(x).body = got
      /\ Delivered(x).wrote = x.wrote /\ Delivered(x).logged = x.logged /\ Delivered(x).status = x.status
  BY <1>1, <1>2, <1>3 DEF Writer
<1> QED
  BY <1>4 DEF got

\* A delivery changes nothing of what the client has or will have.
LEMMA DeliveryKeepsWritten ==
  ASSUME NEW x \in Writer, x.body = w.body, x.pend = w.pend, w' = Delivered(x), client' = client
  PROVE  Written' = Written /\ w'.pend = << >> /\ w' \in Writer
<1>1. /\ w' \in Writer /\ w'.pend = << >>
      /\ w'.body = IF client = "here" THEN Joined(w.body, w.pend) ELSE w.body
  BY DeliveredProperties
<1>2. Joined(w'.body, << >>) = w'.body
  BY <1>1, JoinedProperties DEF Writer
<1>3. /\ Written = IF client = "here" THEN Joined(w.body, w.pend) ELSE w.body
      /\ Written' = IF client = "here" THEN Joined(w'.body, w'.pend) ELSE w'.body
  BY DEF Written, Joined
<1> QED
  BY <1>1, <1>2, <1>3

\* A write adds its data to what a client that is here will have.
LEMMA WritingExtendsWritten ==
  ASSUME NEW x \in Writer, x.body = w.body, x.pend = w.pend,
         NEW data \in Seq(Int), w' = Write(x, data), client' = client
  PROVE  Written' = IF client = "here" THEN Joined(Written, data) ELSE Written
<1>1. w'.pend = Joined(w.pend, data) /\ w'.body = w.body
  BY WriteProperties
<1>2. w.body \in Seq(Int) /\ w.pend \in Seq(Int)
  BY DEF Writer
<1>3. /\ Written = IF client = "here" THEN Joined(w.body, w.pend) ELSE w.body
      /\ Written' = IF client = "here" THEN Joined(w'.body, w'.pend) ELSE w'.body
  BY DEF Written, Joined
<1>4. Joined(w.body, Joined(w.pend, data)) = Joined(Joined(w.body, w.pend), data)
  BY <1>2, JoinedAssociative
<1> QED
  BY <1>1, <1>3, <1>4

\* What a client that leaves has is a beginning of what it would have had.
LEMMA LeavingKeepsBeginning ==
  ASSUME NEW a \in Seq(Int), NEW b \in Seq(Int)
  PROVE  /\ \A n \in Nat : Joined(a, b) = Ints(n) => \E k \in 0 .. n : a = Ints(k)
         /\ \A e \in Int : Joined(a, b) = <<e>> => a = << >> \/ a = <<e>>
         /\ Joined(a, b) = << >> => a = << >>
<1>0. /\ Len(a) \in Nat /\ Len(b) \in Nat /\ Joined(a, b) \in Seq(Int)
      /\ Len(Joined(a, b)) = Len(a) + Len(b)
  BY JoinedProperties
<1>1. \A i \in 1 .. Len(a) : Joined(a, b)[i] = a[i]
  BY JoinedProperties
<1>2. ASSUME NEW n \in Nat, Joined(a, b) = Ints(n) PROVE \E k \in 0 .. n : a = Ints(k)
  <2>1. Len(Joined(a, b)) = n /\ \A i \in 1 .. n : Joined(a, b)[i] = i
    BY <1>2 DEF Ints
  <2>2. Len(a) \in 0 .. n
    BY <1>0, <2>1
  <2>3. \A i \in 1 .. Len(a) : a[i] = i
    BY <1>1, <2>1, <2>2
  <2>4. a = [i \in 1 .. Len(a) |-> a[i]]
    BY LenProperties
  <2>5. a = Ints(Len(a))
    BY <2>3, <2>4 DEF Ints
  <2> QED
    BY <2>2, <2>5
<1>3. ASSUME NEW e \in Int, Joined(a, b) = <<e>> PROVE a = << >> \/ a = <<e>>
  <2>1. Len(Joined(a, b)) = 1
    BY <1>3
  <2>2. Len(a) \in 0 .. 1
    BY <1>0, <2>1
  <2>3. Len(a) = 1 => a[1] = e
    BY <1>1, <1>3
  <2>4. Len(a) = 0 => a = << >>
    OBVIOUS
  <2>5. Len(a) = 1 => a = <<e>>
    BY <2>3
  <2> QED
    BY <2>2, <2>4, <2>5
<1>4. ASSUME Joined(a, b) = << >> PROVE a = << >>
  <2>1. Len(a) + Len(b) = 0
    BY <1>0, <1>4
  <2>2. Len(a) = 0
    BY <1>0, <2>1
  <2> QED
    BY <2>2
<1> QED
  BY <1>2, <1>3, <1>4

\* The chunks of an upstream, one after the other.
LEMMA IntsProperties ==
  /\ Ints(0) = << >>
  /\ \A n \in Nat : /\ Ints(n) \in Seq(Int) /\ Len(Ints(n)) = n
                    /\ Joined(Ints(n), <<n + 1>>) = Ints(n + 1)
                    /\ \A k \in 0 .. n : IsPrefix(Ints(k), Ints(n))
<1>1. Ints(0) = << >>
  BY DEF Ints
<1>2. ASSUME NEW n \in Nat PROVE Ints(n) \in Seq(Int) /\ Len(Ints(n)) = n
  BY DEF Ints
<1>3. ASSUME NEW n \in Nat PROVE Joined(Ints(n), <<n + 1>>) = Ints(n + 1)
  BY DEF Ints, Joined
<1>4. ASSUME NEW n \in Nat, NEW k \in 0 .. n PROVE IsPrefix(Ints(k), Ints(n))
  <2>1. Len(Ints(k)) = k /\ Len(Ints(n)) = n /\ k <= n
    BY <1>2
  <2>2. SubSeq(Ints(k), 1, k) = SubSeq(Ints(n), 1, k)
    BY DEF Ints
  <2> QED
    BY <2>1, <2>2 DEF IsPrefix
<1> QED
  BY <1>1, <1>2, <1>3, <1>4

-----------------------------------------------------------------------------
\* What the client has, or will have, depends on nothing else.
LEMMA SameWritten ==
  ASSUME Written' = Written, client' = client
  PROVE  \A n : Holds(n)' <=> Holds(n)
BY DEF Holds

LEMMA UnchangedWritten ==
  ASSUME w' = w, client' = client
  PROVE  Written' = Written
BY DEF Written

\* Nothing is written before the handler writes.
LEMMA UntouchedWritten ==
  ASSUME WriterInv, Untouched
  PROVE  Written = << >> /\ Holds(0)
<1>1. w.body = << >> /\ w.pend = << >> /\ << >> \o << >> = << >>
  BY DEF Untouched, Unasked
<1>2. Written = << >>
  BY <1>1 DEF Written
<1>3. Ints(0) = << >> /\ 0 \in 0 .. 0
  BY IntsProperties
<1> QED
  BY <1>2, <1>3 DEF Holds, WriterInv

\* A step from one stage before the first write to another.
LEMMA PassingKeepsInv ==
  ASSUME ExchangeInv, step \in BeforeWriting, step' \in BeforeWriting,
         UNCHANGED <<case, w, relayVars, client, panicked, log>>
  PROVE  ExchangeInv'
<1>1. UNCHANGED <<case, w, streaming, chunk, up, from, client, panicked, log>>
  BY DEF relayVars
<1>2. WriterInv' /\ Untouched' /\ LogInv'
  BY <1>1 DEF ExchangeInv, WriterInv, Untouched, LogInv, BeforeWriting, Ending, Unasked
<1>3. RelayInv' /\ EndInv'
  BY DEF RelayInv, EndInv, BeforeWriting, Relaying, Ending
<1> QED
  BY <1>2, <1>3 DEF ExchangeInv

\* A message of the gateway's own, behind its header or, for the metrics, without.
LEMMA OwnMessageKeepsInv ==
  ASSUME ExchangeInv, step \in BeforeWriting, step' = "return",
         NEW x \in Writer, x.body = w.body, x.pend = w.pend, x.wrote => x.logged = x.status /\ x.status # 0,
         ~x.wrote => x.status = 0,
         NEW m \in {Envelope, Cached, Page}, w' = Write(x, <<m>>),
         UNCHANGED <<case, relayVars, client, panicked, log>>
  PROVE  ExchangeInv'
<1>1. UNCHANGED <<case, streaming, chunk, up, from, client, panicked, log>>
  BY DEF relayVars
<1>2. Untouched /\ WriterInv /\ LogInv
  BY DEF ExchangeInv
<1>3. m \in Int /\ <<m>> \in Seq(Int)
  BY DEF Envelope, Cached, Page
<1>4. /\ w' \in Writer /\ w'.wrote
      /\ w'.logged = IF x.wrote THEN x.logged ELSE 200
      /\ w'.status = IF x.status = 0 THEN 200 ELSE x.status
  BY <1>3, WriteProperties
<1>5. Written' = IF client = "here" THEN Joined(Written, <<m>>) ELSE Written
  BY <1>1, <1>3, WritingExtendsWritten
<1>6. Joined(<< >>, <<m>>) = <<m>>
  BY <1>3, JoinedProperties
<1>7. Written' \in {<< >>, <<m>>}
  BY <1>2, <1>5, <1>6, UntouchedWritten
<1>8. OwnMessage' /\ StatusNoted'
  BY <1>1, <1>2, <1>4, <1>7 DEF OwnMessage, Messages, Untouched, StatusNoted, Unasked, BackendsStatus
<1>9. WriterInv' /\ LogInv'
  BY <1>1, <1>2, <1>4 DEF WriterInv, LogInv, BeforeWriting, Ending
<1>10. RelayInv' /\ EndInv' /\ step' \notin BeforeWriting
  BY <1>8 DEF RelayInv, EndInv, BeforeWriting, Relaying, Ending
<1> QED
  BY <1>9, <1>10 DEF ExchangeInv

\* The error envelope, the cached answer and the pages.
LEMMA HeadedMessageKeepsInv ==
  ASSUME ExchangeInv, step \in BeforeWriting, step' = "return",
         NEW status \in Sendable, NEW m \in {Envelope, Cached, Page},
         w' = Write(WriteHeader(w, status), <<m>>),
         UNCHANGED <<case, relayVars, client, panicked, log>>
  PROVE  ExchangeInv'
<1> DEFINE x == WriteHeader(w, status)
<1>1. w \in Writer /\ ~w.wrote /\ w.status = 0
  BY DEF ExchangeInv, WriterInv, Untouched, Unasked
<1>2. status \in Noted /\ Valid(status) /\ status # 0
  BY StatusFacts
<1>3. /\ x \in Writer /\ x.body = w.body /\ x.pend = w.pend
      /\ x.wrote /\ x.logged = status /\ x.status = status
  BY <1>1, <1>2, WriteHeaderProperties
<1> HIDE DEF x
<1>4. w' = Write(x, <<m>>)
  BY DEF x
<1> QED
  BY <1>2, <1>3, <1>4, OwnMessageKeepsInv

\* The gateway's own statuses can be sent.
LEMMA OwnStatuses == {200, 400, 401, 404, 405, 429, 500, 502} \subseteq Sendable
BY DEF Sendable

\* The configuration, the middleware, the inspection and the cache.
LEMMA FrontKeepsInv ==
  ASSUME ExchangeInv, LoadConfig \/ Dispatch \/ Inspect \/ Embed \/ Lookup \/ ServeHit \/ CallFails
  PROVE  ExchangeInv'
<1>1. CASE LoadConfig
  BY <1>1, PassingKeepsInv DEF LoadConfig, BeforeWriting
<1>2. CASE Dispatch
  <2> DEFINE Headed(status, m) == step' = "return" /\ w' = Write(WriteHeader(w, status), <<m>>)
  <2>1. step \in BeforeWriting /\ UNCHANGED <<case, relayVars, client, panicked, log>>
    BY <1>2 DEF Dispatch, BeforeWriting
  <2>2. \/ step' = "inspect" /\ w' = w
        \/ step' = "return" /\ w' = Write(w, <<Page>>)
        \/ Headed(200, Page) \/ Headed(404, Page) \/ Headed(405, Page)
        \/ Headed(401, Envelope) \/ Headed(429, Envelope)
    BY <1>2 DEF Dispatch, WritePage, Answered, WriteError
  <2>3. CASE step' = "inspect" /\ w' = w
    BY <2>1, <2>3, PassingKeepsInv DEF BeforeWriting
  <2>4. CASE step' = "return" /\ w' = Write(w, <<Page>>)
    <3>1. w \in Writer /\ ~w.wrote /\ w.status = 0
      BY <2>1 DEF ExchangeInv, WriterInv, Untouched, Unasked
    <3> QED
      BY <2>1, <2>4, <3>1, OwnMessageKeepsInv
  <2>5. ASSUME NEW status \in {200, 401, 404, 405, 429}, NEW m \in {Envelope, Page}, Headed(status, m)
        PROVE  ExchangeInv'
    BY <2>1, <2>5, OwnStatuses, HeadedMessageKeepsInv
  <2> QED
    BY <2>2, <2>3, <2>4, <2>5
<1>3. CASE Inspect
  <2>1. /\ step \in BeforeWriting /\ UNCHANGED <<case, relayVars, client, panicked, log>>
        /\ \/ step' \in {"embed", "call"} /\ w' = w
           \/ step' = "return" /\ w' = Write(WriteHeader(w, 400), <<Envelope>>)
    BY <1>3 DEF Inspect, BeforeWriting, Answered, WriteError
  <2> QED
    BY <2>1, PassingKeepsInv, OwnStatuses, HeadedMessageKeepsInv DEF BeforeWriting
<1>4. CASE Embed \/ Lookup
  BY <1>4, PassingKeepsInv DEF Embed, Lookup, BeforeWriting
<1>5. CASE ServeHit
  BY <1>5, OwnStatuses, HeadedMessageKeepsInv DEF ServeHit, Answered, BeforeWriting
<1>6. CASE CallFails
  BY <1>6, OwnStatuses, HeadedMessageKeepsInv DEF CallFails, Answered, WriteError, BeforeWriting
<1> QED
  BY <1>1, <1>2, <1>3, <1>4, <1>5, <1>6

-----------------------------------------------------------------------------
\* A status that cannot be sent panics, with nothing written.
LEMMA InvalidStatusKeepsInv ==
  ASSUME ExchangeInv, step \in BeforeWriting, NEW status \in Statuses, ~Valid(status),
         PanicWith(WriteHeader(w, status)), from' = status, up' \in 0 .. MaxChunks, chunk'.end \in EndsOfRead,
         streaming' \in BOOLEAN, UNCHANGED <<case, client, log>>
  PROVE  ExchangeInv'
<1>1. w \in Writer /\ Untouched /\ WriterInv /\ LogInv
  BY DEF ExchangeInv, WriterInv
<1>2. status \in Noted
  BY StatusFacts
<1>3. /\ w' = WriteHeader(w, status) /\ step' = "recover" /\ panicked' \in {"early", "late"}
  BY DEF PanicWith
<1>4. /\ w' \in Writer /\ w'.wrote /\ w'.status = 0 /\ w'.body = w.body /\ w'.pend = w.pend
  BY <1>1, <1>2, <1>3, WriteHeaderProperties DEF Untouched, Unasked
<1>5. Written' = Written
  BY <1>4 DEF Written
<1>6. Holds(0)' /\ 0 \in 0 .. up' /\ Attributed'
  BY <1>1, <1>5, UntouchedWritten, SameWritten DEF WriterInv, Attributed
<1>7. WriterInv' /\ LogInv'
  BY <1>1, <1>3, <1>4 DEF WriterInv, LogInv, BeforeWriting, Ending
<1>8. RelayInv' /\ EndInv' /\ step' \notin BeforeWriting
  BY <1>3, <1>4, <1>6 DEF RelayInv, EndInv, BeforeWriting, Relaying, Ending
<1> QED
  BY <1>7, <1>8 DEF ExchangeInv

\* The pieces that are read are chunks of the upstream's body.
LEMMA PiecesRead ==
  /\ \A n \in Nat : [i \in 1 .. n |-> i] = Ints(n)
  /\ \A u \in Nat : [i \in 1 .. 0 |-> u] = << >> /\ [i \in 1 .. 1 |-> u] = <<u>>
BY DEF Ints

\* A buffered answer is written as a whole.
LEMMA FetchReturnsKeepsInv ==
  ASSUME ExchangeInv, FetchReturns
  PROVE  ExchangeInv'
<1>1. step \in BeforeWriting /\ UNCHANGED <<case, streaming, client, log>> /\ chunk'.end \in EndsOfRead
  BY DEF FetchReturns, BeforeWriting, EndsOfRead
<1>2. WriterInv /\ Untouched /\ LogInv /\ w \in Writer /\ 1 \in 0 .. MaxChunks /\ MaxChunks \in Nat
  BY <1>1, ExchangeAssumption DEF ExchangeInv, WriterInv
<1>3. PICK status \in Statuses, n \in 0 .. 1 :
         /\ up' = n /\ from' = status
         /\ IF Valid(status)
            THEN w' = Write(WriteHeader(w, status), [i \in 1 .. n |-> i])
                 /\ step' = "learn" /\ UNCHANGED panicked
            ELSE PanicWith(WriteHeader(w, status))
  BY DEF FetchReturns
<1>4. CASE ~Valid(status)
  BY <1>1, <1>2, <1>3, <1>4, InvalidStatusKeepsInv DEF WriterInv
<1>5. CASE Valid(status)
  <2> DEFINE x == WriteHeader(w, status)
  <2>1. status \in Noted /\ status \in Sendable /\ status # 0
    BY <1>5, StatusFacts
  <2>2. /\ x \in Writer /\ x.wrote /\ x.logged = status /\ x.status = status
        /\ x.body = w.body /\ x.pend = w.pend
    BY <1>2, <1>5, <2>1, WriteHeaderProperties DEF Untouched, Unasked
  <2> HIDE DEF x
  <2>3. w' = Write(x, Ints(n)) /\ Ints(n) \in Seq(Int) /\ Joined(<< >>, Ints(n)) = Ints(n)
    BY <1>3, <1>5, PiecesRead, IntsProperties, JoinedProperties DEF x
  <2>4. w' \in Writer /\ w'.wrote /\ w'.logged = status /\ w'.status = status
    BY <2>1, <2>2, <2>3, WriteProperties
  <2>5. Written' = IF client = "here" THEN Ints(n) ELSE << >>
    BY <1>1, <1>2, <2>2, <2>3, WritingExtendsWritten, UntouchedWritten
  <2>6. Holds(up)'
    <3>1. 0 \in 0 .. n /\ Ints(0) = << >> /\ up' = n
      BY <1>3, IntsProperties
    <3> QED
      BY <1>1, <1>2, <2>5, <3>1 DEF Holds, WriterInv
  <2>7. step' = "learn" /\ panicked' = panicked
    BY <1>3, <1>5
  <2>8. WriterInv' /\ LogInv'
    BY <1>1, <1>2, <1>3, <2>4, <2>7 DEF WriterInv, LogInv, BeforeWriting, Relaying, Ending
  <2>9. RelayInv' /\ EndInv' /\ step' \notin BeforeWriting
    BY <1>3, <2>1, <2>4, <2>6, <2>7 DEF RelayInv, EndInv, StatusNoted, BeforeWriting, Relaying, Ending, BackendsStatus
  <2> QED
    BY <2>8, <2>9 DEF ExchangeInv
<1> QED
  BY <1>4, <1>5

\* A relay begins with the header, and a flush of it if it is to stream.
LEMMA CallReturnsKeepsInv ==
  ASSUME ExchangeInv, CallReturns
  PROVE  ExchangeInv'
<1>1. step \in BeforeWriting /\ UNCHANGED <<case, chunk, up, client, log>> /\ step = "call"
  BY DEF CallReturns, BeforeWriting
<1>2. WriterInv /\ Untouched /\ LogInv /\ w \in Writer
  BY <1>1 DEF ExchangeInv, WriterInv
<1>3. PICK status \in Statuses, eventStream \in BOOLEAN :
         /\ from' = status
         /\ streaming' = (Streams(case.body) \/ eventStream)
         /\ IF Valid(status)
            THEN /\ w' = IF streaming' THEN Flush(WriteHeader(w, status)) ELSE WriteHeader(w, status)
                 /\ step' = "relay" /\ UNCHANGED panicked
            ELSE PanicWith(WriteHeader(w, status))
  BY DEF CallReturns
<1>4. streaming' \in BOOLEAN
  BY <1>3
<1>5. CASE ~Valid(status)
  BY <1>1, <1>2, <1>3, <1>4, <1>5, InvalidStatusKeepsInv DEF WriterInv
<1>6. CASE Valid(status)
  <2> DEFINE x == WriteHeader(w, status)
  <2>1. status \in Noted /\ status \in Sendable /\ status # 0
    BY <1>6, StatusFacts
  <2>2. /\ x \in Writer /\ x.wrote /\ x.logged = status /\ x.status = status
        /\ x.body = w.body /\ x.pend = w.pend
    BY <1>2, <1>6, <2>1, WriteHeaderProperties DEF Untouched, Unasked
  <2> HIDE DEF x
  <2>3. w' = IF streaming' THEN Delivered(Implied(x)) ELSE x
    BY <1>3, <1>6 DEF x, Flush
  <2>4. /\ Implied(x) \in Writer /\ Implied(x).wrote /\ Implied(x).logged = status
        /\ Implied(x).status = status /\ Implied(x).body = w.body /\ Implied(x).pend = w.pend
    BY <2>1, <2>2, ImpliedProperties
  <2>5. /\ w' \in Writer /\ w'.wrote /\ w'.logged = status /\ w'.status = status
        /\ w'.pend = << >>
    BY <1>2, <2>2, <2>3, <2>4, DeliveredProperties DEF Untouched, Unasked
  <2>6. Written' = Written
    <3>1. CASE streaming'
      BY <1>1, <2>3, <2>4, <3>1, DeliveryKeepsWritten
    <3>2. CASE ~streaming'
      BY <1>1, <2>2, <2>3, <3>2 DEF Written
    <3> QED
      BY <1>4, <3>1, <3>2
  <2>7. Holds(up)' /\ up = 0
    BY <1>1, <1>2, <2>6, UntouchedWritten, SameWritten DEF Untouched, Unasked
  <2>8. step' = "relay" /\ panicked' = panicked
    BY <1>3, <1>6
  <2>9. WriterInv' /\ LogInv'
    BY <1>1, <1>2, <1>3, <1>4, <2>5, <2>8 DEF WriterInv, LogInv, BeforeWriting, Relaying, Ending
  <2>10. RelayInv' /\ EndInv' /\ step' \notin BeforeWriting
    BY <1>3, <2>1, <2>5, <2>7, <2>8 DEF RelayInv, EndInv, StatusNoted, BeforeWriting, Relaying, Ending, BackendsStatus
  <2> QED
    BY <2>9, <2>10 DEF ExchangeInv
<1> QED
  BY <1>5, <1>6

-----------------------------------------------------------------------------
\* Billing and learning write nothing.
LEMMA LearnKeepsInv ==
  ASSUME ExchangeInv, Learn
  PROVE  ExchangeInv'
<1>1. /\ step = "learn" /\ step' = "return"
      /\ UNCHANGED <<case, w, streaming, chunk, up, from, client, panicked, log>>
  BY DEF Learn, relayVars
<1>2. Holds(up)' /\ StatusNoted' /\ BackendsStatus'
  BY <1>1, UnchangedWritten, SameWritten DEF ExchangeInv, RelayInv, Relaying, StatusNoted, BackendsStatus
<1>3. WriterInv' /\ LogInv'
  BY <1>1 DEF ExchangeInv, WriterInv, LogInv, Relaying, Ending
<1>4. RelayInv' /\ EndInv' /\ step' \notin BeforeWriting
  BY <1>1, <1>2 DEF RelayInv, EndInv, BeforeWriting, Relaying, Ending
<1> QED
  BY <1>3, <1>4 DEF ExchangeInv

\* What is read is the next chunk, or the end without one.
LEMMA ReadKeepsInv ==
  ASSUME ExchangeInv, Read
  PROVE  ExchangeInv'
<1>1. /\ step = "relay" /\ step' = "write"
      /\ UNCHANGED <<case, w, streaming, from, client, panicked, log>>
  BY DEF Read
<1>2. WriterInv /\ LogInv /\ RelayInv /\ up \in Nat /\ MaxChunks \in Nat
  BY ExchangeAssumption DEF ExchangeInv, WriterInv
<1>3. PICK n \in 0 .. 1, end \in EndsOfRead :
         /\ up + n <= MaxChunks /\ (n = 0 => end # "more")
         /\ chunk' = [data |-> [i \in 1 .. n |-> up + 1], end |-> end] /\ up' = up + n
  BY DEF Read
<1>4. /\ chunk'.end \in EndsOfRead /\ up' \in 0 .. MaxChunks
      /\ chunk'.data = [i \in 1 .. n |-> up + 1] /\ chunk'.end = end
  BY <1>2, <1>3
<1>5. \/ n = 0 /\ chunk'.data = << >>
      \/ n = 1 /\ chunk'.data = <<up'>>
  BY <1>2, <1>3, <1>4, PiecesRead
<1>6. Len(<< >>) = 0 /\ Len(<<up'>>) = 1
  OBVIOUS
<1>7. up' - Len(chunk'.data) = up
  BY <1>2, <1>3, <1>5, <1>6
<1>8. Holds(up)
  BY <1>1, <1>2 DEF RelayInv, Relaying
<1>9. \A m : Holds(m)' <=> Holds(m)
  BY <1>1, UnchangedWritten, SameWritten
<1>10. Holds(up - Len(chunk.data))'
  BY <1>7, <1>8, <1>9
<1>11. WriterInv' /\ LogInv'
  BY <1>1, <1>2, <1>4 DEF WriterInv, LogInv, Relaying, Ending
<1>12. /\ BackendsStatus' /\ StatusNoted'
       /\ (streaming' => w'.pend = << >>)
       /\ (chunk'.data = << >> /\ chunk'.end # "more") \/ (chunk'.data = <<up'>> /\ up' > 0)
  BY <1>1, <1>2, <1>3, <1>4, <1>5 DEF RelayInv, Relaying, StatusNoted, BackendsStatus
<1>13. RelayInv'
  BY <1>1, <1>10, <1>12 DEF RelayInv, Relaying
<1>14. EndInv' /\ step' \notin BeforeWriting
  BY <1>1 DEF EndInv, BeforeWriting, Ending
<1> QED
  BY <1>11, <1>13, <1>14 DEF ExchangeInv

\* A chunk that is written follows the chunks before it.
LEMMA WriteChunkKeepsInv ==
  ASSUME ExchangeInv, WriteChunk
  PROVE  ExchangeInv'
<1>1. /\ step = "write" /\ step' = "flush"
      /\ UNCHANGED <<case, streaming, chunk, up, from, client, panicked, log>>
      /\ w' = IF chunk.data = << >> THEN w ELSE Write(w, chunk.data)
  BY DEF WriteChunk, relayVars
<1>2. WriterInv /\ LogInv /\ RelayInv /\ w \in Writer /\ up \in Nat
  BY ExchangeAssumption DEF ExchangeInv, WriterInv
<1>3. BackendsStatus /\ StatusNoted /\ Holds(up - Len(chunk.data))
  BY <1>1, <1>2 DEF RelayInv, Relaying
<1>4. CASE chunk.data = << >>
  <2>1. up - Len(chunk.data) = up
    <3>1. Len(<< >>) = 0
      OBVIOUS
    <3> QED
      BY <1>2, <1>4, <3>1
  <2>2. w' = w /\ Holds(up)'
    BY <1>1, <1>3, <1>4, <2>1, UnchangedWritten, SameWritten
  <2>3. WriterInv' /\ LogInv'
    BY <1>1, <1>2, <2>2 DEF WriterInv, LogInv, Relaying, Ending
  <2>4. RelayInv' /\ EndInv' /\ step' \notin BeforeWriting
    BY <1>1, <1>2, <1>3, <2>2 DEF RelayInv, EndInv, StatusNoted, BeforeWriting, Relaying, Ending, BackendsStatus
  <2> QED
    BY <2>3, <2>4 DEF ExchangeInv
<1>5. CASE chunk.data # << >>
  <2>1. chunk.data = <<up>> /\ up > 0
    BY <1>1, <1>2, <1>5 DEF RelayInv
  <2>2. <<up>> \in Seq(Int) /\ Len(<<up>>) = 1
    BY <1>2
  <2>3. Holds(up - 1)
    BY <1>3, <2>1, <2>2
  <2>4. w' = Write(w, <<up>>)
    BY <1>1, <1>5, <2>1
  <2>5. /\ w' \in Writer /\ w'.wrote /\ w'.logged = w.logged /\ w'.status = w.status
    BY <1>2, <1>3, <2>2, <2>4, WriteProperties DEF StatusNoted, BackendsStatus
  <2>6. Written' = IF client = "here" THEN Joined(Written, <<up>>) ELSE Written
    BY <1>1, <1>2, <2>2, <2>4, WritingExtendsWritten
  <2>7. Joined(Ints(up - 1), <<up>>) = Ints(up)
    <3>1. up - 1 \in Nat /\ (up - 1) + 1 = up
      BY <1>2, <2>1
    <3>2. Joined(Ints(up - 1), <<(up - 1) + 1>>) = Ints((up - 1) + 1)
      BY <3>1, IntsProperties
    <3> QED
      BY <3>1, <3>2
  <2>8. Holds(up)'
    <3>1. CASE client = "here"
      BY <1>1, <2>3, <2>6, <2>7, <3>1 DEF Holds
    <3>2. CASE client = "gone"
      <4>1. PICK k \in 0 .. up - 1 : Written = Ints(k)
        BY <2>3, <3>2 DEF Holds
      <4>2. k \in 0 .. up /\ Written' = Ints(k)
        BY <1>2, <2>6, <3>2, <4>1
      <4> QED
        BY <1>1, <3>2, <4>2 DEF Holds
    <3> QED
      BY <1>2, <3>1, <3>2 DEF WriterInv
  <2>9. WriterInv' /\ LogInv'
    BY <1>1, <1>2, <2>5 DEF WriterInv, LogInv, Relaying, Ending
  <2>10. RelayInv' /\ EndInv' /\ step' \notin BeforeWriting
    BY <1>1, <1>3, <2>1, <2>5, <2>8 DEF RelayInv, EndInv, StatusNoted, BeforeWriting, Relaying, Ending, BackendsStatus
  <2> QED
    BY <2>9, <2>10 DEF ExchangeInv
<1> QED
  BY <1>4, <1>5

\* A write fails when its client has gone, who keeps the chunks before it.
LEMMA WriteFailsKeepsInv ==
  ASSUME ExchangeInv, WriteFails
  PROVE  ExchangeInv'
<1>1. /\ step = "write" /\ step' = "return" /\ chunk.data # << >> /\ client = "gone"
      /\ UNCHANGED <<case, w, streaming, chunk, up, from, client, panicked, log>>
  BY DEF WriteFails, relayVars
<1>2. WriterInv /\ LogInv /\ RelayInv /\ up \in Nat
  BY ExchangeAssumption DEF ExchangeInv, WriterInv
<1>3. chunk.data = <<up>> /\ Holds(up - Len(chunk.data)) /\ Len(<<up>>) = 1
  BY <1>1, <1>2 DEF RelayInv
<1>4. Holds(up)
  BY <1>1, <1>2, <1>3 DEF Holds
<1>5. Holds(up)' /\ StatusNoted' /\ BackendsStatus'
  BY <1>1, <1>2, <1>4, UnchangedWritten, SameWritten DEF RelayInv, Relaying, StatusNoted, BackendsStatus
<1>6. WriterInv' /\ LogInv'
  BY <1>1, <1>2 DEF WriterInv, LogInv, Relaying, Ending
<1>7. RelayInv' /\ EndInv' /\ step' \notin BeforeWriting
  BY <1>1, <1>5 DEF RelayInv, EndInv, BeforeWriting, Relaying, Ending
<1> QED
  BY <1>6, <1>7 DEF ExchangeInv

\* A flush delivers what was written.
LEMMA FlushChunkKeepsInv ==
  ASSUME ExchangeInv, FlushChunk
  PROVE  ExchangeInv'
<1>1. /\ step = "flush" /\ step' = IF chunk.end = "more" THEN "relay" ELSE "return"
      /\ UNCHANGED <<case, streaming, chunk, up, from, client, panicked, log>>
      /\ w' = IF streaming /\ chunk.data # << >> THEN Delivered(Implied(w)) ELSE w
  BY DEF FlushChunk, relayVars, GoOn, Flush
<1>2. WriterInv /\ LogInv /\ RelayInv /\ w \in Writer /\ StatusNoted /\ BackendsStatus /\ Holds(up)
  BY <1>1 DEF ExchangeInv, WriterInv, RelayInv, Relaying
<1>3. /\ Implied(w) \in Writer /\ Implied(w).wrote = w.wrote /\ Implied(w).logged = w.logged
      /\ Implied(w).status = w.status /\ Implied(w).body = w.body /\ Implied(w).pend = w.pend
  BY <1>2, ImpliedProperties DEF StatusNoted, BackendsStatus
<1>4. /\ w' \in Writer /\ w'.wrote = w.wrote /\ w'.logged = w.logged /\ w'.status = w.status
      /\ (streaming /\ chunk.data # << >> => w'.pend = << >>)
  BY <1>1, <1>2, <1>3, DeliveredProperties
<1>5. Written' = Written
  BY <1>1, <1>3, DeliveryKeepsWritten, UnchangedWritten
<1>6. Holds(up)' /\ StatusNoted' /\ BackendsStatus'
  BY <1>1, <1>2, <1>4, <1>5, SameWritten DEF StatusNoted, BackendsStatus
<1>7. step' = "relay" /\ streaming' => w'.pend = << >>
  BY <1>1, <1>2, <1>4 DEF RelayInv
<1>8. WriterInv' /\ LogInv'
  BY <1>1, <1>2, <1>4 DEF WriterInv, LogInv, Relaying, Ending
<1>9. RelayInv' /\ EndInv' /\ step' \notin BeforeWriting
  BY <1>1, <1>6, <1>7 DEF RelayInv, EndInv, BeforeWriting, Relaying, Ending
<1> QED
  BY <1>8, <1>9 DEF ExchangeInv

-----------------------------------------------------------------------------
\* The log line is written with the status that the recorder took down.
LEMMA AccessLogKeepsInv ==
  ASSUME ExchangeInv, AccessLog
  PROVE  ExchangeInv'
<1>1. /\ step = "return" /\ step' = "finish" /\ log' = w.logged
      /\ UNCHANGED <<case, w, streaming, chunk, up, from, client, panicked>>
  BY DEF AccessLog, relayVars
<1>2. /\ WriterInv /\ LogInv /\ StatusNoted /\ up \in Nat
      /\ OwnMessage \/ (BackendsStatus /\ Holds(up))
  BY <1>1, ExchangeAssumption DEF ExchangeInv, WriterInv, EndInv
<1>3. Written' = Written /\ (Holds(up) => Holds(up)')
  BY <1>1, UnchangedWritten, SameWritten
<1>4. OwnMessage' \/ (Attributed' /\ Holds(up)')
  BY <1>1, <1>2, <1>3 DEF OwnMessage, Unasked, BackendsStatus, Attributed
<1>5. up' \in 0 .. up'
  BY <1>1, <1>2
<1>6. EndInv'
  BY <1>1, <1>4, <1>5 DEF EndInv
<1>7. WriterInv' /\ LogInv' /\ RelayInv' /\ step' \notin BeforeWriting
  BY <1>1, <1>2 DEF WriterInv, LogInv, RelayInv, StatusNoted, BeforeWriting, Relaying, Ending, BackendsStatus
<1> QED
  BY <1>6, <1>7 DEF ExchangeInv

\* The 500 of a panic is written only where nothing was written.
LEMMA RecoverKeepsInv ==
  ASSUME ExchangeInv, Recover
  PROVE  ExchangeInv'
<1>1. /\ step = "recover" /\ step' = "finish"
      /\ UNCHANGED <<case, streaming, chunk, up, from, client, panicked, log>>
      /\ w' = IF w.wrote THEN w ELSE Write(WriteHeader(w, 500), <<Envelope>>)
  BY DEF Recover, relayVars, WriteError
<1>2. /\ WriterInv /\ LogInv /\ w \in Writer /\ panicked # "no"
      /\ Untouched \/ (w.wrote /\ Attributed /\ \E n \in 0 .. up : Holds(n))
  BY <1>1 DEF ExchangeInv, WriterInv, EndInv, LogInv
<1>3. log = Unlogged
  BY <1>2 DEF LogInv
<1>4. CASE w.wrote
  <2>1. w' = w /\ (\A n : Holds(n)' <=> Holds(n)) /\ Attributed' = Attributed
    BY <1>1, <1>4, UnchangedWritten, SameWritten DEF Attributed
  <2>2. \E n \in 0 .. up' : Holds(n)'
    BY <1>1, <1>2, <1>4, <2>1 DEF Untouched, Unasked
  <2>3. EndInv'
    BY <1>1, <1>2, <1>4, <2>1, <2>2 DEF EndInv, Untouched, Unasked
  <2>4. WriterInv' /\ LogInv' /\ RelayInv' /\ step' \notin BeforeWriting
    BY <1>1, <1>2, <1>3, <2>1 DEF WriterInv, LogInv, RelayInv, BeforeWriting, Relaying, Ending
  <2> QED
    BY <2>3, <2>4 DEF ExchangeInv
<1>5. CASE ~w.wrote
  <2> DEFINE x == WriteHeader(w, 500)
  <2>1. Untouched /\ 500 \in Noted /\ Valid(500) /\ 500 \in Sendable
    BY <1>2, <1>5, OwnStatuses, StatusFacts
  <2>2. x \in Writer /\ x.body = w.body /\ x.pend = w.pend
    BY <1>2, <2>1, WriteHeaderProperties
  <2>3. Envelope \in Int /\ <<Envelope>> \in Seq(Int)
    BY DEF Envelope
  <2>4. w' = Write(x, <<Envelope>>)
    BY <1>1, <1>5
  <2> HIDE DEF x
  <2>5. w' \in Writer
    BY <2>2, <2>3, <2>4, WriteProperties
  <2>6. Written' = IF client = "here" THEN Joined(Written, <<Envelope>>) ELSE Written
    BY <1>1, <2>2, <2>3, <2>4, WritingExtendsWritten
  <2>7. Joined(<< >>, <<Envelope>>) = <<Envelope>>
    BY <2>3, JoinedProperties
  <2>8. Written' \in {<< >>, <<Envelope>>}
    BY <1>2, <2>1, <2>6, <2>7, UntouchedWritten
  <2>9. OwnMessage'
    BY <1>1, <2>1, <2>8 DEF OwnMessage, Messages, Untouched, Unasked
  <2>10. EndInv'
    BY <1>1, <2>9 DEF EndInv
  <2>11. WriterInv' /\ LogInv' /\ RelayInv' /\ step' \notin BeforeWriting
    BY <1>1, <1>2, <1>3, <2>5 DEF WriterInv, LogInv, RelayInv, BeforeWriting, Relaying, Ending
  <2> QED
    BY <2>10, <2>11 DEF ExchangeInv
<1> QED
  BY <1>4, <1>5

\* What is left in the buffer is delivered when the response ends.
LEMMA FinishKeepsInv ==
  ASSUME ExchangeInv, Finish
  PROVE  ExchangeInv'
<1>1. /\ step = "finish" /\ step' = "ended" /\ w' = Delivered(Implied(w))
      /\ UNCHANGED <<case, streaming, chunk, up, from, client, panicked, log>>
  BY DEF Finish, relayVars
<1>2. WriterInv /\ LogInv /\ EndInv /\ w \in Writer
  BY <1>1 DEF ExchangeInv, WriterInv
<1>3. /\ Implied(w) \in Writer /\ Implied(w).wrote = w.wrote /\ Implied(w).logged = w.logged
      /\ Implied(w).status = (IF w.status = 0 THEN 200 ELSE w.status)
      /\ Implied(w).body = w.body /\ Implied(w).pend = w.pend
  BY <1>2, ImpliedProperties
<1>4. /\ w' \in Writer /\ w'.wrote = w.wrote /\ w'.logged = w.logged /\ w'.pend = << >>
      /\ w'.status = IF w.status = 0 THEN 200 ELSE w.status
  BY <1>1, <1>3, DeliveredProperties
<1>5. Written' = Written /\ \A n : Holds(n)' <=> Holds(n)
  BY <1>1, <1>3, DeliveryKeepsWritten, SameWritten
<1>6. \/ OwnMessage
      \/ /\ Attributed
         /\ \E n \in 0 .. up : Holds(n) /\ (panicked = "no" => n = up)
  BY <1>1, <1>2 DEF EndInv, Ending
<1>7. EndInv'
  <2>1. CASE OwnMessage
    BY <1>1, <1>4, <1>5, <2>1 DEF EndInv, OwnMessage, Unasked
  <2>2. CASE ~OwnMessage
    <3>1. Attributed'
      BY <1>1, <1>4, <1>6, <2>2, StatusFacts DEF Attributed, Valid
    <3> QED
      BY <1>1, <1>4, <1>5, <1>6, <2>2, <3>1 DEF EndInv
  <2> QED
    BY <2>1, <2>2
<1>8. WriterInv' /\ LogInv' /\ RelayInv' /\ step' \notin BeforeWriting
  BY <1>1, <1>2, <1>4 DEF WriterInv, LogInv, RelayInv, BeforeWriting, Relaying, Ending
<1> QED
  BY <1>7, <1>8 DEF ExchangeInv

\* A buffer that is full is delivered at any stage after the first write.
LEMMA BufferSpillsKeepsInv ==
  ASSUME ExchangeInv, BufferSpills
  PROVE  ExchangeInv'
<1>1. /\ w.pend # << >> /\ w' = Delivered(w)
      /\ UNCHANGED <<case, step, streaming, chunk, up, from, client, panicked, log>>
  BY DEF BufferSpills, relayVars
<1>2. WriterInv /\ LogInv /\ EndInv /\ RelayInv /\ w \in Writer /\ ~Untouched /\ step \notin BeforeWriting
  BY <1>1 DEF ExchangeInv, WriterInv, Untouched, Unasked
<1>3. /\ w' \in Writer /\ w'.wrote = w.wrote /\ w'.logged = w.logged /\ w'.status = w.status
      /\ w'.pend = << >>
  BY <1>1, <1>2, DeliveredProperties
<1>4. Written' = Written /\ \A n : Holds(n)' <=> Holds(n)
  BY <1>1, <1>2, DeliveryKeepsWritten, SameWritten
<1>5. /\ (StatusNoted' <=> StatusNoted) /\ (OwnMessage' <=> OwnMessage)
      /\ (BackendsStatus' <=> BackendsStatus) /\ (Attributed' <=> Attributed)
  BY <1>1, <1>3, <1>4 DEF StatusNoted, OwnMessage, Unasked, BackendsStatus, Attributed
<1>6. RelayInv'
  BY <1>1, <1>2, <1>3, <1>4, <1>5 DEF RelayInv
<1>7. EndInv'
  BY <1>1, <1>2, <1>3, <1>4, <1>5 DEF EndInv
<1>8. WriterInv' /\ LogInv'
  BY <1>1, <1>2, <1>3 DEF WriterInv, LogInv
<1> QED
  BY <1>1, <1>2, <1>6, <1>7, <1>8 DEF ExchangeInv

\* What is still to be written is a chunk that was read.
LEMMA StillToWrite ==
  ASSUME RelayInv, up \in Nat, step = "write"
  PROVE  up - Len(chunk.data) \in 0 .. up
<1>1. CASE chunk.data = << >>
  <2>1. Len(<< >>) = 0
    OBVIOUS
  <2> QED
    BY <1>1, <2>1
<1>2. CASE chunk.data = <<up>> /\ up > 0
  <2>1. Len(<<up>>) = 1
    OBVIOUS
  <2> QED
    BY <1>2, <2>1
<1> QED
  BY <1>1, <1>2 DEF RelayInv

\* A client that leaves keeps a beginning of what it would have had.
LEMMA ClientLeavesKeepsInv ==
  ASSUME ExchangeInv, ClientLeaves
  PROVE  ExchangeInv'
<1>1. /\ client = "here" /\ client' = "gone" /\ step \notin {"start", "exit", "ended"}
      /\ UNCHANGED <<case, step, w, streaming, chunk, up, from, panicked, log>>
  BY DEF ClientLeaves, relayVars
<1>2. /\ WriterInv /\ LogInv /\ EndInv /\ RelayInv /\ up \in Nat
      /\ w.body \in Seq(Int) /\ w.pend \in Seq(Int)
  BY ExchangeAssumption DEF ExchangeInv, WriterInv, Writer
<1>3. Written = Joined(w.body, w.pend) /\ Written' = w.body
  BY <1>1 DEF Written, Joined
<1>4. ASSUME NEW n \in Nat, Holds(n) PROVE Holds(n)'
  <2>1. Joined(w.body, w.pend) = Ints(n)
    BY <1>1, <1>3, <1>4 DEF Holds
  <2>2. \E k \in 0 .. n : w.body = Ints(k)
    BY <1>2, <2>1, LeavingKeepsBeginning
  <2> QED
    BY <1>1, <1>3, <2>2 DEF Holds
<1>5. Written \in Messages => Written' \in Messages
  <2>1. Envelope \in Int /\ Cached \in Int /\ Page \in Int
    BY DEF Envelope, Cached, Page
  <2> QED
    BY <1>2, <1>3, <2>1, LeavingKeepsBeginning DEF Messages
<1>6. StatusNoted' = StatusNoted /\ (OwnMessage => OwnMessage') /\ Untouched' = Untouched
      /\ BackendsStatus' = BackendsStatus /\ Attributed' = Attributed
  BY <1>1, <1>5 DEF StatusNoted, OwnMessage, Untouched, Unasked, BackendsStatus, Attributed
<1>7. RelayInv'
  <2>1. step = "write" => up - Len(chunk.data) \in Nat
    BY <1>2, StillToWrite
  <2>2. /\ step \in Relaying \ {"write"} => Holds(up)'
        /\ step = "write" => Holds(up - Len(chunk.data))'
    BY <1>1, <1>2, <1>4, <2>1 DEF RelayInv
  <2> QED
    BY <1>1, <1>2, <1>6, <2>2 DEF RelayInv
<1>8. EndInv'
  <2>1. \A n \in 0 .. up : n \in Nat
    BY <1>2
  <2>2. step = "return" => StatusNoted' /\ (OwnMessage' \/ (BackendsStatus' /\ Holds(up)'))
    BY <1>1, <1>2, <1>4, <1>6 DEF EndInv
  <2>3. step = "recover" => Untouched' \/ (w.wrote /\ Attributed' /\ \E n \in 0 .. up : Holds(n)')
    BY <1>1, <1>2, <1>4, <1>6, <2>1 DEF EndInv
  <2>4. step \in Ending =>
          \/ OwnMessage'
          \/ /\ Attributed'
             /\ \E n \in 0 .. up : Holds(n)' /\ (panicked = "no" => n = up)
    BY <1>1, <1>2, <1>4, <1>6, <2>1 DEF EndInv
  <2> QED
    BY <1>1, <2>2, <2>3, <2>4 DEF EndInv
<1>9. WriterInv' /\ LogInv'
  BY <1>1, <1>2 DEF WriterInv, LogInv
<1> QED
  BY <1>1, <1>6, <1>7, <1>8, <1>9 DEF ExchangeInv

\* A panic leaves what was written as it is.
LEMMA HandlerPanicsKeepsInv ==
  ASSUME ExchangeInv, HandlerPanics
  PROVE  ExchangeInv'
<1>1. /\ step \in {"embed", "lookup", "hit", "fetch", "learn", "call", "relay", "write", "flush"}
      /\ step' = "recover" /\ w' = w /\ panicked' \in {"early", "late"}
      /\ UNCHANGED <<case, streaming, chunk, up, from, client, log>>
  BY DEF HandlerPanics, PanicWith, relayVars
<1>2. WriterInv /\ LogInv /\ RelayInv /\ up \in Nat
  BY ExchangeAssumption DEF ExchangeInv, WriterInv
<1>3. \A n : Holds(n)' <=> Holds(n)
  BY <1>1, UnchangedWritten, SameWritten
<1>4. \/ Untouched
      \/ w.wrote /\ Attributed /\ \E n \in 0 .. up : Holds(n)
  <2>1. CASE step \in BeforeWriting
    BY <2>1 DEF ExchangeInv
  <2>2. CASE step \in Relaying \ {"write"}
    BY <1>2, <2>2 DEF RelayInv, StatusNoted, BackendsStatus, Attributed
  <2>3. CASE step = "write"
    BY <1>2, <2>3, StillToWrite DEF RelayInv, StatusNoted, Relaying, BackendsStatus, Attributed
  <2> QED
    BY <1>1, <2>1, <2>2, <2>3 DEF BeforeWriting, Relaying
<1>5. Untouched' \/ (w'.wrote /\ Attributed' /\ \E n \in 0 .. up' : Holds(n)')
  BY <1>1, <1>3, <1>4 DEF Untouched, Unasked, Attributed
<1>6. EndInv'
  BY <1>1, <1>5 DEF EndInv, Ending
<1>7. WriterInv' /\ LogInv' /\ RelayInv' /\ step' \notin BeforeWriting
  BY <1>1, <1>2 DEF WriterInv, LogInv, RelayInv, BeforeWriting, Relaying, Ending
<1> QED
  BY <1>6, <1>7 DEF ExchangeInv

-----------------------------------------------------------------------------
\* A step of another part, or none.
LEMMA ExchangeStutterKeepsInv ==
  ASSUME ExchangeInv, UNCHANGED exchangeVars
  PROVE  ExchangeInv'
<1>1. UNCHANGED <<case, step, w, streaming, chunk, up, from, client, panicked, log>>
  BY DEF exchangeVars, relayVars
<1>2. Written' = Written /\ (\A n : Holds(n)' <=> Holds(n)) /\ StatusNoted' = StatusNoted /\ Untouched' = Untouched
  BY <1>1, UnchangedWritten, SameWritten DEF StatusNoted, Untouched, Unasked, BackendsStatus
<1>3. OwnMessage' = OwnMessage /\ BackendsStatus' = BackendsStatus /\ Attributed' = Attributed
  BY <1>1, <1>2 DEF OwnMessage, Unasked, BackendsStatus, Attributed
<1>4. RelayInv' /\ WriterInv' /\ LogInv'
  BY <1>1, <1>2, <1>3 DEF ExchangeInv, RelayInv, WriterInv, LogInv
<1>5. EndInv'
  BY <1>1, <1>2, <1>3 DEF ExchangeInv, EndInv
<1> QED
  BY <1>1, <1>2, <1>4, <1>5 DEF ExchangeInv

\* No exchange has begun.
LEMMA ExchangeInitInv == ExchangeInit => ExchangeInv
<1> SUFFICES ASSUME ExchangeInit PROVE ExchangeInv
  OBVIOUS
<1>1. w \in Writer /\ Untouched
  BY DEF ExchangeInit, Writer, Noted, Untouched, Unasked
<1>2. up = 0 /\ 0 \in 0 .. MaxChunks /\ chunk.end = "more" /\ step \in BeforeWriting
  BY ExchangeAssumption DEF ExchangeInit, BeforeWriting
<1>3. WriterInv
  BY <1>1, <1>2 DEF ExchangeInit, WriterInv, EndsOfRead
<1>4. RelayInv /\ EndInv /\ LogInv
  BY DEF ExchangeInit, RelayInv, EndInv, LogInv, Relaying, Ending
<1> QED
  BY <1>1, <1>3, <1>4 DEF ExchangeInv

\* Every step of an exchange keeps the invariant.
LEMMA ExchangeNextInv == ExchangeInv /\ [ExchangeNext]_exchangeVars => ExchangeInv'
<1> SUFFICES ASSUME ExchangeInv, [ExchangeNext]_exchangeVars PROVE ExchangeInv'
  OBVIOUS
<1>1. CASE LoadConfig \/ Dispatch \/ Inspect \/ Embed \/ Lookup \/ ServeHit \/ CallFails
  BY <1>1, FrontKeepsInv
<1>2. CASE FetchReturns
  BY <1>2, FetchReturnsKeepsInv
<1>3. CASE Learn
  BY <1>3, LearnKeepsInv
<1>4. CASE CallReturns
  BY <1>4, CallReturnsKeepsInv
<1>5. CASE Read
  BY <1>5, ReadKeepsInv
<1>6. CASE WriteChunk
  BY <1>6, WriteChunkKeepsInv
<1>7. CASE WriteFails
  BY <1>7, WriteFailsKeepsInv
<1>8. CASE FlushChunk
  BY <1>8, FlushChunkKeepsInv
<1>9. CASE AccessLog
  BY <1>9, AccessLogKeepsInv
<1>10. CASE Recover
  BY <1>10, RecoverKeepsInv
<1>11. CASE Finish
  BY <1>11, FinishKeepsInv
<1>12. CASE BufferSpills
  BY <1>12, BufferSpillsKeepsInv
<1>13. CASE ClientLeaves
  BY <1>13, ClientLeavesKeepsInv
<1>14. CASE HandlerPanics
  BY <1>14, HandlerPanicsKeepsInv
<1>15. CASE UNCHANGED exchangeVars
  BY <1>15, ExchangeStutterKeepsInv
<1> QED
  BY <1>1, <1>2, <1>3, <1>4, <1>5, <1>6, <1>7, <1>8, <1>9, <1>10, <1>11, <1>12, <1>13, <1>14, <1>15
     DEF ExchangeNext, Serve

\* The writer, the relay and the log agree at every moment of an exchange.
THEOREM ExchangeInvariant == ExchangeSpec => []ExchangeInv
BY ExchangeInitInv, ExchangeNextInv, PTL DEF ExchangeSpec

\* What is read, written and logged keeps its type, and a handler that returns has
\* answered: a log line is written only behind a header (responseRecorder).
THEOREM ExchangeTypeCorrect == ExchangeSpec => []ExchangeTypeOK
<1>1. ASSUME ExchangeInv PROVE ExchangeTypeOK
  BY <1>1 DEF ExchangeInv, WriterInv, LogInv, Writer, Noted, Sendable, ExchangeTypeOK
<1> QED
  BY <1>1, ExchangeInvariant, PTL

\* For every request, environment and backend: the status in the access log is the one
\* that the client was sent (responseRecorder).
THEOREM LogTellsTheTruth == ExchangeSpec => []LoggedStatusIsSent
<1>1. ASSUME ExchangeInv PROVE LoggedStatusIsSent
  BY <1>1 DEF ExchangeInv, LogInv, LoggedStatusIsSent
<1> QED
  BY <1>1, ExchangeInvariant, PTL

\* For every length of a stream: while the relay waits for a chunk, a client that is
\* there has all the chunks before it (relayStream, Unwrap).
THEOREM StreamsAreTimely == ExchangeSpec => []StreamIsTimely
<1>1. ASSUME ExchangeInv PROVE StreamIsTimely
  <2> SUFFICES ASSUME step = "relay", streaming
               PROVE  w.status # 0 /\ (client = "here" => w.body = Upstream)
    BY DEF StreamIsTimely
  <2>1. w.status # 0 /\ Holds(up) /\ w.pend = << >> /\ w.body \in Seq(Int)
    BY <1>1 DEF ExchangeInv, RelayInv, WriterInv, Writer, Relaying, StatusNoted, BackendsStatus
  <2>2. Joined(w.body, << >>) = w.body
    BY <2>1, JoinedProperties
  <2>3. client = "here" => Written = w.body /\ Written = Ints(up)
    BY <2>1, <2>2 DEF Written, Holds, Joined
  <2> QED
    BY <2>1, <2>3 DEF Upstream, Ints
<1> QED
  BY <1>1, ExchangeInvariant, PTL

\* For every body, every status and every way it breaks off: what a client has is a
\* beginning of the backend's body under the backend's status or, as long as no backend
\* has answered, one message of the gateway's own, and a body that was read to its end is
\* received to its end (proxyPassthrough, relayStream, writeBuffered, recoverMiddleware).
THEOREM RelaysAreFaithful == ExchangeSpec => []RelayIsFaithful
<1>1. ASSUME ExchangeInv PROVE RelayIsFaithful
  <2>1. /\ WriterInv /\ RelayInv /\ EndInv /\ up \in Nat /\ Upstream = Ints(up)
        /\ w.body \in Seq(Int) /\ w.pend \in Seq(Int) /\ w.status \in {0} \cup Sendable
    BY <1>1, ExchangeAssumption DEF ExchangeInv, WriterInv, Writer, Upstream, Ints
  <2>2. ASSUME NEW n \in 0 .. up, Holds(n) PROVE IsPrefix(Written, Upstream)
    <3>1. PICK k \in 0 .. n : Written = Ints(k)
      BY <2>1, <2>2 DEF Holds
    <3>2. k \in 0 .. up
      BY <2>1, <3>1
    <3>3. IsPrefix(Ints(k), Ints(up))
      BY <2>1, <3>2, IntsProperties
    <3> QED
      BY <2>1, <3>1, <3>3
  <2>3. OwnMessage => Len(Written) <= 1 /\ up = 0
    <3> SUFFICES ASSUME OwnMessage PROVE Len(Written) <= 1 /\ up = 0
      OBVIOUS
    <3>1. Written = << >> \/ \E e \in Int : Written = <<e>>
      <4>1. Envelope \in Int /\ Cached \in Int /\ Page \in Int
        BY DEF Envelope, Cached, Page
      <4> QED
        BY <4>1 DEF OwnMessage, Messages, Unasked
    <3>2. Len(<< >>) = 0 /\ \A e \in Int : Len(<<e>>) = 1
      OBVIOUS
    <3>3. Len(Written) <= 1
      <4> DEFINE length == Len(Written)
      <4>1. length = 0 \/ length = 1
        BY <3>1, <3>2
      <4> HIDE DEF length
      <4>2. length <= 1
        BY <4>1
      <4> QED
        BY <4>2 DEF length
    <3>4. up = 0
      BY DEF OwnMessage, Unasked
    <3> QED
      BY <3>3, <3>4
  <2>4. Untouched => Len(Written) <= 1 /\ up = 0
    <3>1. Len(<< >>) = 0
      OBVIOUS
    <3> QED
      BY <2>1, <3>1, UntouchedWritten DEF Untouched, Unasked
  <2>5. ASSUME ~OwnMessage, ~Untouched
        PROVE  (\E n \in 0 .. up : Holds(n)) /\ Attributed
    <3>1. step \notin BeforeWriting
      BY <1>1, <2>5 DEF ExchangeInv
    <3>2. CASE step \in Relaying \ {"write"}
      BY <2>1, <3>2 DEF RelayInv, BackendsStatus, Attributed
    <3>3. CASE step = "write"
      BY <2>1, <3>3, StillToWrite DEF RelayInv, Relaying, BackendsStatus, Attributed
    <3>4. CASE step \in {"return", "recover"} \cup Ending
      BY <2>1, <2>5, <3>4 DEF EndInv, BackendsStatus, Attributed
    <3> QED
      BY <2>1, <3>1, <3>2, <3>3, <3>4 DEF WriterInv, Relaying
  <2>6. IF from = NoAnswer
        THEN Len(Written) <= 1 /\ up = 0
        ELSE IsPrefix(Written, Upstream) /\ (Valid(from) => w.status = from)
    <3>1. Attributed => from # NoAnswer
      BY ExchangeAssumption DEF Attributed, NoAnswer
    <3>2. OwnMessage \/ Untouched => from = NoAnswer
      BY DEF OwnMessage, Untouched, Unasked
    <3>3. CASE from = NoAnswer
      BY <2>3, <2>4, <2>5, <3>1, <3>3
    <3>4. CASE from # NoAnswer
      BY <2>2, <2>5, <3>2, <3>4 DEF Attributed
    <3> QED
      BY <3>3, <3>4
  <2>7. ASSUME step = "ended", client = "here", panicked = "no", chunk.end = "eof"
        PROVE  w.body = Upstream
    <3>1. w.pend = << >> /\ Holds(up)
      BY <2>1, <2>7 DEF EndInv, Ending, OwnMessage, Unasked
    <3>2. Joined(w.body, << >>) = w.body
      BY <2>1, JoinedProperties
    <3>3. Written = w.body
      BY <2>7, <3>1, <3>2 DEF Written, Joined
    <3> QED
      BY <2>1, <2>7, <3>1, <3>3 DEF Holds
  <2> QED
    BY <2>6, <2>7 DEF RelayIsFaithful
<1> QED
  BY <1>1, ExchangeInvariant, PTL

-----------------------------------------------------------------------------
\* Only a configuration that loads gets as far as a request, and only one with an
\* embedder, a backend that answers in time and a decision that may serve gets to a hit.
Serves == InTime /\ MayServe(cfg.DELTA, cfg.NMIN[1], cfg.MAX_OBSERVATIONS[1])

LoadedInv ==
  /\ case \in Cases
  /\ step \in {"arrive", "inspect", "embed", "lookup", "hit"} => Loads(case.env)
  /\ step \in {"embed", "lookup", "hit"} => case.env.embedder
  /\ step = "hit" => Serves

LEMMA StaysLoaded == ExchangeSpec => []LoadedInv
<1>1. ExchangeInit => LoadedInv
  BY DEF ExchangeInit, LoadedInv
<1>2. LoadedInv /\ [ExchangeNext]_exchangeVars => LoadedInv'
  <2> SUFFICES ASSUME LoadedInv, [ExchangeNext]_exchangeVars
               PROVE  LoadedInv'
    OBVIOUS
  <2>1. case' = case
    BY DEF exchangeVars, ExchangeNext, Serve, LoadConfig, Dispatch, Inspect, Embed, Lookup, ServeHit, CallFails,
           FetchReturns, Learn, CallReturns, Read, WriteChunk, WriteFails, FlushChunk, AccessLog,
           Recover, Finish, BufferSpills, ClientLeaves, HandlerPanics
  <2>2. Serves' = Serves
    BY <2>1 DEF Serves, InTime, cfg, Load
  <2>3. \/ LoadConfig \/ Dispatch \/ Inspect \/ Embed \/ Lookup
        \/ step' = step \/ step' \notin {"arrive", "inspect", "embed", "lookup", "hit"}
    BY DEF exchangeVars, ExchangeNext, Serve, ServeHit, CallFails,
           FetchReturns, Learn, CallReturns, Read, WriteChunk, WriteFails, FlushChunk, AccessLog,
           Recover, Finish, BufferSpills, ClientLeaves, HandlerPanics, Answered, PanicWith
  <2>4. CASE LoadConfig
    BY <2>1, <2>4 DEF LoadConfig, LoadedInv
  <2>5. CASE Dispatch
    BY <2>1, <2>5 DEF Dispatch, WritePage, Answered, LoadedInv
  <2>6. CASE Inspect
    BY <2>1, <2>6 DEF Inspect, Answered, LoadedInv
  <2>7. CASE Embed
    BY <2>1, <2>7 DEF Embed, LoadedInv
  <2>8. CASE Lookup
    <3>1. step = "lookup" /\ (step' = "fetch" \/ (step' = "hit" /\ Serves))
      BY <2>8 DEF Lookup, Serves
    <3> QED
      BY <2>1, <2>2, <3>1 DEF LoadedInv
  <2>9. CASE step' = step \/ step' \notin {"arrive", "inspect", "embed", "lookup", "hit"}
    BY <2>1, <2>2, <2>9 DEF LoadedInv
  <2> QED
    BY <2>3, <2>4, <2>5, <2>6, <2>7, <2>8, <2>9
<1> QED
  BY <1>1, <1>2, PTL DEF ExchangeSpec

\* What a loaded configuration decides with.
LEMMA LoadedSettings ==
  ASSUME LoadedInv, step \in {"arrive", "hit"}
  PROVE  /\ cfg.DELTA \in Deltas
         /\ cfg.NMIN[1] \in Int /\ cfg.MAX_OBSERVATIONS[1] \in Nat \ {0}
<1>1. /\ case \in Cases /\ \A s \in Settings : Accepts(s, Getenv(case.env, s))
      /\ \A s \in Settings : IsSetting(s, Getenv(case.env, s))
  BY ExchangeAssumption DEF LoadedInv, Loads
<1>2. {"NMIN", "MAX_OBSERVATIONS", "DELTA"} \subseteq Settings
  BY DEF Settings, Counts
<1>3. PICK delta, nmin, max : /\ delta = Getenv(case.env, "DELTA") /\ nmin = Getenv(case.env, "NMIN")
                              /\ max = Getenv(case.env, "MAX_OBSERVATIONS")
  OBVIOUS
<1>4. cfg.DELTA = delta /\ cfg.NMIN = nmin /\ cfg.MAX_OBSERVATIONS = max
  BY <1>2, <1>3 DEF cfg, Load
<1>5. /\ Accepts("DELTA", delta) /\ Accepts("NMIN", nmin) /\ Accepts("MAX_OBSERVATIONS", max)
      /\ IsSetting("DELTA", delta) /\ IsSetting("NMIN", nmin) /\ IsSetting("MAX_OBSERVATIONS", max)
  BY <1>1, <1>2, <1>3
<1>6. "NMIN" \in Counts /\ "MAX_OBSERVATIONS" \in Counts
  BY DEF Counts
<1>7. delta \in Deltas
  BY <1>5, DeltaRange DEF Accepts, IsSetting
<1>8. nmin \in Int \X Nat
  BY <1>5 DEF Accepts, IsSetting, IsFloat
<1>9. max \in Int \X Nat /\ max[2] = 1 /\ ~AtMost(max, Zero)
  BY <1>5, <1>6 DEF Accepts, IsSetting, IsFloat
<1>10. Less(Zero, max)
  BY <1>9 DEF AtMost, NaN, Zero
<1>11. 0 < max[1]
  BY <1>9, <1>10 DEF Less, Zero
<1> QED
  BY <1>4, <1>7, <1>8, <1>9, <1>11

\* Whatever was configured and loads, whatever the labels and their fit, what is served
\* from the cache is within delta (Load, Decide, tauHat).
THEOREM ErrorStaysWithinDelta == ExchangeSpec => []ServeErrorWithinDelta
<1>1. LoadedInv => ServeErrorWithinDelta
  <2> SUFFICES ASSUME LoadedInv, step = "arrive", NEW n, NEW fit \in Fits(1),
                      NEW served, served = {u \in Coins : ~Decide(cfg.DELTA, cfg.NMIN[1], n, fit, u).explore},
                      served # {}
               PROVE  \E k \in Grid : AtMost(<<Cardinality(served) * (Scale - fit.alpha[k][1]), Faces * Scale>>, cfg.DELTA)
    BY DEF ServeErrorWithinDelta
  <2>1. fit.alpha \in Bands
    BY DEF Fits
  <2> QED
    BY <2>1, LoadedSettings, ServedWithinDelta
<1> QED
  BY <1>1, StaysLoaded, PTL

\* Of the settings that load, those of CacheIsOff rule serving out: under them no
\* request ever gets a hit, and under all others Decide serves for some fit and some coin
\* (Load, handleChatCompletions, Decide).
THEOREM ServingIsPossible == ExchangeSpec => []CacheCanServe
<1>1. LoadedInv => CacheCanServe
  <2> SUFFICES ASSUME LoadedInv, step \in {"arrive", "hit"}
               PROVE  /\ step = "hit" => ~CacheIsOff
                      /\ step = "arrive" /\ ~CacheIsOff => MayServe(cfg.DELTA, cfg.NMIN[1], cfg.MAX_OBSERVATIONS[1])
    BY DEF CacheCanServe
  <2>1. PICK delta, nmin, max : delta = cfg.DELTA /\ nmin = cfg.NMIN[1] /\ max = cfg.MAX_OBSERVATIONS[1]
    OBVIOUS
  <2>2. delta \in Deltas /\ nmin \in Int /\ max \in Nat \ {0}
    BY <2>1, LoadedSettings
  <2>3. ASSUME MayServe(delta, nmin, max) PROVE nmin <= max /\ delta # NaN /\ Resolves(delta)
    BY <2>2, <2>3, ServesFromTheFloor, ServesForANumber, ServesWhatItResolves
  <2>4. ASSUME nmin <= max, delta # NaN, Resolves(delta) PROVE MayServe(delta, nmin, max)
    BY <2>2, <2>4, ServesFromTheFloorOn
  <2>5. CacheIsOff <=> ~case.env.embedder \/ ~InTime \/ nmin > max \/ delta = NaN \/ ~Resolves(delta)
    BY <2>1 DEF CacheIsOff
  <2>6. ASSUME step = "hit" PROVE ~CacheIsOff
    <3>1. case.env.embedder /\ InTime /\ MayServe(delta, nmin, max)
      BY <2>1, <2>6 DEF LoadedInv, Serves
    <3> QED
      BY <2>2, <2>3, <2>5, <3>1
  <2>7. ASSUME ~CacheIsOff PROVE MayServe(delta, nmin, max)
    BY <2>2, <2>4, <2>5, <2>7
  <2> QED
    BY <2>1, <2>6, <2>7
<1> QED
  BY <1>1, StaysLoaded, PTL

-----------------------------------------------------------------------------
\* Concatenations of sequences, one after the other: at[i] is what the first i make.
Concats(at, n, seqs) ==
  /\ at[0] = << >>
  /\ \A i \in 1 .. n : at[i] = at[i - 1] \o seqs[i]

\* FlattenSeq goes through them.
LEMMA FlattenFacts ==
  ASSUME NEW S, NEW seqs \in Seq(Seq(S)), NEW n \in Nat, n = Len(seqs)
  PROVE  \E at \in [0 .. n -> Seq(S)] : Concats(at, n, seqs) /\ FlattenSeq(seqs) = at[n]
<1>1. DOMAIN seqs = 1 .. n /\ \A i \in 1 .. n : seqs[i] \in Seq(S)
  OBVIOUS
<1> DEFINE Made(m) == \E at \in [0 .. m -> Seq(S)] : Concats(at, m, seqs)
           G == {m \in 0 .. n : Made(m)}
<1>2. 0 \in G
  <2> DEFINE z == [i \in 0 .. 0 |-> << >>]
  <2>1. z \in [0 .. 0 -> Seq(S)] /\ Concats(z, 0, seqs)
    BY DEF Concats
  <2> HIDE DEF z
  <2>2. Made(0)
    BY <2>1
  <2> QED
    BY <2>2
<1>3. ASSUME NEW m \in 0 .. n - 1, m \in G
      PROVE  m + 1 \in G
  <2>1. PICK at \in [0 .. m -> Seq(S)] : Concats(at, m, seqs)
    BY <1>3
  <2>2. PICK j \in 1 .. n : j = m + 1 /\ \A i \in 0 .. j : i = j \/ i \in 0 .. m
    OBVIOUS
  <2>3. PICK next \in Seq(S) : next = at[m] \o seqs[j]
    <3>1. PICK a \in Seq(S), b \in Seq(S) : a = at[m] /\ b = seqs[j]
      BY <1>1
    <3>2. a \o b \in Seq(S)
      OBVIOUS
    <3> QED
      BY <3>1, <3>2
  <2> DEFINE more == [i \in 0 .. j |-> IF i = j THEN next ELSE at[i]]
  <2>4. more \in [0 .. j -> Seq(S)]
    BY <2>2
  <2>5. more[j] = next /\ \A i \in 0 .. m : more[i] = at[i]
    BY <2>2
  <2> HIDE DEF more
  <2>6. ASSUME NEW i \in 1 .. j
        PROVE  more[i] = more[i - 1] \o seqs[i]
    <3>1. CASE i = j
      <4>1. i - 1 = m /\ m \in 0 .. m
        BY <2>2, <3>1
      <4> QED
        BY <2>3, <2>5, <3>1, <4>1
    <3>2. CASE i # j
      <4>1. i \in 1 .. m /\ i - 1 \in 0 .. m /\ i \in 0 .. m
        BY <2>2, <3>2
      <4> QED
        BY <2>1, <2>5, <4>1 DEF Concats
    <3> QED
      BY <3>1, <3>2
  <2>7. Concats(more, j, seqs)
    <3>1. more[0] = << >>
      BY <2>1, <2>5 DEF Concats
    <3> QED
      BY <2>6, <3>1 DEF Concats
  <2>8. Made(j)
    BY <2>4, <2>7
  <2> HIDE DEF Made
  <2> QED
    BY <2>2, <2>8
<1> HIDE DEF G
<1>4. 0 .. n \subseteq G
  BY <1>2, <1>3, StepsReach
<1>5. n \in G
  BY <1>4
<1>6. PICK at \in [0 .. n -> Seq(S)] : Concats(at, n, seqs)
  BY <1>5 DEF G
<1>7. CASE n = 0
  <2>1. seqs = << >>
    BY <1>7, EmptySeq
  <2>2. FlattenSeq(seqs) = << >>
    BY <1>7, <2>1 DEF FlattenSeq
  <2> QED
    BY <1>6, <1>7, <2>2 DEF Concats
<1>8. CASE n # 0
  <2> DEFINE Flattens(h) == h = [i \in 1 .. Len(seqs) |-> IF i = 1 THEN seqs[i] ELSE h[i - 1] \o seqs[i]]
             f == CHOOSE h : Flattens(h)
             g == [i \in 1 .. n |-> at[i]]
  <2>1. FlattenSeq(seqs) = f[n]
    BY <1>8 DEF FlattenSeq
  <2>2. at[1] = seqs[1]
    <3>1. 1 \in 1 .. n /\ 1 - 1 = 0
      BY <1>8
    <3>2. at[1] = at[0] \o seqs[1] /\ at[0] = << >>
      BY <1>6, <3>1 DEF Concats
    <3>3. seqs[1] \in Seq(S)
      BY <1>1, <3>1
    <3> QED
      BY <3>2, <3>3
  <2>3. /\ \A i \in 1 .. n : i # 1 => i - 1 \in 1 .. n
        /\ \A i \in 1 .. n : at[i] = at[i - 1] \o seqs[i]
    <3>1. \A i \in 1 .. n : i # 1 => i - 1 \in 1 .. n
      OBVIOUS
    <3> QED
      BY <1>6, <3>1 DEF Concats
  <2>4. Flattens(g)
    BY <2>2, <2>3
  <2>5. Flattens(f)
    BY <2>4
  <2> HIDE DEF f, g
  <2> DEFINE H == {m \in 0 .. n : m # 0 => f[m] = at[m]}
  <2>6. 0 \in H
    OBVIOUS
  <2>7. ASSUME NEW m \in 0 .. n - 1, m \in H
        PROVE  m + 1 \in H
    <3>1. PICK j \in 1 .. n : j = m + 1 /\ j - 1 = m
      OBVIOUS
    <3>2. ASSUME j = 1 PROVE f[j] = at[j]
      BY <2>2, <2>5, <3>2
    <3>3. ASSUME j # 1 PROVE f[j] = at[j]
      <4>1. f[j] = f[j - 1] \o seqs[j]
        BY <2>5, <3>1, <3>3
      <4>2. f[j - 1] = at[j - 1]
        BY <2>7, <3>1, <3>3
      <4> QED
        BY <2>3, <3>1, <4>1, <4>2
    <3>4. f[j] = at[j]
      BY <3>2, <3>3
    <3> QED
      BY <3>1, <3>4
  <2> HIDE DEF H
  <2>8. 0 .. n \subseteq H
    BY <2>6, <2>7, StepsReach
  <2>9. f[n] = at[n]
    BY <1>8, <2>8 DEF H
  <2> QED
    BY <1>6, <2>1, <2>9
<1> QED
  BY <1>7, <1>8

\* Such concatenations of n sequences over S.
Joins(S, n, seqs, at) ==
  /\ n \in Nat /\ at \in [0 .. n -> Seq(S)] /\ Concats(at, n, seqs)
  /\ \A i \in 1 .. n : seqs[i] \in Seq(S)

\* FlattenSeq is the last of them.
LEMMA FlattenJoins ==
  ASSUME NEW S, NEW seqs \in Seq(Seq(S))
  PROVE  \E at : Joins(S, Len(seqs), seqs, at) /\ FlattenSeq(seqs) = at[Len(seqs)]
<1>1. PICK n \in Nat : n = Len(seqs)
  OBVIOUS
<1>2. \A i \in 1 .. n : seqs[i] \in Seq(S)
  BY <1>1
<1>3. \E at \in [0 .. n -> Seq(S)] : Concats(at, n, seqs) /\ FlattenSeq(seqs) = at[n]
  BY <1>1, FlattenFacts
<1> QED
  BY <1>1, <1>2, <1>3 DEF Joins

\* What follows the first i pieces.
LEMMA RestOfPieces ==
  ASSUME NEW S, NEW n, NEW seqs, NEW at, Joins(S, n, seqs, at), NEW i \in 0 .. n
  PROVE  \E rest \in Seq(S) : at[n] = at[i] \o rest
<1>0. n \in Nat /\ at \in [0 .. n -> Seq(S)] /\ \A k \in 1 .. n : seqs[k] \in Seq(S) /\ at[k] = at[k - 1] \o seqs[k]
  BY DEF Joins, Concats
<1> DEFINE Begins(m) == \E rest \in Seq(S) : at[m] = at[i] \o rest
           G == {m \in 0 .. n : m >= i => Begins(m)}
<1>1. Begins(i)
  <2>1. at[i] \in Seq(S) /\ << >> \in Seq(S)
    BY <1>0, EmptySeq
  <2>2. at[i] = at[i] \o << >>
    BY <2>1, ConcatEmptySeq
  <2> QED
    BY <2>1, <2>2
<1>2. 0 \in G
  <2>1. 0 >= i => i = 0
    OBVIOUS
  <2>2. 0 \in 0 .. n
    BY <1>0
  <2> HIDE DEF Begins
  <2> QED
    BY <1>1, <2>1, <2>2
<1>3. ASSUME NEW m \in 0 .. n - 1, m \in G
      PROVE  m + 1 \in G
  <2>1. PICK j \in 1 .. n : j = m + 1 /\ j - 1 = m /\ j \in 0 .. n /\ m \in 0 .. n
    BY <1>0
  <2>2. ASSUME j >= i, j # i PROVE Begins(j)
    <3>1. m >= i
      BY <2>1, <2>2
    <3>2. PICK rest \in Seq(S) : at[m] = at[i] \o rest
      BY <1>3, <3>1
    <3>3. PICK a \in Seq(S), b \in Seq(S) : a = at[i] /\ b = seqs[j]
      BY <1>0, <2>1
    <3>4. at[j] = (a \o rest) \o b
      BY <1>0, <2>1, <3>2, <3>3
    <3>5. a \in Seq(S) /\ b \in Seq(S) /\ rest \in Seq(S)
      BY <3>2, <3>3
    <3>6. (a \o rest) \o b = a \o (rest \o b) /\ rest \o b \in Seq(S)
      BY <3>5
    <3> QED
      BY <3>3, <3>4, <3>6
  <2> HIDE DEF Begins
  <2>3. j >= i => Begins(j)
    BY <1>1, <2>2
  <2> QED
    BY <2>1, <2>3
<1> HIDE DEF G
<1>4. 0 .. n \subseteq G
  BY <1>0, <1>2, <1>3, StepsReach
<1>5. n \in G /\ n >= i
  BY <1>0, <1>4
<1> QED
  BY <1>5 DEF G

\* A piece lies between what is before it and what is behind it.
InPlace(S, n, seqs, at) ==
  \A j \in 1 .. n : \E rest \in Seq(S) : at[n] = at[j - 1] \o (seqs[j] \o rest)

\* So do all pieces that are joined.
LEMMA PieceInPlace ==
  ASSUME NEW S, NEW n, NEW seqs, NEW at, Joins(S, n, seqs, at)
  PROVE  InPlace(S, n, seqs, at)
<1> SUFFICES ASSUME NEW j \in 1 .. n
             PROVE  \E rest \in Seq(S) : at[n] = at[j - 1] \o (seqs[j] \o rest)
  BY DEF InPlace
<1>0. n \in Nat /\ at \in [0 .. n -> Seq(S)] /\ seqs[j] \in Seq(S) /\ at[j] = at[j - 1] \o seqs[j]
  BY DEF Joins, Concats
<1>1. j \in 0 .. n /\ j - 1 \in 0 .. n
  BY <1>0
<1>2. PICK rest \in Seq(S) : at[n] = at[j] \o rest
  BY <1>1, RestOfPieces
<1>3. PICK a \in Seq(S), b \in Seq(S) : a = at[j - 1] /\ b = seqs[j]
  BY <1>0, <1>1
<1>4. at[j] = a \o b
  BY <1>0, <1>3
<1>5. a \in Seq(S) /\ b \in Seq(S) /\ rest \in Seq(S)
  BY <1>2, <1>3
<1>6. (a \o b) \o rest = a \o (b \o rest)
  BY <1>5
<1> QED
  BY <1>2, <1>3, <1>4, <1>6

\* Two beginnings of one sequence are equal if they are as long as each other.
LEMMA EqualBeginnings ==
  ASSUME NEW S, NEW u \in Seq(S), NEW v \in Seq(S), NEW r \in Seq(S), NEW t \in Seq(S),
         u \o r = v \o t, Len(u) > 0, Len(v) > 0, u[1] = v[1] => Len(u) = Len(v)
  PROVE  u = v
<1>0. Len(u) \in Nat /\ Len(v) \in Nat
  BY LenProperties
<1>1. PICK k \in Nat, m \in Nat : k = Len(u) /\ m = Len(v)
  BY <1>0
<1>2. \A i \in 1 .. k : (u \o r)[i] = u[i]
  BY <1>1
<1>3. \A i \in 1 .. m : (v \o t)[i] = v[i]
  BY <1>1
<1>4. 1 \in 1 .. k /\ 1 \in 1 .. m
  BY <1>1
<1>5. k = m
  BY <1>1, <1>2, <1>3, <1>4
<1>6. \A i \in 1 .. k : u[i] = v[i]
  BY <1>2, <1>3, <1>5
<1> QED
  BY <1>1, <1>5, <1>6, SeqEqual

\* Pieces that are not empty and whose length their first element tells.
Telling(n, p, m, q) ==
  /\ \A i \in 1 .. n : Len(p[i]) > 0
  /\ \A i \in 1 .. m : Len(q[i]) > 0
  /\ \A i \in 1 .. n, j \in 1 .. m : p[i][1] = q[j][1] => Len(p[i]) = Len(q[j])

\* Such pieces can be told apart when they are joined without a mark between them: here,
\* as far as the shorter of two goes.
LEMMA PiecesAgree ==
  ASSUME NEW S, NEW n, NEW m, NEW p, NEW q, NEW at, NEW bt,
         Joins(S, n, p, at), Joins(S, m, q, bt), n <= m, at[n] = bt[m],
         Telling(n, p, m, q)
  PROVE  n = m /\ \A i \in 1 .. n : p[i] = q[i]
<1>0. /\ n \in Nat /\ at \in [0 .. n -> Seq(S)] /\ at[0] = << >>
      /\ m \in Nat /\ bt \in [0 .. m -> Seq(S)] /\ bt[0] = << >>
      /\ \A i \in 1 .. n : p[i] \in Seq(S) /\ at[i] = at[i - 1] \o p[i]
      /\ \A i \in 1 .. m : q[i] \in Seq(S) /\ bt[i] = bt[i - 1] \o q[i]
  BY DEF Joins, Concats
<1> DEFINE A == InPlace(S, n, p, at)
           B == InPlace(S, m, q, bt)
<1>6. A /\ B
  BY PieceInPlace, Zenon
<1> HIDE DEF A, B
<1> DEFINE Same(k) == at[k] = bt[k] /\ \A i \in 1 .. k : p[i] = q[i]
           G == {k \in 0 .. n : Same(k)}
<1>1. 0 \in G
  BY <1>0
<1>2. ASSUME NEW k \in 0 .. n - 1, k \in G
      PROVE  k + 1 \in G
  <2>1. PICK j \in 1 .. n : j = k + 1 /\ j - 1 = k /\ j \in 1 .. m /\ k \in 0 .. n /\ k \in 0 .. m
    BY <1>0
  <2>2. PICK a \in Seq(S) : a = at[k] /\ a = bt[k]
    BY <1>0, <1>2, <2>1
  <2>3. PICK u \in Seq(S), v \in Seq(S) : u = p[j] /\ v = q[j]
    BY <1>0, <2>1
  <2>4. Len(u) > 0 /\ Len(v) > 0 /\ (u[1] = v[1] => Len(u) = Len(v))
    BY <2>1, <2>3 DEF Telling
  <2>5. PICK r \in Seq(S) : at[n] = a \o (u \o r)
    <3>1. \E r \in Seq(S) : at[n] = at[j - 1] \o (p[j] \o r)
      BY <1>6, <2>1 DEF A, B, InPlace
    <3> QED
      BY <2>1, <2>2, <2>3, <3>1
  <2>6. PICK t \in Seq(S) : bt[m] = a \o (v \o t)
    <3>1. \E t \in Seq(S) : bt[m] = bt[j - 1] \o (q[j] \o t)
      BY <1>6, <2>1 DEF A, B, InPlace
    <3> QED
      BY <2>1, <2>2, <2>3, <3>1
  <2>7. u \o r = v \o t
    <3>1. u \o r \in Seq(S) /\ v \o t \in Seq(S)
      BY <2>3, <2>5, <2>6, ConcatProperties
    <3> QED
      BY <2>2, <2>5, <2>6, <3>1, ConcatSimplifications
  <2>8. u = v
    BY <2>3, <2>4, <2>5, <2>6, <2>7, EqualBeginnings
  <2>9. \A i \in 1 .. j : i = j \/ i \in 1 .. k
    BY <2>1
  <2>10. at[j] = a \o u /\ bt[j] = a \o v
    BY <1>0, <2>1, <2>2, <2>3
  <2>11. Same(j)
    BY <1>2, <2>3, <2>8, <2>9, <2>10
  <2> HIDE DEF Same
  <2> QED
    BY <2>1, <2>11
<1> HIDE DEF G
<1>3. 0 .. n \subseteq G
  BY <1>0, <1>1, <1>2, StepsReach
<1>4. Same(n)
  BY <1>0, <1>3 DEF G
<1>5. ASSUME n < m PROVE FALSE
  <2>1. PICK j \in 1 .. m : j - 1 = n
    BY <1>0, <1>5
  <2>2. PICK a \in Seq(S), v \in Seq(S) : a = at[n] /\ v = q[j]
    <3>1. n \in 0 .. n
      BY <1>0
    <3>2. at[n] \in Seq(S) /\ q[j] \in Seq(S)
      BY <1>0, <2>1, <3>1
    <3> QED
      BY <3>2
  <2>3. PICK t \in Seq(S) : bt[m] = a \o (v \o t)
    <3>1. \E t \in Seq(S) : bt[m] = bt[j - 1] \o (q[j] \o t)
      BY <1>6, <2>1 DEF A, B, InPlace
    <3> QED
      BY <1>4, <2>1, <2>2, <3>1
  <2>4. a \in Seq(S) /\ v \in Seq(S) /\ t \in Seq(S) /\ Len(v) > 0
    BY <2>1, <2>2, <2>3 DEF Telling
  <2>5. a \o (v \o t) = a
    BY <2>2, <2>3
  <2>6. Len(v \o t) = Len(v) + Len(t) /\ v \o t \in Seq(S) /\ Len(t) \in Nat
    BY <2>4
  <2>7. Len(a \o (v \o t)) = Len(a) + Len(v \o t) /\ Len(a) \in Nat
    BY <2>4, <2>6
  <2> QED
    BY <2>4, <2>5, <2>6, <2>7
<1> QED
  BY <1>0, <1>4, <1>5

\* With either of them the shorter.
LEMMA FlattenTellsPieces ==
  ASSUME NEW S, NEW p \in Seq(Seq(S)), NEW q \in Seq(Seq(S)),
         Telling(Len(p), p, Len(q), q), FlattenSeq(p) = FlattenSeq(q)
  PROVE  p = q
<1>1. PICK n \in Nat, m \in Nat : n = Len(p) /\ m = Len(q)
  OBVIOUS
<1>2. PICK at : Joins(S, n, p, at) /\ FlattenSeq(p) = at[n]
  BY <1>1, FlattenJoins
<1>3. PICK bt : Joins(S, m, q, bt) /\ FlattenSeq(q) = bt[m]
  BY <1>1, FlattenJoins
<1>4. at[n] = bt[m] /\ Telling(n, p, m, q)
  BY <1>1, <1>2, <1>3
<1>5. Telling(m, q, n, p)
  BY <1>4 DEF Telling
<1>6. n = m /\ \A i \in 1 .. n : p[i] = q[i]
  <2>1. CASE n <= m
    BY <1>2, <1>3, <1>4, <2>1, PiecesAgree
  <2>2. CASE m <= n
    <3>1. m = n /\ \A i \in 1 .. m : q[i] = p[i]
      BY <1>2, <1>3, <1>4, <1>5, <2>2, PiecesAgree
    <3> QED
      BY <3>1
  <2> QED
    BY <1>1, <2>1, <2>2
<1>7. p = [i \in 1 .. n |-> p[i]] /\ q = [i \in 1 .. m |-> q[i]]
  BY <1>1, LenProperties
<1> QED
  BY <1>6, <1>7

\* The type of what FlattenSeq makes.
LEMMA FlattenType ==
  ASSUME NEW S, NEW seqs \in Seq(Seq(S))
  PROVE  FlattenSeq(seqs) \in Seq(S)
<1>1. PICK n \in Nat : n = Len(seqs)
  OBVIOUS
<1>2. PICK at : Joins(S, n, seqs, at) /\ FlattenSeq(seqs) = at[n]
  BY <1>1, FlattenJoins
<1>3. at \in [0 .. n -> Seq(S)] /\ n \in 0 .. n
  BY <1>1, <1>2 DEF Joins
<1> QED
  BY <1>2, <1>3

-----------------------------------------------------------------------------
\* A part behind its length.
Measured(part) == <<Len(part)>> \o part

\* What it tells.
LEMMA MeasuredFacts ==
  ASSUME NEW u \in Seq(Int)
  PROVE  /\ Measured(u) \in Seq(Int) /\ Len(Measured(u)) = Len(u) + 1 /\ Len(Measured(u)) > 0
         /\ Measured(u)[1] = Len(u)
         /\ \A i \in 1 .. Len(u) : Measured(u)[i + 1] = u[i]
<1>1. PICK k \in Nat : k = Len(u)
  OBVIOUS
<1>2. <<k>> \in Seq(Int) /\ Len(<<k>>) = 1 /\ <<k>>[1] = k
  OBVIOUS
<1>3. /\ <<k>> \o u \in Seq(Int) /\ Len(<<k>> \o u) = 1 + k
      /\ (<<k>> \o u)[1] = k
      /\ \A i \in 1 .. k : (<<k>> \o u)[i + 1] = u[i]
  BY <1>1, <1>2
<1> QED
  BY <1>1, <1>3 DEF Measured

\* What is hashed tells the parts (BucketKey).
LEMMA BucketKeyTellsParts ==
  ASSUME NEW p \in Seq(Seq(Int)), NEW q \in Seq(Seq(Int)), BucketKey(p) = BucketKey(q)
  PROVE  p = q
<1>1. PICK n \in Nat, m \in Nat : n = Len(p) /\ m = Len(q)
  OBVIOUS
<1>2. DOMAIN p = 1 .. n /\ DOMAIN q = 1 .. m
  BY <1>1
<1>3. \A i \in 1 .. n : p[i] \in Seq(Int)
  BY <1>1
<1>4. \A i \in 1 .. m : q[i] \in Seq(Int)
  BY <1>1
<1>5. PICK P : P = [i \in 1 .. n |-> Measured(p[i])]
  OBVIOUS
<1>6. PICK Q : Q = [i \in 1 .. m |-> Measured(q[i])]
  OBVIOUS
<1>7. FlattenSeq(P) = FlattenSeq(Q)
  BY <1>2, <1>5, <1>6 DEF BucketKey, Measured
<1>8. \A i \in 1 .. n : P[i] = Measured(p[i]) /\ P[i] \in Seq(Int)
  BY <1>3, <1>5, MeasuredFacts
<1>9. \A i \in 1 .. m : Q[i] = Measured(q[i]) /\ Q[i] \in Seq(Int)
  BY <1>4, <1>6, MeasuredFacts
<1>10. P \in Seq(Seq(Int)) /\ Len(P) = n
  BY <1>1, <1>5, <1>8
<1>11. Q \in Seq(Seq(Int)) /\ Len(Q) = m
  BY <1>1, <1>6, <1>9
<1>12. Telling(n, P, m, Q)
  <2>1. \A i \in 1 .. n : Len(P[i]) = Len(p[i]) + 1 /\ Len(P[i]) > 0 /\ P[i][1] = Len(p[i])
    BY <1>3, <1>8, MeasuredFacts
  <2>2. \A i \in 1 .. m : Len(Q[i]) = Len(q[i]) + 1 /\ Len(Q[i]) > 0 /\ Q[i][1] = Len(q[i])
    BY <1>4, <1>9, MeasuredFacts
  <2>3. ASSUME NEW i \in 1 .. n, NEW j \in 1 .. m, P[i][1] = Q[j][1]
        PROVE  Len(P[i]) = Len(Q[j])
    <3>1. Len(p[i]) = Len(q[j])
      BY <2>1, <2>2, <2>3
    <3> QED
      BY <2>1, <2>2, <3>1
  <2> QED
    BY <2>1, <2>2, <2>3 DEF Telling
<1>13. P = Q
  BY <1>7, <1>10, <1>11, <1>12, FlattenTellsPieces
<1>14. n = m
  BY <1>10, <1>11, <1>13
<1>15. ASSUME NEW i \in 1 .. n PROVE p[i] = q[i]
  <2>1. PICK u \in Seq(Int), v \in Seq(Int) : u = p[i] /\ v = q[i]
    BY <1>3, <1>4, <1>14
  <2>2. Measured(u) = Measured(v)
    BY <1>8, <1>9, <1>13, <1>14, <2>1
  <2>3. Len(u) = Len(v)
    <3>1. u \in Seq(Int) /\ v \in Seq(Int)
      BY <2>1
    <3>2. Measured(u)[1] = Len(u)
      BY <3>1, MeasuredFacts
    <3>3. Measured(v)[1] = Len(v)
      BY <3>1, MeasuredFacts
    <3> QED
      BY <2>2, <3>2, <3>3
  <2>4. \A x \in 1 .. Len(u) : Measured(u)[x + 1] = u[x]
    BY <2>1, MeasuredFacts
  <2>5. \A x \in 1 .. Len(v) : Measured(v)[x + 1] = v[x]
    BY <2>1, MeasuredFacts
  <2>6. \A x \in 1 .. Len(u) : u[x] = v[x]
    BY <2>2, <2>3, <2>4, <2>5
  <2> QED
    BY <2>1, <2>3, <2>6, SeqEqual
<1>16. p = [i \in 1 .. n |-> p[i]] /\ q = [i \in 1 .. m |-> q[i]]
  BY <1>1, LenProperties
<1> QED
  BY <1>14, <1>15, <1>16

-----------------------------------------------------------------------------
\* A setting as it enters the key.
LEMMA SettingFacts ==
  ASSUME NEW field \in Seq(WireNumber), Len(field) <= 1
  PROVE  FloatPtrString(Decoded(field)) \in Seq(Int)
<1>1. PICK x : x = Decoded(field)
  OBVIOUS
<1>2. PICK n \in Nat : n = Len(field) /\ DOMAIN field = 1 .. n /\ n <= 1
  OBVIOUS
<1>3. \A i \in 1 .. n : field[i] \in WireNumber
  BY <1>2
<1>4. CASE field = <<Malformed>>
  <2>1. x = <<Zero>>
    BY <1>1, <1>4 DEF Decoded
  <2>2. FormatFloat(Zero) \in Int
    BY DEF FormatFloat, Zero, Digits
  <2>3. FloatPtrString(<<Zero>>) \in Seq(Int)
    BY <2>2 DEF FloatPtrString
  <2> QED
    BY <1>1, <2>1, <2>3
<1>5. CASE field # <<Malformed>>
  <2>1. x = field
    BY <1>1, <1>5 DEF Decoded
  <2>2. ASSUME NEW i \in 1 .. n PROVE field[i] \in Int \X (Nat \ {0})
    <3>1. n = 1 /\ i = 1
      BY <1>2
    <3>2. field = <<field[1]>>
      BY <1>2, <3>1
    <3>3. field[1] # Malformed
      BY <1>5, <3>2
    <3> QED
      BY <1>3, <3>1, <3>3 DEF WireNumber
  <2>3. ASSUME NEW f \in Int \X (Nat \ {0}) PROVE FormatFloat(f) \in Int
    <3>1. PICK a \in Int, d \in Nat \ {0} : f = <<a, d>>
      OBVIOUS
    <3>2. PICK t \in Int : t = 2 * 10000 * a + d
      BY <3>1
    <3>3. FormatFloat(f) = t \div (2 * d) /\ 2 * d \in Nat \ {0}
      BY <3>1, <3>2 DEF FormatFloat, Digits
    <3> QED
      BY <3>2, <3>3
  <2>4. FloatPtrString(field) = [i \in 1 .. n |-> FormatFloat(field[i])]
    BY <1>2 DEF FloatPtrString
  <2>5. \A i \in 1 .. n : FormatFloat(field[i]) \in Int
    BY <2>2, <2>3
  <2>6. FloatPtrString(field) \in Seq(Int)
    BY <1>2, <2>4, <2>5
  <2> QED
    BY <1>1, <2>1, <2>6
<1> QED
  BY <1>4, <1>5

\* What is read of a message.
LEMMA MessageFacts ==
  ASSUME NEW c \in WireContent
  PROVE  MessageText(c).text \in Seq(Int)
<1>1. c.text \in Seq(Int) /\ << >> \in Seq(Int)
  BY DEF WireContent
<1> QED
  BY <1>1 DEF MessageText

Conversation == Seq([role : WireRole, content : WireContent, extra : BOOLEAN])

\* The system prompt is a text.
LEMMA PromptFacts ==
  ASSUME NEW messages \in Conversation
  PROVE  SystemPrompt(messages) \in Seq(Int)
<1>1. PICK n \in Nat : n = Len(messages) /\ DOMAIN messages = 1 .. n
  BY DEF Conversation
<1>2. \A i \in 1 .. n : messages[i].content \in WireContent
  <2>1. \A i \in 1 .. n : messages[i] \in [role : WireRole, content : WireContent, extra : BOOLEAN]
    <3>1. PICK R : R = [role : WireRole, content : WireContent, extra : BOOLEAN]
      OBVIOUS
    <3>2. messages \in Seq(R)
      BY <3>1 DEF Conversation
    <3> QED
      BY <1>1, <3>1, <3>2, ElementOfSeq
  <2> QED
    BY <2>1
<1> DEFINE piece(i) == LET content == MessageText(messages[i].content)
                       IN  IF messages[i].role = System /\ content.ok THEN content.text \o <<NewLine>> ELSE << >>
<1>3. ASSUME NEW i \in 1 .. n PROVE piece(i) \in Seq(Int)
  <2>1. PICK t \in Seq(Int) : t = MessageText(messages[i].content).text
    BY <1>2, MessageFacts
  <2>2. t \o <<NewLine>> \in Seq(Int) /\ << >> \in Seq(Int)
    <3>1. <<NewLine>> \in Seq(Int)
      BY DEF NewLine
    <3> QED
      BY <2>1, <3>1
  <2> QED
    BY <2>1, <2>2
<1>4. SystemPrompt(messages) = FlattenSeq([i \in 1 .. n |-> piece(i)])
  BY <1>1 DEF SystemPrompt
<1> HIDE DEF piece
<1>5. [i \in 1 .. n |-> piece(i)] \in Seq(Seq(Int))
  BY <1>1, <1>3
<1> QED
  BY <1>4, <1>5, FlattenType

\* Each prior turn is a pair of texts.
LEMMA TurnsFacts ==
  ASSUME NEW messages \in Conversation
  PROVE  /\ PriorTurns(messages) \in Seq(Seq(Seq(Int)))
         /\ \A i \in 1 .. Len(PriorTurns(messages)) : Len(PriorTurns(messages)[i]) = 2
<1>1. PICK n \in Nat : n = Len(messages) /\ DOMAIN messages = 1 .. n
  BY DEF Conversation
<1>2. \A i \in 1 .. n : messages[i].content \in WireContent /\ messages[i].role \in Seq(Int)
  <2>1. \A i \in 1 .. n : messages[i] \in [role : WireRole, content : WireContent, extra : BOOLEAN]
    <3>1. PICK R : R = [role : WireRole, content : WireContent, extra : BOOLEAN]
      OBVIOUS
    <3>2. messages \in Seq(R)
      BY <3>1 DEF Conversation
    <3> QED
      BY <1>1, <3>1, <3>2, ElementOfSeq
  <2> QED
    BY <2>1 DEF WireRole
<1>3. PICK k \in Nat : k = IF n = 0 THEN 0 ELSE n - 1
  BY <1>1
<1>4. DOMAIN Front(messages) = 1 .. k
  <2>1. Front(messages) = [i \in 1 .. k |-> messages[i]]
    <3>1. CASE n = 0
      BY <1>1, <1>3, <3>1 DEF Front
    <3>2. CASE n # 0
      BY <1>1, <1>3, <3>2 DEF Front
    <3> QED
      BY <3>1, <3>2
  <2> QED
    BY <2>1
<1> DEFINE turn(i) == <<messages[i].role, MessageText(messages[i].content).text>>
<1>5. ASSUME NEW i \in 1 .. k PROVE turn(i) \in Seq(Seq(Int)) /\ Len(turn(i)) = 2
  <2>1. i \in 1 .. n
    BY <1>3
  <2>2. PICK a \in Seq(Int), b \in Seq(Int) : a = messages[i].role /\ b = MessageText(messages[i].content).text
    BY <1>2, <2>1, MessageFacts
  <2>3. <<a, b>> \in Seq(Seq(Int)) /\ Len(<<a, b>>) = 2
    OBVIOUS
  <2> QED
    BY <2>2, <2>3
<1>6. PriorTurns(messages) = [i \in 1 .. k |-> turn(i)]
  BY <1>4 DEF PriorTurns
<1> HIDE DEF turn
<1>7. PICK t : t = PriorTurns(messages)
  OBVIOUS
<1>8. t \in Seq(Seq(Seq(Int))) /\ Len(t) = k
  BY <1>3, <1>5, <1>6, <1>7
<1>9. \A i \in 1 .. k : Len(t[i]) = 2
  BY <1>5, <1>6, <1>7
<1> QED
  BY <1>7, <1>8, <1>9

\* The parts of a key tell the settings and the turns.
LEMMA KeyPartsTell ==
  ASSUME NEW x, NEW y, IsBody(x), IsBody(y), BucketKeyForRequest(x) = BucketKeyForRequest(y)
  PROVE  /\ x.model = y.model
         /\ PriorTurns(x.messages) = PriorTurns(y.messages)
         /\ FloatPtrString(Decoded(x.temperature)) = FloatPtrString(Decoded(y.temperature))
         /\ FloatPtrString(Decoded(x.topP)) = FloatPtrString(Decoded(y.topP))
<1> DEFINE four(b) == << b.model, SystemPrompt(b.messages),
                         FloatPtrString(Decoded(b.temperature)), FloatPtrString(Decoded(b.topP)) >>
           turns(b) == PriorTurns(b.messages)
<1>1. ASSUME NEW b, IsBody(b)
      PROVE  /\ four(b) \in Seq(Seq(Int)) /\ Len(four(b)) = 4
             /\ turns(b) \in Seq(Seq(Seq(Int))) /\ \A i \in 1 .. Len(turns(b)) : Len(turns(b)[i]) = 2
             /\ FlattenSeq(turns(b)) \in Seq(Seq(Int))
             /\ KeyParts(b) = four(b) \o FlattenSeq(turns(b))
  <2>1. b.messages \in Conversation /\ b.model \in Seq(Int)
    BY <1>1 DEF IsBody, Conversation
  <2>2. SystemPrompt(b.messages) \in Seq(Int)
    BY <2>1, PromptFacts
  <2>3. FloatPtrString(Decoded(b.temperature)) \in Seq(Int) /\ FloatPtrString(Decoded(b.topP)) \in Seq(Int)
    BY <1>1, SettingFacts DEF IsBody
  <2>4. four(b) \in Seq(Seq(Int)) /\ Len(four(b)) = 4
    BY <2>1, <2>2, <2>3
  <2>5. turns(b) \in Seq(Seq(Seq(Int))) /\ \A i \in 1 .. Len(turns(b)) : Len(turns(b)[i]) = 2
    BY <2>1, TurnsFacts
  <2>6. FlattenSeq(turns(b)) \in Seq(Seq(Int))
    <3> HIDE DEF turns
    <3> QED
      BY <2>5, FlattenType
  <2>7. KeyParts(b) = four(b) \o FlattenSeq(turns(b))
    BY DEF KeyParts
  <2> QED
    BY <2>4, <2>5, <2>6, <2>7
<1>2. PICK fx \in Seq(Seq(Int)), fy \in Seq(Seq(Int)), rx \in Seq(Seq(Int)), ry \in Seq(Seq(Int)) :
        /\ fx = four(x) /\ fy = four(y) /\ Len(fx) = 4 /\ Len(fy) = 4
        /\ rx = FlattenSeq(turns(x)) /\ ry = FlattenSeq(turns(y))
  <2> HIDE DEF four, turns
  <2> QED
    BY <1>1
<1>3. KeyParts(x) = fx \o rx /\ KeyParts(y) = fy \o ry
  <2> HIDE DEF four, turns
  <2> QED
    BY <1>1, <1>2
<1>4. fx \o rx = fy \o ry
  <2>1. fx \o rx \in Seq(Seq(Int)) /\ fy \o ry \in Seq(Seq(Int))
    BY <1>2
  <2> QED
    BY <1>3, <2>1, BucketKeyTellsParts DEF BucketKeyForRequest
<1>5. fx = fy
  BY <1>2, <1>4, EqualBeginnings
<1>6. rx = ry
  <2>1. fx \in Seq(Seq(Int)) /\ rx \in Seq(Seq(Int)) /\ ry \in Seq(Seq(Int))
    BY <1>2
  <2>2. fx \o rx = fx \o ry
    BY <1>4, <1>5
  <2> QED
    BY <2>1, <2>2, ConcatSimplifications
<1>7. turns(x) = turns(y)
  <2> HIDE DEF four, turns
  <2>1. PICK p \in Seq(Seq(Seq(Int))), q \in Seq(Seq(Seq(Int))) : p = turns(x) /\ q = turns(y)
    BY <1>1
  <2>2. Telling(Len(p), p, Len(q), q)
    <3>1. PICK n, m : n = Len(p) /\ m = Len(q)
      OBVIOUS
    <3>2. (\A i \in 1 .. n : Len(p[i]) = 2) /\ (\A i \in 1 .. m : Len(q[i]) = 2)
      BY <1>1, <2>1, <3>1
    <3>3. /\ \A i \in 1 .. n : Len(p[i]) > 0
          /\ \A i \in 1 .. m : Len(q[i]) > 0
      <4>1. 2 > 0
        OBVIOUS
      <4> QED
        BY <3>2, <4>1, Zenon
    <3>4. \A i \in 1 .. n, j \in 1 .. m : Len(p[i]) = Len(q[j])
      BY <3>2
    <3> QED
      BY <3>1, <3>3, <3>4, Zenon DEF Telling
  <2>3. FlattenSeq(p) = FlattenSeq(q)
    BY <1>2, <1>6, <2>1
  <2>4. p = q
    BY <2>1, <2>2, <2>3, FlattenTellsPieces
  <2> QED
    BY <2>1, <2>4
<1>8. four(x) = four(y)
  BY <1>2, <1>5
<1> QED
  BY <1>7, <1>8

\* Whatever the texts are, equal keys are made of equal parts: the same model, the same
\* role and text turn by turn, and settings that are the same as decoded and to four
\* decimals (bucketKeyForRequest, BucketKey).
THEOREM KeysTellTheirParts == ExchangeSpec => []KeyTellsItsParts
<1>1. ExchangeInv => KeyTellsItsParts
  <2> SUFFICES ASSUME case \in Cases, NEW c \in Cases,
                      BucketKeyForRequest(c.body) = BucketKeyForRequest(case.body)
               PROVE  /\ c.body.model = case.body.model
                      /\ PriorTurns(c.body.messages) = PriorTurns(case.body.messages)
                      /\ FloatPtrString(Decoded(c.body.temperature)) = FloatPtrString(Decoded(case.body.temperature))
                      /\ FloatPtrString(Decoded(c.body.topP)) = FloatPtrString(Decoded(case.body.topP))
    BY DEF KeyTellsItsParts, ExchangeInv, WriterInv
  <2>1. IsBody(c.body) /\ IsBody(case.body)
    BY ExchangeAssumption
  <2> QED
    BY <2>1, KeyPartsTell
<1> QED
  BY <1>1, ExchangeInvariant, PTL
=============================================================================
