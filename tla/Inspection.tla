------------------------------ MODULE Inspection ------------------------------
(***************************************************************************)
(* What the gateway reads of a request body: whether the request can be    *)
(* cached, and the exact-match bucket it belongs to (chat.go, cache.go).   *)
(*                                                                         *)
(* A text is a sequence of numbers, its characters.  A body's optional     *)
(* fields are sequences of at most one value, as on the wire; a content is *)
(* "text", "null", "parts" (text is then the raw JSON) or "absent".  What  *)
(* a turn carries beside its role and content, as tool calls, is in extra. *)
(***************************************************************************)
EXTENDS Floats, SequencesExt

User    == <<1>>
System  == <<2>>
NewLine == 3

\* json.Unmarshal goes on after a value of the wrong type: a pointer it has already
\* made stays, to a zero, and a plain field keeps its zero.
Decoded(field) == IF field = <<Malformed>> THEN <<Zero>> ELSE field
Streams(body)  == body.stream = "true"

MessageText(content) ==
  [text |-> IF content.kind \in {"text", "parts"} THEN content.text ELSE << >>,
   ok   |-> content.kind \in {"text", "null"}]

HasUserTurn(messages) ==
  messages # << >> /\ Last(messages).role = User /\ MessageText(Last(messages).content).ok

\* bypassReason # ""
Bypassed(body, ceiling) ==
  \/ Streams(body) \/ body.tools
  \/ \E n \in Range(Decoded(body.n)) : Less(One, n)
  \/ \E t \in Range(Decoded(body.temperature)) : Less(ceiling, t)
  \/ ~HasUserTurn(body.messages)

SystemPrompt(messages) ==
  FlattenSeq([i \in DOMAIN messages |->
                LET content == MessageText(messages[i].content)
                IN  IF messages[i].role = System /\ content.ok THEN content.text \o <<NewLine>> ELSE << >>])

FloatPtrString(field) == [i \in DOMAIN field |-> FormatFloat(field[i])]

\* Mutant: the parts are hashed without their lengths.
BugBucketKey(parts) == FlattenSeq(parts)

\* The hash is taken to be injective, so a key is the text that is hashed.
BucketKey(parts) == FlattenSeq([i \in DOMAIN parts |-> <<Len(parts[i])>> \o parts[i]])

PriorTurns(messages) ==
  [i \in DOMAIN Front(messages) |-> <<messages[i].role, MessageText(messages[i].content).text>>]

KeyParts(body) ==
  << body.model, SystemPrompt(body.messages),
     FloatPtrString(Decoded(body.temperature)), FloatPtrString(Decoded(body.topP)) >>
  \o FlattenSeq(PriorTurns(body.messages))

BucketKeyForRequest(body) == BucketKey(KeyParts(body))

\* What the parts of a body that its key is made of can be.
WireRole    == Seq(Int)
WireContent == [kind : {"text", "null", "parts", "absent"}, text : Seq(Int)]
WireNumber  == (Int \X (Nat \ {0})) \cup {Malformed}

IsBody(body) ==
  /\ body.model \in Seq(Int)
  /\ body.messages \in Seq([role : WireRole, content : WireContent, extra : BOOLEAN])
  /\ body.temperature \in Seq(WireNumber) /\ Len(body.temperature) <= 1
  /\ body.topP \in Seq(WireNumber) /\ Len(body.topP) <= 1
=============================================================================
