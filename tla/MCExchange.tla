------------------------------ MODULE MCExchange ------------------------------
(***************************************************************************)
(* Exchanges with every setting at and around its limits, with every kind  *)
(* of request and body, but not with all of them at once.                  *)
(***************************************************************************)
EXTENDS Exchange

Text(t) == [kind |-> "text", text |-> t]
Turn(role, content) == [role |-> role, content |-> content, extra |-> FALSE]
Null   == [kind |-> "null", text |-> << >>]
Absent == [kind |-> "absent", text |-> << >>]
Parts(t) == [kind |-> "parts", text |-> t]

\* A cacheable body, and what is changed in it.
Plain == [model |-> <<7>>, messages |-> <<Turn(User, Text(<<7>>))>>, stream |-> "false", tools |-> FALSE,
          n |-> << >>, temperature |-> << >>, topP |-> << >>]

Contents == {Text(<<7>>), Text(<<7, 8>>), Null, Absent, Parts(<<7>>)}
Turns    == {Turn(role, content) : role \in {User, System}, content \in Contents}
Calls    == Turn(<<9>>, Null)
Histories ==
  {<<turn>> : turn \in Turns}
  \cup {<<turn, Turn(User, Text(<<7>>))>> : turn \in Turns \cup {Calls, [Calls EXCEPT !.extra = TRUE]}}
  \cup {<< >>, <<Turn(System, Text(<<7, NewLine, 7>>)), Turn(User, Text(<<7>>))>>,
        <<Turn(System, Text(<<7>>)), Turn(System, Text(<<7>>)), Turn(User, Text(<<7>>))>>}

Fields == {<< >>, <<Zero>>, <<One>>, <<Malformed>>}
Temperatures == Fields \cup {<<<<3, 10>>>>, <<<<30001, 100000>>>>, <<<<29999, 100000>>>>}

Bodies ==
  {[Plain EXCEPT !.messages = m] : m \in Histories}
  \cup {[Plain EXCEPT !.model = m] : m \in {<< >>, <<7, 7>>}}
  \cup {[Plain EXCEPT !.stream = s] : s \in {"true", "mistyped"}}
  \cup {[Plain EXCEPT !.tools = TRUE]}
  \cup {[Plain EXCEPT !.n = n] : n \in {<<One>>, <<<<2, 1>>>>, <<Malformed>>}}
  \cup {[Plain EXCEPT !.temperature = t, !.topP = p] : t \in Temperatures, p \in Fields}

Env(vars) == [vars |-> vars, keys |-> << >>, embedder |-> TRUE]
NoVars    == [s \in {} |-> One]

Values(s) ==
  CASE s \in Counts -> {Malformed, Zero, One, <<2, 1>>}
    [] s \in Durations -> {Malformed, Zero, One}
    [] s \in Levels \cup URLs -> {Malformed, One}
    [] s = "DELTA" -> {Malformed, NaN, Zero, <<1, 1000>>, <<1, 50>>, <<1, 2>>, One, Inf}
    [] OTHER -> {Malformed, NaN, <<-1, 10>>, Zero, One}

Envs ==
  {Env([s \in {pair[1]} |-> pair[2]]) :
     pair \in UNION {{s} \X Values(s) : s \in Settings}}
  \cup {Env([NMIN |-> n, MAX_OBSERVATIONS |-> m, DELTA |-> d]) :
          n \in {One, <<2, 1>>, <<3, 1>>}, m \in {One, <<2, 1>>}, d \in {NaN, <<1, 50>>, <<1, 2>>}}

Ask == [env |-> Env(NoVars), route |-> "chat", method |-> "right", token |-> Blank, overspent |-> FALSE,
        arrives |-> "valid", body |-> Plain]

Keyed == [Env([s \in {"BUDGET_CENTS"} |-> One]) EXCEPT !.keys = <<Blank, "key">>]

MCCases ==
  {[Ask EXCEPT !.env = e] : e \in Envs}
  \cup {[Ask EXCEPT !.body = b] : b \in Bodies}
  \cup {[Ask EXCEPT !.env = [Env(NoVars) EXCEPT !.embedder = FALSE]]}
  \cup {[Ask EXCEPT !.arrives = a] : a \in {"unreadable", "invalid"}}
  \cup {[Ask EXCEPT !.env = Keyed, !.route = route, !.token = token, !.overspent = over] :
          route \in {"chat", "other v1", "healthz", "metrics", "other"}, token \in {Blank, "key"}, over \in BOOLEAN}
  \cup {[Ask EXCEPT !.env = Keyed, !.route = route, !.method = "wrong", !.token = token] :
          route \in {"chat", "healthz", "metrics"}, token \in {Blank, "key"}}
=============================================================================
