-------------------------------- MODULE Config --------------------------------
(***************************************************************************)
(* Which settings the gateway starts with (internal/config/config.go).     *)
(*                                                                         *)
(* env.vars maps the environment variables that are set, and not empty, to *)
(* what their texts parse to: a fraction (integers n as <<n, 1>>,          *)
(* durations in seconds) or Malformed; a log level or URL is <<1, 1>> if   *)
(* it passes its check.  env.keys is the comma-separated key list, with    *)
(* Blank for an element that is empty when trimmed.  The settings that are *)
(* texts taken as they are are left out.                                   *)
(***************************************************************************)
EXTENDS Floats, SequencesExt

CONSTANT Blank

Counts    == {"NMIN", "CACHE_CAPACITY", "MAX_OBSERVATIONS", "CACHE_SHARDS", "JUDGE_QUEUE",
              "JUDGE_WORKERS", "EMBED_DIMENSIONS"}
Durations == {"SHUTDOWN_TIMEOUT", "BACKEND_TIMEOUT"}
Levels    == {"LOG_LEVEL"}
URLs      == {"BACKEND_URL"}
Settings  == Counts \cup Durations \cup Levels \cup URLs \cup {"DELTA", "TEMPERATURE_CEILING", "BUDGET_CENTS"}

Default ==
  [LOG_LEVEL |-> One, BACKEND_URL |-> One, SHUTDOWN_TIMEOUT |-> <<15, 1>>, BACKEND_TIMEOUT |-> <<120, 1>>,
   DELTA |-> <<2, 100>>, NMIN |-> <<5, 1>>, TEMPERATURE_CEILING |-> <<3, 10>>, CACHE_CAPACITY |-> <<10000, 1>>,
   MAX_OBSERVATIONS |-> <<200, 1>>, CACHE_SHARDS |-> <<16, 1>>, JUDGE_QUEUE |-> <<1000, 1>>,
   JUDGE_WORKERS |-> <<4, 1>>, EMBED_DIMENSIONS |-> <<1536, 1>>, BUDGET_CENTS |-> Zero]

Getenv(env, s) == IF s \in DOMAIN env.vars THEN env.vars[s] ELSE Default[s]

\* What a setting's text can parse to.
IsSetting(s, x) == x = Malformed \/ (IsFloat(x) /\ (s \in Counts => x[2] = 1))

\* Load's checks reject what compares as out of range: no comparison rejects NaN.
Accepts(s, x) ==
  /\ x # Malformed
  /\ s \in Counts => ~AtMost(x, Zero)
  /\ s = "DELTA" => ~AtMost(x, Zero) /\ ~AtMost(One, x)
  /\ s \in {"TEMPERATURE_CEILING", "BUDGET_CENTS"} => ~Less(x, Zero)

Loads(env) == \A s \in Settings : Accepts(s, Getenv(env, s))

ParseKeys(raw) == SelectSeq(raw, LAMBDA k : k # Blank)

\* The loaded configuration: cfg.DELTA, cfg.NMIN, ...
Load(env) == [s \in Settings |-> Getenv(env, s)]
=============================================================================
