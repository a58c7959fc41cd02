------------------------------- MODULE Config -------------------------------
(***************************************************************************)
(* build_config(): defaults, then the YAML file, the environment and the   *)
(* command line, each value coerced to the type of the value it replaces,  *)
(* then validate().  A value is a type and a text; one option stands for   *)
(* each type of default and each kind of check.                            *)
(***************************************************************************)
EXTENDS Integers, Sequences, FiniteSetsExt, TLC

CONSTANT Given  \* what the layers may set: functions from options to raw values, by layer

VARIABLES
  given,    \* the three layers of this build
  applied,  \* how many of them are in
  cfg,      \* option -> value
  outcome   \* "building", "ready", "ConfigError", or "crash"

configVars == <<given, applied, cfg, outcome>>

Layers == <<"yaml", "env", "cli">>

Null == <<"none", "">>

Defaults ==
  [max_num_seqs |-> <<"int", "256">>, watermark |-> <<"float", "0">>,
   enable_prefix_caching |-> <<"bool", "true">>, kind |-> <<"str", "mock">>,
   endpoint |-> Null, ttft_buckets_s |-> <<"list", "1,2">>, request_rate |-> Null]

Number == "0" :> 0 @@ "1" :> 1 @@ "20" :> 20 @@ "256" :> 256

\* Texts with numbers between commas, and whether these ascend.
Ascending == "1,2" :> TRUE @@ "2,1" :> FALSE @@ "0" :> TRUE @@ "1" :> TRUE @@ "20" :> TRUE

Crash == <<"crash", "">>

\* _coerce(): int() and float() raise ValueError, list() of a number TypeError.
Coerce(value, target) ==
  IF "none" \in {value[1], target[1]} THEN value ELSE
  CASE target[1] = "bool" /\ value[1] # "bool" ->
         <<"bool", IF value[2] \in {"1", "true", "yes", "on"} THEN "true" ELSE "false">>
    [] target[1] = "int" /\ value[1] # "bool" ->
         IF value[2] \in DOMAIN Number THEN <<"int", value[2]>> ELSE Crash
    [] target[1] = "float" ->
         IF value[1] = "bool" THEN <<"float", IF value[2] = "true" THEN "1" ELSE "0">>
         ELSE IF value[2] \in DOMAIN Number THEN <<"float", value[2]>> ELSE Crash
    [] target[1] = "list" /\ value[1] # "list" ->
         IF value[1] = "str" /\ value[2] \in DOMAIN Ascending THEN <<"list", value[2]>> ELSE Crash
    [] target[1] = "str" -> <<"str", value[2]>>
    [] OTHER -> value

\* A comparison that the numbers in `allowed` pass; None and a string cannot be compared.
Compared(value, allowed) ==
  CASE value[1] \in {"none", "str", "list"} -> "crash"
    [] value[1] = "bool" ->
         IF (IF value[2] = "true" THEN 1 ELSE 0) \in allowed THEN "ok" ELSE "ConfigError"
    [] OTHER -> IF Number[value[2]] \in allowed THEN "ok" ELSE "ConfigError"

\* A string that was not coerced, as the option was None, is a list of characters.
BucketsAscend(value) == Ascending[value[2]] /\ (value[1] = "str" => value[2] \in {"0", "1"})

BackendCheck(c) ==
  IF c["kind"] \notin {<<"str", k>> : k \in {"mock", "vllm", "triton"}} THEN "ConfigError"
  ELSE IF c["kind"][2] = "triton" /\ c["endpoint"][2] = "" THEN "ConfigError" ELSE "ok"

SchedulerChecks(c) ==
  << Compared(c["max_num_seqs"], Nat \ {0}),
     Compared(c["watermark"], {0}) >>

MetricsCheck(c) ==
  IF c["ttft_buckets_s"] # Null /\ BucketsAscend(c["ttft_buckets_s"]) THEN "ok" ELSE "ConfigError"

BenchCheck(c) ==
  IF c["request_rate"] = Null THEN "ok" ELSE Compared(c["request_rate"], Nat \ {0})

\* The checks of validate() in the order of the sections.
Checks(c) ==
  <<BackendCheck(c)>> \o SchedulerChecks(c) \o <<MetricsCheck(c), BenchCheck(c)>>

FirstOr(results, default) ==
  LET bad == {i \in DOMAIN results : results[i] # "ok"}
  IN IF bad = {} THEN default ELSE results[CHOOSE i \in bad : \A j \in bad : i <= j]

ConfigInit ==
  /\ given \in [1..3 -> Given]
  /\ \A l \in 1..3 : \A o \in DOMAIN given[l] : l = 1 \/ given[l][o][1] = "str"
  /\ applied = 0 /\ cfg = Defaults /\ outcome = "building"

\* Mutant: what a layer has set stays.
MergeKeeps(values, c) ==
  [o \in DOMAIN c |-> IF o \in DOMAIN values /\ c[o] = Defaults[o] THEN values[o] ELSE c[o]]

Merge(values, c) == [o \in DOMAIN c |-> IF o \in DOMAIN values THEN values[o] ELSE c[o]]

\* One layer: an unknown option is refused, the others are coerced and set.
ApplyLayer ==
  /\ outcome = "building" /\ applied < 3
  /\ LET layer  == given[applied + 1]
         values == [o \in DOMAIN layer \cap DOMAIN cfg |-> Coerce(layer[o], cfg[o])]
     IN /\ applied' = applied + 1
        /\ IF DOMAIN layer \ DOMAIN cfg # {} THEN outcome' = "ConfigError" /\ UNCHANGED cfg
           ELSE IF \E o \in DOMAIN values : values[o] = Crash
           THEN outcome' = "crash" /\ UNCHANGED cfg
           ELSE cfg' = Merge(values, cfg) /\ UNCHANGED outcome
  /\ UNCHANGED given

Validate ==
  /\ outcome = "building" /\ applied = 3
  /\ outcome' = FirstOr(Checks(cfg), "ready")
  /\ UNCHANGED <<given, applied, cfg>>

-----------------------------------------------------------------------------
(* Properties *)

\* What an option ends up with is the text of the last layer that names it, in the
\* order file, environment, command line, whatever the others said, unless a
\* boolean is involved; with the type of the default unless that, or a layer below,
\* was null or a boolean.  What no layer names keeps its default.
LastLayerWins ==
  outcome \in {"building", "ready"} =>
    \A o \in DOMAIN cfg :
      LET setters == {l \in 1..applied : o \in DOMAIN given[l]}
          raw     == given[Max(setters)][o]
          below   == {Defaults[o]} \cup {given[l][o] : l \in setters \ {Max(setters)}}
          types   == {v[1] : v \in below \cup {raw}}
      IN IF setters = {} THEN cfg[o] = Defaults[o]
         ELSE /\ "bool" \notin types => cfg[o][2] = raw[2]
              /\ types \cap {"bool", "none"} = {} => cfg[o][1] = Defaults[o][1]
              /\ below = {Null} \/ raw = Null => cfg[o] = raw
              /\ cfg[o][1] \in types

\* A rate given on the command line, as run_benchmark.py does for --request-rate,
\* is a rate: the build does not raise anything but a ConfigError over it.
RateIsUsable ==
  "request_rate" \in DOMAIN given[3] /\ given[3]["request_rate"][2] \in DOMAIN Number =>
    outcome # "crash"
=============================================================================
