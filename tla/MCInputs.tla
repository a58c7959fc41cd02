------------------------------ MODULE MCInputs ------------------------------
(* TLC instances of Inputs. *)
EXTENDS Inputs

Raws ==
  [max_num_seqs   |-> {<<"int", "0">>, <<"int", "1">>, <<"bool", "true">>, Null,
                       <<"str", "20">>, <<"str", "many">>},
   watermark      |-> {<<"int", "1">>, <<"float", "0">>, Null, <<"str", "1">>},
   enable_prefix_caching |-> {<<"bool", "false">>, <<"str", "on">>, <<"str", "false">>},
   kind           |-> {<<"str", "triton">>, <<"str", "vllm">>, <<"str", "other">>},
   endpoint       |-> {<<"str", "host">>, Null},
   ttft_buckets_s |-> {<<"list", "1,2">>, <<"list", "2,1">>, Null, <<"str", "1,2">>, <<"str", "1">>},
   request_rate   |-> {<<"float", "20">>, <<"int", "0">>, Null, <<"str", "20">>},
   typo           |-> {<<"str", "1">>}]

MCGiven == {<<>>} \cup UNION {{o :> raw : raw \in Raws[o]} : o \in DOMAIN Raws}

Only == [endpoint |-> "completions", prompt |-> "text", max_tokens |-> "absent",
         top_p |-> "absent", n |-> "absent", stop |-> "absent"]

MCFields ==
  {[Only EXCEPT !.endpoint = "chat", !.stop = s] : s \in {"absent", "number"}}
  \cup [endpoint : {"completions"}, prompt : {"absent", "text", "[text]", "[]", "[text, text]", "empty"},
        max_tokens : {"null", "1", "0", "32769", "text"}, top_p : {"0.5", "0"}, n : {"1", "2"},
        stop : {"null", "text", "9 texts", "number"}]

MCRecords ==
  {[failed |-> FALSE, tokens |-> 1, ttft |-> 1, itls |-> <<>>, latency |-> 1],
   [failed |-> FALSE, tokens |-> 3, ttft |-> 2, itls |-> <<1, 4>>, latency |-> 7],
   [failed |-> FALSE, tokens |-> 2, ttft |-> 6, itls |-> <<1>>, latency |-> 7],
   [failed |-> FALSE, tokens |-> 0, ttft |-> 0, itls |-> <<>>, latency |-> 0],
   [failed |-> TRUE, tokens |-> 1, ttft |-> 0, itls |-> <<>>, latency |-> 0]}

MCBounds == <<1, 2, 5>>

RateGiven == {<<>>, "request_rate" :> <<"str", "20">>}
=============================================================================
