----------------------------- MODULE MCServing -----------------------------
(* TLC instance of Serving: one slot, where requests queue, or two, where their *)
(* generators overlap; the mock backend with both.                              *)
EXTENDS Serving

OneOrTwo == [k \in Kinds |-> CASE k = "mock" -> {1, 2}
                               [] k \in {"vllm", "triton"} -> {2}
                               [] OTHER -> {1}]
=============================================================================
