------------------------------- MODULE Inputs -------------------------------
(* What is computed from inputs rather than scheduled: a configuration, a      *)
(* request body, the metrics; one of them in each behaviour.                   *)
EXTENDS Config, Metrics, Requests

CONSTANTS Parts, Fields

ASSUME InputsAssumption ==
  Parts \subseteq {"config", "request", "series", "tracker", "records"}

VARIABLE part

vars == <<part, configVars, metricsVars, requestVars>>

Init ==
  /\ part \in Parts
  /\ MetricsInit /\ RequestInit
  /\ IF part = "config" THEN ConfigInit
     ELSE given = <<>> /\ applied = 0 /\ cfg = Defaults /\ outcome = "building"
  /\ field \in IF part = "request" THEN Fields ELSE {[endpoint |-> "none"]}

Done == \/ outcome # "building" \/ answer # 0
        \/ MaxObserved \in {Len(seen), Len(past), Len(records)}

Next ==
  \/ part = "config" /\ (ApplyLayer \/ Validate) /\ UNCHANGED <<part, metricsVars, requestVars>>
  \/ part = "request" /\ RequestNext /\ UNCHANGED <<part, configVars, metricsVars>>
  \/ /\ \/ part = "series" /\ ObserveAny
        \/ part = "tracker" /\ RecordAny
        \/ part = "records" /\ AppendAny
     /\ UNCHANGED <<part, configVars, requestVars>>
  \/ Done /\ UNCHANGED vars

Spec == Init /\ [][Next]_vars
=============================================================================
