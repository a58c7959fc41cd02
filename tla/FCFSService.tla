----------------------------- MODULE FCFSService -----------------------------
(***************************************************************************)
(* What the scheduler promises its callers, without batches, tokens or     *)
(* memory: requests are numbered as they arrive, a free slot goes to the   *)
(* oldest queued request, only the newest running request can lose its     *)
(* slot, only a running request can finish, and an end is final.           *)
(* llm_serve/engine/scheduler.py states it in its module docstring and in  *)
(* _pick_preemption_victim; Scheduler is checked to implement it, and so   *)
(* is Serving, whose semaphore lets requests into the application.         *)
(***************************************************************************)
EXTENDS Naturals, FiniteSets

CONSTANTS Numbers, Slots

VARIABLE status   \* request -> "queued", "running", "finished" or "aborted"

Init == status = [s \in {} |-> "queued"]

In(st) == {s \in DOMAIN status : status[s] = st}

Arrive(s) ==
  /\ \A t \in DOMAIN status : t < s
  /\ status' = [t \in DOMAIN status \cup {s} |-> IF t = s THEN "queued" ELSE status[t]]

Start(s) ==
  /\ s \in In("queued") /\ \A t \in In("queued") : s <= t
  /\ Cardinality(In("running")) < Slots
  /\ status' = [status EXCEPT ![s] = "running"]

Yield(s) ==
  /\ s \in In("running") /\ \A t \in In("running") : t <= s
  /\ status' = [status EXCEPT ![s] = "queued"]

Finish(s) ==
  /\ s \in In("running")
  /\ status' = [status EXCEPT ![s] = "finished"]

Cancel(s) ==
  /\ s \in In("queued") \cup In("running")
  /\ status' = [status EXCEPT ![s] = "aborted"]

Next ==
  \/ \E s \in Numbers : Arrive(s)
  \/ \E s \in DOMAIN status : Start(s) \/ Yield(s) \/ Finish(s) \/ Cancel(s)

Spec == Init /\ [][Next]_status
=============================================================================
