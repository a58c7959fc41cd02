------------------------------ MODULE Backends ------------------------------
(***************************************************************************)
(* generate_stream() and abort() of the five backends.  A generator is a   *)
(* coroutine: it runs from one suspension to the next, and what it does    *)
(* there is its event e: it waits, yields a text chunk, yields the final   *)
(* chunk with a finish reason, ends or raises.  The consumer of the event  *)
(* acts in the same step (module Serving), as nothing is scheduled between *)
(* a yield and its consumer.  The engine behind a backend is external: its *)
(* outputs are chosen freely.                                              *)
(***************************************************************************)
EXTENDS Naturals, Sequences, FiniteSets

CONSTANTS
  NumRequests,  \* requests are numbered in the order they reach the semaphore
  MaxTokens,    \* sampling.max_tokens of every request
  Kinds,        \* backend kinds an instance starts with
  None          \* no request owns the gRPC stream

ASSUME BackendsAssumption ==
  /\ NumRequests \in Nat /\ MaxTokens \in Nat \ {0}
  /\ Kinds \subseteq {"mock", "vllm", "trtllm", "triton", "ray"}
  /\ None \notin 1..NumRequests

Reqs == 1..NumRequests

FinishReasons == {"stop", "length", "abort"}

VARIABLES
  kind,     \* the backend that was configured
  gen,      \* the generator of a request: where it is suspended, chunks, finish
  active,   \* MockBackend._active
  aborted,  \* Backend._aborted, the flags of abort()
  stream,   \* owner of the one callback stream of Triton's gRPC client
  engine    \* external: what the engine does for a request

backendVars == <<kind, gen, active, aborted, stream, engine>>

At(r, pc) == gen[r].pc = pc

\* Suspended inside the generator, at a sleep or at the engine's next output.
Waiting(r) == gen[r].pc \in {"prefill", "await"}

\* Created and not yet returned or closed.
Live(r) == gen[r].pc \in {"prefill", "await", "yielded", "last"}

BackendInit ==
  /\ kind \in Kinds
  /\ gen = [r \in Reqs |-> [pc |-> "none", n |-> 0,
             fin |-> IF kind \in {"triton", "ray"} THEN "stop" ELSE "length"]]
  /\ active = {} /\ aborted = {} /\ stream = None
  /\ engine = [r \in Reqs |-> "idle"]

Suspend(r, pc) == gen' = [gen EXCEPT ![r].pc = pc]

YieldFinal(r, e, reason) == e = reason /\ Suspend(r, "last")

\* A text chunk when the output has new text, else on to the next output.
Deliver(r, e, new, fin) ==
  /\ e = IF new THEN "text" ELSE "wait"
  /\ gen' = [gen EXCEPT ![r] = [pc  |-> IF new THEN "yielded" ELSE "await",
                                n   |-> IF new THEN @.n + 1 ELSE @.n,
                                fin |-> fin]]

Raise(r, e) == e = "raise" /\ Suspend(r, "dead")

-----------------------------------------------------------------------------
(* External engines *)

\* The engine's next output: new text or none, a finish reason with the last.
Output(r, new, reason) ==
  /\ new => gen[r].n < MaxTokens
  /\ \/ /\ engine[r] = "running"
        /\ reason \in {"none", "stop", "length"}
        /\ new \/ reason # "none"
        /\ reason = "length" => gen[r].n + (IF new THEN 1 ELSE 0) = MaxTokens
        /\ engine' = [engine EXCEPT ![r] = IF reason = "none" THEN @ ELSE reason]
     \/ /\ engine[r] = "aborted"
        /\ ~new /\ reason = "abort"
        /\ engine' = [engine EXCEPT ![r] = "abort"]

OutputsEnd(r) == engine[r] \in FinishReasons /\ UNCHANGED engine

OutputsFail(r) ==
  /\ engine[r] = "running"
  /\ engine' = [engine EXCEPT ![r] = "failed"]

-----------------------------------------------------------------------------
(* The mock engine *)

MockToken(r, e) == Deliver(r, e, TRUE, gen[r].fin) \/ YieldFinal(r, e, "stop")

MockFinally(r) == active' = active \ {r} /\ aborted' = aborted \ {r}

MockRun(r, e) ==
  \/ /\ At(r, "none") /\ e = "wait" /\ Suspend(r, "prefill")
     /\ active' = active \cup {r} /\ UNCHANGED aborted
  \/ /\ \/ At(r, "prefill") /\ r \in aborted /\ YieldFinal(r, e, "abort")
        \/ At(r, "prefill") /\ r \notin aborted /\ MockToken(r, e)
        \/ At(r, "await") /\ MockToken(r, e)
        \/ At(r, "yielded") /\ gen[r].n = MaxTokens /\ YieldFinal(r, e, "length")
        \/ /\ At(r, "yielded") /\ gen[r].n < MaxTokens
           /\ IF r \in aborted THEN YieldFinal(r, e, "abort")
                               ELSE e = "wait" /\ Suspend(r, "await")
     /\ UNCHANGED <<active, aborted>>
  \/ At(r, "last") /\ e = "end" /\ Suspend(r, "dead") /\ MockFinally(r)

-----------------------------------------------------------------------------
(* Backends that iterate over an engine's outputs *)

Begin(r, e) ==
  /\ At(r, "none") /\ e = "wait" /\ Suspend(r, "await")
  /\ engine' = [engine EXCEPT ![r] = "running"]

\* Resumed after a chunk: on to the next output, or past the end.
Resume(r, e) ==
  \/ At(r, "yielded") /\ e = "wait" /\ Suspend(r, "await") /\ UNCHANGED engine
  \/ At(r, "last") /\ e = "end" /\ Suspend(r, "dead") /\ UNCHANGED engine

VLLMRun(r, e) ==
  \/ Begin(r, e) \/ Resume(r, e)
  \/ /\ At(r, "await")
     /\ \/ \E new \in BOOLEAN, reason \in FinishReasons \cup {"none"} :
             /\ Output(r, new, reason)
             /\ Deliver(r, e, new, IF reason = "none" THEN gen[r].fin ELSE reason)
        \/ OutputsEnd(r) /\ YieldFinal(r, e, gen[r].fin)
        \/ OutputsFail(r) /\ Raise(r, e)

TRTLLMRun(r, e) ==
  \/ (Begin(r, e) \/ Resume(r, e)) /\ UNCHANGED aborted
  \/ /\ At(r, "await")
     /\ \/ \E new \in BOOLEAN, reason \in FinishReasons \cup {"none"} :
             /\ Output(r, new, reason)
             /\ IF r \in aborted
                THEN YieldFinal(r, e, "abort") /\ aborted' = aborted \ {r}
                ELSE /\ Deliver(r, e, new, IF reason = "stop" THEN "stop" ELSE gen[r].fin)
                     /\ UNCHANGED aborted
        \/ OutputsEnd(r) /\ YieldFinal(r, e, gen[r].fin) /\ aborted' = aborted \ {r}
        \/ OutputsFail(r) /\ Raise(r, e) /\ UNCHANGED aborted

\* Lines of the deployment's event stream; the abort flag is read at each but [DONE].
RayRun(r, e) ==
  \/ (Begin(r, e) \/ Resume(r, e)) /\ UNCHANGED aborted
  \/ /\ At(r, "await")
     /\ \/ \E new \in BOOLEAN, reason \in FinishReasons \cup {"none"} :
             /\ Output(r, new, reason)
             /\ IF r \in aborted
                THEN YieldFinal(r, e, "abort") /\ aborted' = aborted \ {r}
                ELSE /\ Deliver(r, e, new, IF reason = "none" THEN gen[r].fin ELSE reason)
                     /\ UNCHANGED aborted
        \/ OutputsEnd(r) /\ YieldFinal(r, e, gen[r].fin) /\ aborted' = aborted \ {r}
        \/ OutputsFail(r) /\ Raise(r, e) /\ UNCHANGED aborted

-----------------------------------------------------------------------------
(* Triton: one callback stream per client, a queue per call *)

TritonFinally(r) == stream' = None /\ aborted' = aborted \ {r}

\* What the callback queued: the server sends new text only, then the final
\* flag, whose item also meets the abort flag; an error is raised before that.
TritonItem(r, e) ==
  \/ /\ \/ \E new \in BOOLEAN, reason \in FinishReasons \cup {"none"} :
             /\ Output(r, new, reason)
             /\ IF new /\ r \in aborted THEN YieldFinal(r, e, "abort")
                                        ELSE Deliver(r, e, new, "stop")
        \/ /\ OutputsEnd(r)
           /\ YieldFinal(r, e, IF r \in aborted THEN "abort" ELSE gen[r].fin)
     /\ UNCHANGED <<stream, aborted>>
  \/ OutputsFail(r) /\ Raise(r, e) /\ TritonFinally(r)

\* start_stream() is outside the try, and raises while a stream is open.
TritonRun(r, e) ==
  \/ stream = None /\ Begin(r, e) /\ stream' = r /\ UNCHANGED aborted
  \/ /\ stream # None /\ At(r, "none") /\ Raise(r, e)
     /\ UNCHANGED <<engine, stream, aborted>>
  \/ At(r, "yielded") /\ Resume(r, e) /\ UNCHANGED <<stream, aborted>>
  \/ At(r, "await") /\ TritonItem(r, e)
  \/ At(r, "last") /\ Resume(r, e) /\ TritonFinally(r)

-----------------------------------------------------------------------------
(* The interface *)

Generate(r, e) ==
  /\ \/ kind = "mock" /\ MockRun(r, e) /\ UNCHANGED <<stream, engine>>
     \/ kind = "vllm" /\ VLLMRun(r, e) /\ UNCHANGED <<active, aborted, stream>>
     \/ kind = "trtllm" /\ TRTLLMRun(r, e) /\ UNCHANGED <<active, stream>>
     \/ kind = "ray" /\ RayRun(r, e) /\ UNCHANGED <<active, stream>>
     \/ kind = "triton" /\ TritonRun(r, e) /\ UNCHANGED active
  /\ UNCHANGED kind

\* CancelledError or GeneratorExit where the generator is suspended: only its
\* finally runs, and only mock and Triton have one.
FlagsClosed(r) == IF kind \in {"mock", "triton"} /\ Live(r) THEN aborted \ {r} ELSE aborted

\* Mutant: start_stream() and stop_stream() without a finally.
CloseGeneratorOpen(r) ==
  /\ gen' = [gen EXCEPT ![r].pc = IF Live(r) THEN "dead" ELSE @]
  /\ active' = active \ {r}
  /\ UNCHANGED stream

CloseGenerator(r) ==
  /\ gen' = [gen EXCEPT ![r].pc = IF Live(r) THEN "dead" ELSE @]
  /\ active' = active \ {r}
  /\ stream' = IF stream = r /\ Live(r) THEN None ELSE stream

\* abort(): vLLM tells its engine, the others set a flag for the generator.
FlagsAborted(flags, r) == IF kind = "vllm" THEN flags ELSE flags \cup {r}

AbortEngine(r) ==
  engine' = [engine EXCEPT ![r] = IF kind = "vllm" /\ @ = "running" THEN "aborted" ELSE @]
=============================================================================
