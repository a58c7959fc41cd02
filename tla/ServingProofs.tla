--------------------------- MODULE ServingProofs ---------------------------
(***************************************************************************)
(* Invariants of Serving for every number of requests and tokens, every    *)
(* limit and every set of backends: the types, the permits of the          *)
(* semaphore, and what a backend keeps for a request.                      *)
(***************************************************************************)
EXTENDS Serving, FoldProofs

Generators == [pc  : {"none", "prefill", "await", "yielded", "last", "dead"},
               n   : 0..MaxTokens,
               fin : FinishReasons]

LivePcs == {"prefill", "await", "yielded", "last"}

BackendType ==
  /\ kind \in Kinds
  /\ gen \in [Reqs -> Generators]
  /\ active \subseteq Reqs /\ aborted \subseteq Reqs /\ stream \in Reqs \cup {None}
  /\ engine \in [Reqs -> FinishReasons \cup {"idle", "running", "aborted", "failed"}]

\* The mock engine looks at max_tokens after a chunk, and not before the next one.
TokensLeft ==
  kind = "mock" =>
    \A r \in Reqs : gen[r].pc \in {"none", "prefill", "await"} => gen[r].n < MaxTokens

Owned ==
  /\ kind = "mock" => active = {r \in Reqs : Live(r)}
  /\ kind = "triton" => \A r \in Reqs : Live(r) <=> stream = r

BackendInv == BackendType /\ TokensLeft /\ Owned

-----------------------------------------------------------------------------
(* The backends *)

\* A step of one generator leaves the others where they are.
LEMMA GeneratorStep ==
  ASSUME NEW r \in Reqs, NEW g \in Generators, gen \in [Reqs -> Generators],
         gen' = [gen EXCEPT ![r] = g]
  PROVE  /\ gen' \in [Reqs -> Generators]
         /\ gen'[r] = g /\ (Live(r)' <=> g.pc \in LivePcs)
         /\ \A q \in Reqs \ {r} : gen'[q] = gen[q] /\ (Live(q)' <=> Live(q))
BY DEF Live, LivePcs

\* A generator is suspended.
LEMMA SuspendStep ==
  ASSUME NEW r \in Reqs, NEW pc \in {"prefill", "await", "last", "dead"},
         gen \in [Reqs -> Generators], Suspend(r, pc)
  PROVE  /\ [gen[r] EXCEPT !.pc = pc] \in Generators
         /\ gen' = [gen EXCEPT ![r] = [gen[r] EXCEPT !.pc = pc]]
BY DEF Suspend, Generators

\* A generator delivers an output of its engine.
LEMMA DeliverStep ==
  ASSUME NEW r \in Reqs, NEW e, NEW new \in BOOLEAN, NEW fin \in FinishReasons,
         gen \in [Reqs -> Generators], new => gen[r].n < MaxTokens,
         Deliver(r, e, new, fin)
  PROVE  \E g \in Generators : /\ gen' = [gen EXCEPT ![r] = g]
                               /\ g.pc \in {"yielded", "await"}
                               /\ e \in {"text", "wait"}
<1> DEFINE g == [pc  |-> IF new THEN "yielded" ELSE "await",
                 n   |-> IF new THEN gen[r].n + 1 ELSE gen[r].n,
                 fin |-> fin]
<1>1. gen[r].n \in 0..MaxTokens
  BY DEF Generators
<1>2. g \in Generators
  BY <1>1, BackendsAssumption DEF Generators
<1>3. gen' = [gen EXCEPT ![r] = g]
  BY DEF Deliver
<1> QED
  BY <1>2, <1>3 DEF Deliver

EngineType ==
  engine \in [Reqs -> FinishReasons \cup {"idle", "running", "aborted", "failed"}]

\* An engine's output keeps its type.
LEMMA OutputType ==
  ASSUME NEW r \in Reqs, BackendType, NEW new \in BOOLEAN,
         NEW reason \in FinishReasons \cup {"none"},
         Output(r, new, reason) \/ OutputsEnd(r) \/ OutputsFail(r)
  PROVE  EngineType'
BY DEF Output, OutputsEnd, OutputsFail, BackendType, EngineType, FinishReasons

\* What every step of a generator does to it, and its consequences for the
\* backends that keep nothing for it.
GeneratorMoves(r, e) ==
  \E g \in Generators : /\ gen' = [gen EXCEPT ![r] = g]
                        /\ e \in {"raise", "end"} <=> g.pc = "dead"
                        /\ g.pc # "none"

\* A suspension is a move.
LEMMA SuspendMoves ==
  ASSUME NEW r \in Reqs, NEW e, NEW pc \in {"prefill", "await", "last", "dead"},
         gen \in [Reqs -> Generators], Suspend(r, pc),
         e \in {"raise", "end"} <=> pc = "dead"
  PROVE  GeneratorMoves(r, e)
<1> DEFINE g == [gen[r] EXCEPT !.pc = pc]
<1>1. g \in Generators /\ gen' = [gen EXCEPT ![r] = g]
  BY SuspendStep
<1>2. g.pc = pc
  BY DEF Generators
<1> QED
  BY <1>1, <1>2 DEF GeneratorMoves

\* A delivery is a move.
LEMMA DeliverMoves ==
  ASSUME NEW r \in Reqs, NEW e, NEW new \in BOOLEAN, NEW fin \in FinishReasons,
         gen \in [Reqs -> Generators], new => gen[r].n < MaxTokens,
         Deliver(r, e, new, fin)
  PROVE  GeneratorMoves(r, e)
BY DeliverStep DEF GeneratorMoves

\* The final chunk is a move.
LEMMA FinalMoves ==
  ASSUME NEW r \in Reqs, NEW e, NEW reason \in FinishReasons,
         gen \in [Reqs -> Generators], YieldFinal(r, e, reason)
  PROVE  GeneratorMoves(r, e)
BY SuspendMoves DEF YieldFinal, FinishReasons

\* A move keeps the type, and a generator is alive unless it ended.
LEMMA MovesKeepType ==
  ASSUME NEW r \in Reqs, NEW e, gen \in [Reqs -> Generators], GeneratorMoves(r, e)
  PROVE  /\ gen' \in [Reqs -> Generators]
         /\ e \in {"raise", "end"} <=> ~Live(r)'
         /\ \A q \in Reqs \ {r} : gen'[q] = gen[q] /\ (Live(q)' <=> Live(q))
<1>1. PICK g \in Generators : /\ gen' = [gen EXCEPT ![r] = g]
                              /\ e \in {"raise", "end"} <=> g.pc = "dead"
                              /\ g.pc # "none"
  BY DEF GeneratorMoves
<1>2. g.pc = "dead" <=> g.pc \notin LivePcs
  BY <1>1 DEF Generators, LivePcs
<1> QED
  BY <1>1, <1>2, GeneratorStep

\* A run of vLLM's generator is a move.
LEMMA VLLMMoves ==
  ASSUME NEW r \in Reqs, NEW e, BackendInv, VLLMRun(r, e)
  PROVE  GeneratorMoves(r, e) /\ EngineType'
<1>1. gen \in [Reqs -> Generators] /\ gen[r].fin \in FinishReasons
  BY DEF BackendInv, BackendType, Generators
<1>2. CASE Begin(r, e)
  BY <1>1, <1>2, SuspendMoves DEF Begin, BackendInv, BackendType, EngineType
<1>3. CASE Resume(r, e)
  BY <1>1, <1>3, SuspendMoves DEF Resume, BackendInv, BackendType, EngineType
<1>4. ASSUME NEW new \in BOOLEAN, NEW reason \in FinishReasons \cup {"none"},
             Output(r, new, reason),
             Deliver(r, e, new, IF reason = "none" THEN gen[r].fin ELSE reason)
      PROVE  GeneratorMoves(r, e)
  <2>1. (IF reason = "none" THEN gen[r].fin ELSE reason) \in FinishReasons
    BY <1>1
  <2>2. new => gen[r].n < MaxTokens
    BY <1>4 DEF Output
  <2> QED
    BY <1>1, <1>4, <2>1, <2>2, DeliverMoves
<1>5. CASE OutputsEnd(r) /\ YieldFinal(r, e, gen[r].fin)
  BY <1>1, <1>5, FinalMoves DEF OutputsEnd, BackendInv, BackendType, EngineType
<1>6. CASE OutputsFail(r) /\ Raise(r, e)
  BY <1>1, <1>6, SuspendMoves, OutputType DEF Raise, BackendInv
<1> QED
  BY <1>2, <1>3, <1>4, <1>5, <1>6, OutputType DEF VLLMRun, BackendInv

\* A run of TensorRT-LLM's generator is a move.
LEMMA TRTLLMMoves ==
  ASSUME NEW r \in Reqs, NEW e, BackendInv, TRTLLMRun(r, e)
  PROVE  GeneratorMoves(r, e) /\ EngineType' /\ aborted' \subseteq Reqs
<1>1. /\ gen \in [Reqs -> Generators] /\ gen[r].fin \in FinishReasons
      /\ aborted \subseteq Reqs /\ EngineType
  BY DEF BackendInv, BackendType, Generators, EngineType
<1>2. CASE Begin(r, e) /\ UNCHANGED aborted
  BY <1>1, <1>2, SuspendMoves DEF Begin, EngineType
<1>3. CASE Resume(r, e) /\ UNCHANGED aborted
  BY <1>1, <1>3, SuspendMoves DEF Resume, EngineType
<1>4. ASSUME NEW new \in BOOLEAN, NEW reason \in FinishReasons \cup {"none"},
             Output(r, new, reason),
             Deliver(r, e, new, IF reason = "stop" THEN "stop" ELSE gen[r].fin)
      PROVE  GeneratorMoves(r, e)
  <2>1. (IF reason = "stop" THEN "stop" ELSE gen[r].fin) \in FinishReasons
    BY <1>1 DEF FinishReasons
  <2>2. new => gen[r].n < MaxTokens
    BY <1>4 DEF Output
  <2> QED
    BY <1>1, <1>4, <2>1, <2>2, DeliverMoves
<1>5. ASSUME NEW reason \in FinishReasons, YieldFinal(r, e, reason)
      PROVE  GeneratorMoves(r, e)
  BY <1>1, <1>5, FinalMoves
<1>6. CASE OutputsEnd(r) /\ YieldFinal(r, e, gen[r].fin) /\ aborted' = aborted \ {r}
  BY <1>1, <1>5, <1>6 DEF OutputsEnd, EngineType
<1>7. CASE OutputsFail(r) /\ Raise(r, e) /\ UNCHANGED aborted
  BY <1>1, <1>7, SuspendMoves, OutputType DEF Raise, BackendInv
<1>8. "abort" \in FinishReasons
  BY DEF FinishReasons
<1> QED
  BY <1>1, <1>2, <1>3, <1>4, <1>5, <1>6, <1>7, <1>8, OutputType DEF TRTLLMRun, BackendInv

\* A run of Ray's generator is a move.
LEMMA RayMoves ==
  ASSUME NEW r \in Reqs, NEW e, BackendInv, RayRun(r, e)
  PROVE  GeneratorMoves(r, e) /\ EngineType' /\ aborted' \subseteq Reqs
<1>1. /\ gen \in [Reqs -> Generators] /\ gen[r].fin \in FinishReasons
      /\ aborted \subseteq Reqs /\ EngineType
  BY DEF BackendInv, BackendType, Generators, EngineType
<1>2. CASE Begin(r, e) /\ UNCHANGED aborted
  BY <1>1, <1>2, SuspendMoves DEF Begin, EngineType
<1>3. CASE Resume(r, e) /\ UNCHANGED aborted
  BY <1>1, <1>3, SuspendMoves DEF Resume, EngineType
<1>4. ASSUME NEW new \in BOOLEAN, NEW reason \in FinishReasons \cup {"none"},
             Output(r, new, reason),
             Deliver(r, e, new, IF reason = "none" THEN gen[r].fin ELSE reason)
      PROVE  GeneratorMoves(r, e)
  <2>1. (IF reason = "none" THEN gen[r].fin ELSE reason) \in FinishReasons
    BY <1>1 DEF FinishReasons
  <2>2. new => gen[r].n < MaxTokens
    BY <1>4 DEF Output
  <2> QED
    BY <1>1, <1>4, <2>1, <2>2, DeliverMoves
<1>5. ASSUME NEW reason \in FinishReasons, YieldFinal(r, e, reason)
      PROVE  GeneratorMoves(r, e)
  BY <1>1, <1>5, FinalMoves
<1>6. CASE OutputsEnd(r) /\ YieldFinal(r, e, gen[r].fin) /\ aborted' = aborted \ {r}
  BY <1>1, <1>5, <1>6 DEF OutputsEnd, EngineType
<1>7. CASE OutputsFail(r) /\ Raise(r, e) /\ UNCHANGED aborted
  BY <1>1, <1>7, SuspendMoves, OutputType DEF Raise, BackendInv
<1>8. "abort" \in FinishReasons
  BY DEF FinishReasons
<1> QED
  BY <1>1, <1>2, <1>3, <1>4, <1>5, <1>6, <1>7, <1>8, OutputType DEF RayRun, BackendInv

\* The mock engine enters a request in _active when its generator begins and takes
\* it out when it ends; it makes no more than max_tokens chunks.
LEMMA MockMoves ==
  ASSUME NEW r \in Reqs, NEW e, BackendInv, kind = "mock", MockRun(r, e), UNCHANGED kind
  PROVE  /\ GeneratorMoves(r, e) /\ aborted' \subseteq Reqs
         /\ TokensLeft' /\ active' = {q \in Reqs : Live(q)'}
<1>1. /\ gen \in [Reqs -> Generators] /\ gen[r].fin \in FinishReasons
      /\ aborted \subseteq Reqs /\ active = {q \in Reqs : Live(q)}
      /\ gen[r].n \in 0..MaxTokens
  BY DEF BackendInv, BackendType, Generators, Owned
<1>2. ASSUME NEW pc \in {"prefill", "await", "last", "dead"}, Suspend(r, pc),
             e \in {"raise", "end"} <=> pc = "dead",
             pc \in {"prefill", "await"} => gen[r].n < MaxTokens
      PROVE  GeneratorMoves(r, e) /\ TokensLeft' /\ (Live(r)' <=> pc # "dead")
  <2>1. GeneratorMoves(r, e)
    BY <1>1, <1>2, SuspendMoves
  <2>2. gen'[r].n = gen[r].n /\ gen'[r].pc = pc /\ \A q \in Reqs \ {r} : gen'[q] = gen[q]
    BY <1>1, <1>2 DEF Suspend, Generators
  <2>3. TokensLeft'
    BY <1>2, <2>2 DEF TokensLeft, BackendInv
  <2> QED
    BY <2>1, <2>2, <2>3 DEF Live
<1>3. ASSUME Deliver(r, e, TRUE, gen[r].fin), gen[r].n < MaxTokens
      PROVE  GeneratorMoves(r, e) /\ TokensLeft' /\ Live(r)'
  <2>1. GeneratorMoves(r, e)
    BY <1>1, <1>3, DeliverMoves
  <2>2. gen'[r].pc = "yielded" /\ \A q \in Reqs \ {r} : gen'[q] = gen[q]
    BY <1>1, <1>3 DEF Deliver
  <2>3. TokensLeft'
    BY <2>2 DEF TokensLeft, BackendInv
  <2> QED
    BY <2>1, <2>2, <2>3 DEF Live
<1>4. ASSUME NEW reason \in FinishReasons, YieldFinal(r, e, reason)
      PROVE  GeneratorMoves(r, e) /\ TokensLeft' /\ Live(r)'
  BY <1>2, <1>4 DEF YieldFinal, FinishReasons
<1>5. GeneratorMoves(r, e) => \A q \in Reqs \ {r} : Live(q)' <=> Live(q)
  BY <1>1, MovesKeepType
<1>6. CASE /\ At(r, "none") /\ e = "wait" /\ Suspend(r, "prefill")
           /\ active' = active \cup {r} /\ UNCHANGED aborted
  <2>1. gen[r].n < MaxTokens
    BY <1>6 DEF At, TokensLeft, BackendInv
  <2>2. GeneratorMoves(r, e) /\ TokensLeft' /\ Live(r)'
    BY <1>2, <1>6, <2>1
  <2> QED
    BY <1>1, <1>5, <1>6, <2>2
<1>7. ASSUME Live(r), GeneratorMoves(r, e), TokensLeft', Live(r)', UNCHANGED <<active, aborted>>
      PROVE  /\ GeneratorMoves(r, e) /\ aborted' \subseteq Reqs
             /\ TokensLeft' /\ active' = {q \in Reqs : Live(q)'}
  BY <1>1, <1>5, <1>7
<1>8. "abort" \in FinishReasons /\ "stop" \in FinishReasons /\ "length" \in FinishReasons
  BY DEF FinishReasons
<1>9. ASSUME MockToken(r, e), gen[r].pc \in {"prefill", "await"}
      PROVE  GeneratorMoves(r, e) /\ TokensLeft' /\ Live(r)'
  BY <1>3, <1>4, <1>8, <1>9 DEF MockToken, TokensLeft, BackendInv
<1>10. CASE /\ \/ At(r, "prefill") /\ r \in aborted /\ YieldFinal(r, e, "abort")
               \/ At(r, "prefill") /\ r \notin aborted /\ MockToken(r, e)
               \/ At(r, "await") /\ MockToken(r, e)
               \/ At(r, "yielded") /\ gen[r].n = MaxTokens /\ YieldFinal(r, e, "length")
            /\ UNCHANGED <<active, aborted>>
  <2>1. Live(r)
    BY <1>10 DEF At, Live
  <2>2. GeneratorMoves(r, e) /\ TokensLeft' /\ Live(r)'
    BY <1>4, <1>8, <1>9, <1>10 DEF At
  <2> QED
    BY <1>7, <1>10, <2>1, <2>2
<1>11. CASE /\ At(r, "yielded") /\ gen[r].n < MaxTokens
            /\ IF r \in aborted THEN YieldFinal(r, e, "abort")
                                ELSE e = "wait" /\ Suspend(r, "await")
            /\ UNCHANGED <<active, aborted>>
  <2>1. Live(r)
    BY <1>11 DEF At, Live
  <2>2. GeneratorMoves(r, e) /\ TokensLeft' /\ Live(r)'
    BY <1>2, <1>4, <1>8, <1>11
  <2> QED
    BY <1>7, <1>11, <2>1, <2>2
<1>12. CASE At(r, "last") /\ e = "end" /\ Suspend(r, "dead") /\ MockFinally(r)
  <2>1. GeneratorMoves(r, e) /\ TokensLeft' /\ ~Live(r)'
    BY <1>2, <1>12
  <2> QED
    BY <1>1, <1>5, <1>12, <2>1 DEF MockFinally
<1> QED
  BY <1>6, <1>10, <1>11, <1>12 DEF MockRun

\* Triton's stream is open exactly while the generator that opened it is: one that
\* finds it open ends at once and leaves it to its owner.
LEMMA TritonMoves ==
  ASSUME NEW r \in Reqs, NEW e, BackendInv, kind = "triton", TritonRun(r, e), UNCHANGED kind
  PROVE  /\ GeneratorMoves(r, e) /\ EngineType' /\ aborted' \subseteq Reqs
         /\ stream' \in Reqs \cup {None}
         /\ \A q \in Reqs : Live(q)' <=> stream' = q
<1>1. /\ gen \in [Reqs -> Generators] /\ gen[r].fin \in FinishReasons
      /\ aborted \subseteq Reqs /\ stream \in Reqs \cup {None} /\ EngineType
      /\ \A q \in Reqs : Live(q) <=> stream = q
  BY DEF BackendInv, BackendType, Generators, Owned, EngineType
<1>2. None \notin Reqs
  BY BackendsAssumption DEF Reqs
<1>3. GeneratorMoves(r, e) =>
        /\ e \in {"raise", "end"} <=> ~Live(r)'
        /\ \A q \in Reqs \ {r} : Live(q)' <=> Live(q)
  BY <1>1, MovesKeepType
\* The generator goes on: it was the owner and stays it.
<1>4. ASSUME GeneratorMoves(r, e), EngineType', Live(r), e \notin {"raise", "end"},
             UNCHANGED <<stream, aborted>>
      PROVE  /\ GeneratorMoves(r, e) /\ EngineType' /\ aborted' \subseteq Reqs
             /\ stream' \in Reqs \cup {None}
             /\ \A q \in Reqs : Live(q)' <=> stream' = q
  BY <1>1, <1>3, <1>4
\* It ends and gives the stream back.
<1>5. ASSUME GeneratorMoves(r, e), EngineType', Live(r), e \in {"raise", "end"},
             TritonFinally(r)
      PROVE  /\ GeneratorMoves(r, e) /\ EngineType' /\ aborted' \subseteq Reqs
             /\ stream' \in Reqs \cup {None}
             /\ \A q \in Reqs : Live(q)' <=> stream' = q
  BY <1>1, <1>2, <1>3, <1>5 DEF TritonFinally
<1>6. CASE stream = None /\ Begin(r, e) /\ stream' = r /\ UNCHANGED aborted
  <2>1. GeneratorMoves(r, e) /\ EngineType' /\ e = "wait"
    BY <1>1, <1>6, SuspendMoves DEF Begin, EngineType
  <2> QED
    BY <1>1, <1>2, <1>3, <1>6, <2>1
<1>7. CASE stream # None /\ At(r, "none") /\ Raise(r, e) /\ UNCHANGED <<engine, stream, aborted>>
  <2>1. GeneratorMoves(r, e) /\ EngineType' /\ e = "raise"
    BY <1>1, <1>7, SuspendMoves DEF Raise, EngineType
  <2>2. ~Live(r)
    BY <1>7 DEF At, Live
  <2> QED
    BY <1>1, <1>3, <1>7, <2>1, <2>2
<1>8. CASE At(r, "yielded") /\ Resume(r, e) /\ UNCHANGED <<stream, aborted>>
  <2>1. GeneratorMoves(r, e) /\ EngineType' /\ e = "wait" /\ Live(r)
    BY <1>1, <1>8, SuspendMoves DEF Resume, At, EngineType, Live
  <2> QED
    BY <1>4, <1>8, <2>1
<1>9. CASE At(r, "last") /\ Resume(r, e) /\ TritonFinally(r)
  <2>1. GeneratorMoves(r, e) /\ EngineType' /\ e = "end" /\ Live(r)
    BY <1>1, <1>9, SuspendMoves DEF Resume, At, EngineType, Live
  <2> QED
    BY <1>5, <1>9, <2>1
<1>10. CASE At(r, "await") /\ TritonItem(r, e)
  <2>1. Live(r)
    BY <1>10 DEF At, Live
  <2>2. ASSUME NEW reason \in FinishReasons, YieldFinal(r, e, reason)
        PROVE  GeneratorMoves(r, e) /\ e \notin {"raise", "end"}
    <3>1. GeneratorMoves(r, e)
      BY <1>1, <2>2, FinalMoves
    <3> QED
      BY <2>2, <3>1 DEF YieldFinal, FinishReasons
  <2>3. "abort" \in FinishReasons /\ "stop" \in FinishReasons
    BY DEF FinishReasons
  <2>4. ASSUME NEW new \in BOOLEAN, NEW reason \in FinishReasons \cup {"none"},
               Output(r, new, reason),
               IF new /\ r \in aborted THEN YieldFinal(r, e, "abort")
                                       ELSE Deliver(r, e, new, "stop")
        PROVE  GeneratorMoves(r, e) /\ EngineType' /\ e \notin {"raise", "end"}
    <3>1. new => gen[r].n < MaxTokens
      BY <2>4 DEF Output
    <3>2. Deliver(r, e, new, "stop") => GeneratorMoves(r, e) /\ e \notin {"raise", "end"}
      BY <1>1, <2>3, <3>1, DeliverMoves DEF Deliver
    <3>3. YieldFinal(r, e, "abort") => GeneratorMoves(r, e) /\ e \notin {"raise", "end"}
      BY <2>2, <2>3
    <3>4. EngineType'
      BY <2>4, OutputType DEF BackendInv
    <3> QED
      BY <2>4, <3>2, <3>3, <3>4
  <2>5. ASSUME OutputsEnd(r),
               YieldFinal(r, e, IF r \in aborted THEN "abort" ELSE gen[r].fin)
        PROVE  GeneratorMoves(r, e) /\ EngineType' /\ e \notin {"raise", "end"}
    <3>1. PICK reason \in FinishReasons : YieldFinal(r, e, reason)
      BY <1>1, <2>3, <2>5
    <3>2. EngineType'
      BY <1>1, <2>5 DEF OutputsEnd, EngineType
    <3> QED
      BY <2>2, <3>1, <3>2
  <2>6. CASE OutputsFail(r) /\ Raise(r, e) /\ TritonFinally(r)
    <3>1. GeneratorMoves(r, e) /\ EngineType' /\ e = "raise"
      BY <1>1, <2>6, SuspendMoves, OutputType DEF Raise, BackendInv
    <3> QED
      BY <1>5, <2>1, <2>6, <3>1
  <2> QED
    BY <1>4, <1>10, <2>1, <2>4, <2>5, <2>6 DEF TritonItem
<1> QED
  BY <1>6, <1>7, <1>8, <1>9, <1>10 DEF TritonRun

\* A step of a generator keeps what its backend has to keep, and ends the generator
\* when it raises or is exhausted.
LEMMA GenerateKeeps ==
  ASSUME NEW r \in Reqs, NEW e, BackendInv, Generate(r, e)
  PROVE  /\ BackendInv'
         /\ e \in {"raise", "end"} <=> ~Live(r)'
         /\ \A q \in Reqs \ {r} : Live(q)' <=> Live(q)
<1>1. BackendType /\ EngineType /\ kind' = kind /\ gen \in [Reqs -> Generators]
  BY DEF BackendInv, BackendType, EngineType, Generate
<1>2. GeneratorMoves(r, e) =>
        /\ gen' \in [Reqs -> Generators]
        /\ e \in {"raise", "end"} <=> ~Live(r)'
        /\ \A q \in Reqs \ {r} : Live(q)' <=> Live(q)
  BY <1>1, MovesKeepType
<1>3. CASE kind = "mock" /\ MockRun(r, e) /\ UNCHANGED <<stream, engine>>
  <2>1. /\ GeneratorMoves(r, e) /\ aborted' \subseteq Reqs
        /\ TokensLeft' /\ active' = {q \in Reqs : Live(q)'}
    BY <1>1, <1>3, MockMoves
  <2>2. Owned'
    BY <1>1, <1>3, <2>1 DEF Owned
  <2> QED
    BY <1>1, <1>2, <1>3, <2>1, <2>2 DEF BackendInv, BackendType
<1>4. ASSUME kind \notin {"mock", "triton"}, GeneratorMoves(r, e), EngineType',
             aborted' \subseteq Reqs, UNCHANGED <<active, stream>>
      PROVE  BackendInv'
  BY <1>1, <1>2, <1>4 DEF BackendInv, BackendType, EngineType, TokensLeft, Owned
<1>5. CASE kind = "vllm" /\ VLLMRun(r, e) /\ UNCHANGED <<active, aborted, stream>>
  BY <1>1, <1>2, <1>4, <1>5, VLLMMoves DEF BackendType
<1>6. CASE kind = "trtllm" /\ TRTLLMRun(r, e) /\ UNCHANGED <<active, stream>>
  BY <1>2, <1>4, <1>6, TRTLLMMoves
<1>7. CASE kind = "ray" /\ RayRun(r, e) /\ UNCHANGED <<active, stream>>
  BY <1>2, <1>4, <1>7, RayMoves
<1>8. CASE kind = "triton" /\ TritonRun(r, e) /\ UNCHANGED active
  <2>1. /\ GeneratorMoves(r, e) /\ EngineType' /\ aborted' \subseteq Reqs
        /\ stream' \in Reqs \cup {None}
        /\ \A q \in Reqs : Live(q)' <=> stream' = q
    BY <1>1, <1>8, TritonMoves
  <2> QED
    BY <1>1, <1>2, <1>8, <2>1 DEF BackendInv, BackendType, EngineType, TokensLeft, Owned
<1> QED
  BY <1>3, <1>5, <1>6, <1>7, <1>8 DEF Generate

\* A generator that is closed takes with it what its backend keeps for it.
LEMMA CloseKeeps ==
  ASSUME NEW r \in Reqs, BackendInv, CloseGenerator(r), UNCHANGED kind,
         aborted' \subseteq Reqs, EngineType'
  PROVE  BackendInv' /\ ~Live(r)' /\ \A q \in Reqs \ {r} : Live(q)' <=> Live(q)
<1> DEFINE g == [gen[r] EXCEPT !.pc = IF Live(r) THEN "dead" ELSE gen[r].pc]
<1>1. gen \in [Reqs -> Generators] /\ None \notin Reqs
  BY BackendsAssumption DEF BackendInv, BackendType, Reqs
<1>2. g \in Generators /\ gen' = [gen EXCEPT ![r] = g]
  BY <1>1 DEF CloseGenerator, Generators
<1>3. g.n = gen[r].n /\ g.pc \notin LivePcs /\ (~Live(r) => g.pc = gen[r].pc)
      /\ (Live(r) => g.pc = "dead")
  BY <1>1 DEF Generators, LivePcs, Live
<1> HIDE DEF g
<1>4. /\ gen' \in [Reqs -> Generators] /\ gen'[r] = g /\ ~Live(r)'
      /\ \A q \in Reqs \ {r} : gen'[q] = gen[q] /\ (Live(q)' <=> Live(q))
  BY <1>1, <1>2, <1>3, GeneratorStep
<1>5. TokensLeft'
  BY <1>3, <1>4 DEF TokensLeft, BackendInv
<1>6. Owned'
  BY <1>1, <1>4 DEF Owned, BackendInv, CloseGenerator
<1> QED
  BY <1>4, <1>5, <1>6 DEF BackendInv, BackendType, EngineType, CloseGenerator

-----------------------------------------------------------------------------
(* The semaphore *)

Phases == {"none", "queued", "serving", "failing", "tail", "left", "closing", "ended"}

HoldPhases == {"serving", "failing", "tail", "left"}

SlotType ==
  /\ kind \in Kinds /\ limit \in Limits[kind] /\ permits \in 0..limit
  /\ phase \in [Reqs -> Phases] /\ line \in Seq(Reqs)

SlotInv == SlotType /\ SlotsExact

\* The requests and the holders of slots can be counted.
LEMMA ReqsFinite == IsFiniteSet(Reqs) /\ IsFiniteSet(Holders) /\ Cardinality(Holders) \in Nat
<1>1. IsFiniteSet(Reqs)
  BY FS_Interval, BackendsAssumption DEF Reqs
<1>2. IsFiniteSet(Holders)
  BY <1>1, FS_Subset DEF Holders
<1> QED
  BY <1>1, <1>2, FS_CardinalityType

\* A change of one phase changes the number of holders by what that request does.
LEMMA HolderStep ==
  ASSUME NEW r \in Reqs, NEW x \in Phases, phase \in [Reqs -> Phases],
         phase' = [phase EXCEPT ![r] = x]
  PROVE  /\ Cardinality(Holders') \in Nat
         /\ (phase[r] \in HoldPhases <=> x \in HoldPhases)
              => Cardinality(Holders') = Cardinality(Holders)
         /\ phase[r] \notin HoldPhases /\ x \in HoldPhases
              => Cardinality(Holders') = Cardinality(Holders) + 1
         /\ phase[r] \in HoldPhases /\ x \notin HoldPhases
              => Cardinality(Holders') = Cardinality(Holders) - 1
<1>1. Holders = {q \in Reqs : phase[q] \in HoldPhases} /\ Holders' = {q \in Reqs : phase'[q] \in HoldPhases}
  BY DEF Holders, HoldPhases
<1>2. \A q \in Reqs : phase'[q] = IF q = r THEN x ELSE phase[q]
  OBVIOUS
<1>3. Holders' = IF x \in HoldPhases THEN Holders \cup {r} ELSE Holders \ {r}
  BY <1>1, <1>2
<1>4. r \in Holders <=> phase[r] \in HoldPhases
  BY <1>1
<1>5. Cardinality(Holders \cup {r}) = IF r \in Holders THEN Cardinality(Holders) ELSE Cardinality(Holders) + 1
  BY ReqsFinite, FS_AddElement
<1>6. Cardinality(Holders \ {r}) = IF r \in Holders THEN Cardinality(Holders) - 1 ELSE Cardinality(Holders)
  BY ReqsFinite, FS_RemoveElement
<1>7. IsFiniteSet(Holders')
  BY <1>3, ReqsFinite, FS_AddElement, FS_RemoveElement
<1>8. Cardinality(Holders') \in Nat
  BY <1>7, FS_CardinalityType
<1> QED
  BY <1>3, <1>4, <1>5, <1>6, <1>8

\* A phase that changes without taking or giving back the permit.
LEMMA SlotKept ==
  ASSUME NEW r \in Reqs, NEW x \in Phases \ {"queued"}, SlotInv,
         phase[r] # "queued", phase[r] \in HoldPhases <=> x \in HoldPhases,
         phase' = [phase EXCEPT ![r] = x], UNCHANGED <<kind, limit, permits, line>>
  PROVE  SlotInv'
<1>1. Cardinality(Holders') = Cardinality(Holders)
  BY HolderStep DEF SlotInv, SlotType
<1>2. SlotType'
  BY DEF SlotInv, SlotType
<1>3. \A q \in Reqs : phase'[q] = "queued" <=> q \in Range(line')
  BY DEF SlotInv, SlotsExact, SlotType
<1> QED
  BY <1>1, <1>2, <1>3 DEF SlotInv, SlotsExact

\* One that gives it back.
LEMMA SlotReleased ==
  ASSUME NEW r \in Reqs, NEW x \in Phases \ {"queued"}, SlotInv,
         phase[r] \in HoldPhases, x \notin HoldPhases, permits' = permits + 1,
         phase' = [phase EXCEPT ![r] = x], UNCHANGED <<kind, limit, line>>
  PROVE  SlotInv'
<1>1. Cardinality(Holders') \in Nat /\ Cardinality(Holders') = Cardinality(Holders) - 1
  BY HolderStep DEF SlotInv, SlotType
<1>2. permits \in Nat /\ limit \in Nat /\ permits + Cardinality(Holders) = limit
  BY ServingAssumption DEF SlotInv, SlotType, SlotsExact
<1>3. permits' + Cardinality(Holders') = limit' /\ permits' \in 0..limit'
  BY <1>1, <1>2, ReqsFinite
<1>4. \A q \in Reqs : phase'[q] = "queued" <=> q \in Range(line')
  BY DEF SlotInv, SlotsExact, SlotType, HoldPhases
<1> QED
  BY <1>3, <1>4 DEF SlotInv, SlotType, SlotsExact

\* A request arrives and joins the line of the semaphore.
LEMMA SlotArrive ==
  ASSUME NEW r \in Reqs, NEW m, SlotInv, Arrive(r, m)
  PROVE  SlotInv'
<1>1. /\ phase[r] = "none" /\ phase' = [phase EXCEPT ![r] = "queued"]
      /\ line' = Append(line, r) /\ UNCHANGED <<kind, limit, permits>>
  BY DEF Arrive, IsNext, backendVars
<1>2. Cardinality(Holders') = Cardinality(Holders)
  BY <1>1, HolderStep DEF SlotInv, SlotType, Phases, HoldPhases
<1>3. r \notin Range(line) /\ line \in Seq(Reqs) /\ IsInjective(line)
  BY <1>1 DEF SlotInv, SlotsExact, SlotType
<1>4. /\ line' \in Seq(Reqs) /\ Len(line') = Len(line) + 1 /\ DOMAIN line' = 1..Len(line')
      /\ \A i \in 1..Len(line) : line'[i] = line[i]
      /\ line'[Len(line) + 1] = r
  BY <1>1, <1>3
<1>5. \A i \in 1..Len(line) : line[i] # r
  BY <1>3 DEF Range
<1>6. IsInjective(line')
  BY <1>3, <1>4, <1>5 DEF IsInjective
<1>7. Range(line') = Range(line) \cup {r}
  BY <1>3, <1>4 DEF Range
<1>8. \A q \in Reqs : phase'[q] = "queued" <=> q \in Range(line')
  BY <1>1, <1>7 DEF SlotInv, SlotsExact, SlotType
<1>9. SlotType'
  BY <1>1, <1>4 DEF SlotInv, SlotType, Phases
<1> QED
  BY <1>1, <1>2, <1>6, <1>8, <1>9 DEF SlotInv, SlotsExact

\* Taking one element out of an injective sequence.
LEMMA RemovedAt ==
  ASSUME NEW i \in DOMAIN line, line \in Seq(Reqs), IsInjective(line)
  PROVE  /\ RemoveAt(line, i) \in Seq(Reqs) /\ IsInjective(RemoveAt(line, i))
         /\ Range(RemoveAt(line, i)) = Range(line) \ {line[i]}
         /\ Len(RemoveAt(line, i)) = Len(line) - 1
         /\ \A j \in 1..(Len(line) - 1) :
              RemoveAt(line, i)[j] = IF j < i THEN line[j] ELSE line[j + 1]
<1> DEFINE rest == RemoveAt(line, i)
<1>1. i \in 1..Len(line) /\ Len(line) \in Nat /\ \A j \in 1..Len(line) : line[j] \in Reqs
  OBVIOUS
<1>2. /\ SubSeq(line, 1, i - 1) \in Seq(Reqs) /\ Len(SubSeq(line, 1, i - 1)) = i - 1
      /\ \A j \in 1..(i - 1) : SubSeq(line, 1, i - 1)[j] = line[j]
  BY <1>1
<1>3. /\ SubSeq(line, i + 1, Len(line)) \in Seq(Reqs)
      /\ Len(SubSeq(line, i + 1, Len(line))) = Len(line) - i
      /\ \A j \in 1..(Len(line) - i) : SubSeq(line, i + 1, Len(line))[j] = line[i + j]
  BY <1>1
<1>4. /\ rest \in Seq(Reqs) /\ Len(rest) = Len(line) - 1 /\ DOMAIN rest = 1..(Len(line) - 1)
      /\ \A j \in 1..(Len(line) - 1) : rest[j] = IF j < i THEN line[j] ELSE line[j + 1]
  <2> DEFINE before == SubSeq(line, 1, i - 1)
             after  == SubSeq(line, i + 1, Len(line))
  <2>1. rest = before \o after
    BY DEF RemoveAt
  <2>2. before \in Seq(Reqs) /\ after \in Seq(Reqs)
    BY <1>2, <1>3
  <2>3. Len(before) = i - 1 /\ Len(after) = Len(line) - i
    BY <1>2, <1>3
  <2>4. /\ \A j \in 1..(i - 1) : before[j] = line[j]
        /\ \A j \in 1..(Len(line) - i) : after[j] = line[i + j]
    BY <1>2, <1>3
  <2> HIDE DEF before, after
  <2>5. rest \in Seq(Reqs) /\ Len(rest) = Len(line) - 1
    BY <1>1, <2>1, <2>2, <2>3
  <2>6. \A j \in 1..Len(rest) :
          rest[j] = IF j <= Len(before) THEN before[j] ELSE after[j - Len(before)]
    BY <2>1, <2>2
  <2>7. ASSUME NEW j \in 1..(Len(line) - 1)
        PROVE  rest[j] = IF j < i THEN line[j] ELSE line[j + 1]
    <3>1. CASE j < i
      BY <1>1, <2>3, <2>4, <2>5, <2>6, <3>1
    <3>2. CASE ~(j < i)
      <4>1. j \in 1..Len(rest) /\ ~(j <= Len(before))
        BY <1>1, <2>3, <2>5, <3>2
      <4>2. rest[j] = after[j - Len(before)]
        BY <2>6, <4>1
      <4>3. rest[j] = after[j - (i - 1)]
        BY <2>3, <4>2
      <4>4. j - (i - 1) \in 1..(Len(line) - i) /\ i + (j - (i - 1)) = j + 1
        BY <1>1, <3>2
      <4>5. after[j - (i - 1)] = line[i + (j - (i - 1))]
        BY <2>4, <4>4
      <4> QED
        BY <3>2, <4>3, <4>4, <4>5
    <3> QED
      BY <3>1, <3>2
  <2> QED
    BY <2>5, <2>7
<1> HIDE DEF rest
<1>5. \A j, k \in 1..Len(line) : line[j] = line[k] => j = k
  BY DEF IsInjective
<1>6. IsInjective(rest)
  BY <1>1, <1>4, <1>5 DEF IsInjective
<1>7. ASSUME NEW j \in 1..(Len(line) - 1)
      PROVE  rest[j] \in Range(line) /\ rest[j] # line[i]
  <2>1. PICK k \in 1..Len(line) : rest[j] = line[k] /\ k # i
    <3>1. CASE j < i
      BY <1>1, <1>4, <3>1
    <3>2. CASE ~(j < i)
      <4>1. j + 1 \in 1..Len(line) /\ j + 1 # i
        BY <1>1, <3>2
      <4> QED
        BY <1>4, <3>2, <4>1
    <3> QED
      BY <3>1, <3>2
  <2> QED
    BY <1>1, <1>5, <2>1 DEF Range
<1>8. ASSUME NEW j \in 1..Len(line), j # i
      PROVE  line[j] \in Range(rest)
  <2>1. CASE j < i
    BY <1>1, <1>4, <2>1 DEF Range
  <2>2. CASE j > i
    <3>1. j - 1 \in 1..(Len(line) - 1) /\ ~(j - 1 < i) /\ (j - 1) + 1 = j
      BY <1>1, <2>2
    <3>2. rest[j - 1] = line[j]
      BY <1>4, <3>1
    <3> QED
      BY <1>4, <3>1, <3>2 DEF Range
  <2> QED
    BY <1>1, <1>8, <2>1, <2>2
<1>9. Range(rest) = Range(line) \ {line[i]}
  BY <1>1, <1>4, <1>7, <1>8 DEF Range
<1> QED
  BY <1>4, <1>6, <1>9 DEF rest

\* A client leaves the line.
LEMMA SlotLeft ==
  ASSUME NEW r \in Reqs, NEW i \in DOMAIN line, SlotInv, line[i] = r,
         line' = RemoveAt(line, i), phase[r] = "queued",
         phase' = [phase EXCEPT ![r] = "ended"], UNCHANGED <<kind, limit, permits>>
  PROVE  SlotInv'
<1>1. Cardinality(Holders') = Cardinality(Holders)
  BY HolderStep DEF SlotInv, SlotType, Phases, HoldPhases
<1>2. line' \in Seq(Reqs) /\ IsInjective(line') /\ Range(line') = Range(line) \ {r}
  BY RemovedAt DEF SlotInv, SlotType, SlotsExact
<1>3. \A q \in Reqs : phase'[q] = "queued" <=> q \in Range(line')
  BY <1>2 DEF SlotInv, SlotsExact, SlotType
<1>4. SlotType'
  BY <1>2 DEF SlotInv, SlotType, Phases
<1> QED
  BY <1>1, <1>2, <1>3, <1>4 DEF SlotInv, SlotsExact

\* The first of the line takes a permit.
LEMMA SlotAcquire ==
  ASSUME NEW r \in Reqs, SlotInv, Acquire(r)
  PROVE  SlotInv'
<1>1. /\ line # <<>> /\ r = Head(line) /\ permits > 0 /\ line' = Tail(line)
      /\ permits' = permits - 1 /\ phase' = [phase EXCEPT ![r] = "serving"]
      /\ UNCHANGED <<kind, limit>>
  BY DEF Acquire, backendVars
<1>2. line \in Seq(Reqs) /\ IsInjective(line) /\ phase \in [Reqs -> Phases]
      /\ permits \in Nat /\ limit \in Nat /\ permits <= limit
      /\ permits + Cardinality(Holders) = limit
      /\ \A q \in Reqs : phase[q] = "queued" <=> q \in Range(line)
  BY ServingAssumption DEF SlotInv, SlotType, SlotsExact
<1>3. /\ Len(line) \in Nat \ {0} /\ r = line[1] /\ line' \in Seq(Reqs)
      /\ Len(line') = Len(line) - 1 /\ DOMAIN line' = 1..(Len(line) - 1)
      /\ \A j \in 1..(Len(line) - 1) : line'[j] = line[j + 1]
  BY <1>1, <1>2
<1>4. \A j, k \in 1..Len(line) : line[j] = line[k] => j = k
  BY <1>2 DEF IsInjective
<1>5. IsInjective(line')
  BY <1>3, <1>4 DEF IsInjective
<1>6. ASSUME NEW q \in Reqs, q # r, q \in Range(line)
      PROVE  q \in Range(line')
  <2>1. PICK j \in 1..Len(line) : line[j] = q
    BY <1>2, <1>6 DEF Range
  <2>2. j - 1 \in 1..(Len(line) - 1) /\ (j - 1) + 1 = j
    BY <1>3, <1>6, <2>1
  <2>3. line'[j - 1] = q
    BY <1>3, <2>1, <2>2
  <2> QED
    BY <1>3, <2>2, <2>3 DEF Range
<1>7. ASSUME NEW q \in Range(line')
      PROVE  q \in Range(line) /\ q # r
  <2>1. PICK j \in 1..(Len(line) - 1) : line'[j] = q
    BY <1>3, <1>7 DEF Range
  <2>2. j + 1 \in 1..Len(line) /\ line[j + 1] = q /\ j + 1 # 1
    BY <1>3, <2>1
  <2>3. q # r
    BY <1>3, <1>4, <2>2
  <2>4. q \in Range(line)
    BY <1>2, <2>2 DEF Range
  <2> QED
    BY <2>3, <2>4
<1>8. r \in Range(line)
  BY <1>2, <1>3 DEF Range
<1>9. \A q \in Reqs : phase'[q] = "queued" <=> q \in Range(line')
  BY <1>1, <1>2, <1>6, <1>7
<1>10. Cardinality(Holders') = Cardinality(Holders) + 1
  BY <1>1, <1>2, <1>8, HolderStep DEF Phases, HoldPhases
<1>11. permits' + Cardinality(Holders') = limit' /\ permits' \in 0..limit'
  BY <1>1, <1>2, <1>10, ReqsFinite
<1>12. SlotType'
  BY <1>1, <1>2, <1>3, <1>11 DEF SlotInv, SlotType, Phases
<1> QED
  BY <1>5, <1>9, <1>11, <1>12 DEF SlotInv, SlotsExact

-----------------------------------------------------------------------------
(* The application *)

DataType ==
  /\ mode \in [Reqs -> {"collect", "stream", "chat"}]
  /\ pending \in [Reqs -> {<<>>} \cup {<<f>> : f \in Frames}]
  /\ sent \in [Reqs -> Seq(Frames)]
  /\ acc \in [Reqs -> [tokens : Nat, itls : Nat, finish : FinishReasons]]
  /\ reply \in [Reqs -> {"none", "refused", "200", "500", "504", "gone", "done"}]
  /\ metrics \in [Series -> Nat]

\* A generator is alive only while a handler iterates over it, or once the client
\* left in the middle of a frame and nobody has closed it yet.
PhaseOwned == \A r \in Reqs : phase[r] \notin {"serving", "left", "closing"} => ~Live(r)

IInv == BackendInv /\ SlotInv /\ DataType /\ PhaseOwned

\* The histograms and counters keep their types.
LEMMA ObserveType ==
  ASSUME NEW r \in Reqs, NEW status \in {"ok", "error"}, DataType, ObserveResult(r, status)
  PROVE  metrics' \in [Series -> Nat]
<1>1. acc[r].tokens \in Nat /\ acc[r].itls \in Nat
  BY DEF DataType
<1>2. metrics \in [Series -> Nat] /\ status \in Series
  BY DEF DataType, Series
<1>3. ASSUME NEW m \in Series
      PROVE  (CASE m = status   -> 1
                [] m = "tokens" -> acc[r].tokens
                [] m = "ttft"   -> IF acc[r].tokens = 0 THEN 0 ELSE 1
                [] m = "itl"    -> acc[r].itls
                [] OTHER        -> 0) \in Nat
  BY <1>1 DEF Series
<1> QED
  BY <1>2, <1>3 DEF ObserveResult

\* The accumulator keeps its type.
LEMMA AccType ==
  ASSUME NEW a \in [tokens : Nat, itls : Nat, finish : FinishReasons],
         NEW e \in {"text"} \cup FinishReasons
  PROVE  AccAdd(a, e) \in [tokens : Nat, itls : Nat, finish : FinishReasons]
<1>1. a.tokens \in Nat /\ a.itls \in Nat /\ a.finish \in FinishReasons
  OBVIOUS
<1>2. CASE e = "text"
  <2> DEFINE gaps == IF a.tokens = 0 THEN a.itls ELSE a.itls + 1
  <2>1. gaps \in Nat /\ a.tokens + 1 \in Nat
    BY <1>1
  <2>2. AccAdd(a, e) = [a EXCEPT !.tokens = a.tokens + 1, !.itls = gaps]
    BY <1>2 DEF AccAdd
  <2> HIDE DEF gaps
  <2> QED
    BY <2>1, <2>2
<1>3. CASE e # "text"
  BY <1>1, <1>3 DEF AccAdd
<1> QED
  BY <1>2, <1>3

\* The phase of r goes to x; no generator changes but r's, which is over unless x
\* may have one.
LEMMA PhaseStep ==
  ASSUME NEW r \in Reqs, NEW x \in Phases, phase \in [Reqs -> Phases], PhaseOwned,
         phase' = [phase EXCEPT ![r] = x],
         x \in {"serving", "left", "closing"} \/ ~Live(r)',
         \A q \in Reqs \ {r} : Live(q)' <=> Live(q)
  PROVE  PhaseOwned'
BY DEF PhaseOwned

\* What the backend keeps is untouched.
LEMMA SameBackend ==
  ASSUME BackendInv, UNCHANGED <<kind, gen, active, stream>>, aborted' \subseteq Reqs, EngineType'
  PROVE  BackendInv' /\ \A q \in Reqs : Live(q)' <=> Live(q)
BY DEF BackendInv, BackendType, TokensLeft, Owned, Live, EngineType

\* A flag is set or cleared.
LEMMA FlagsType ==
  ASSUME NEW r \in Reqs, aborted \subseteq Reqs
  PROVE  /\ FlagsClosed(r) \subseteq Reqs
         /\ \A flags \in SUBSET Reqs : FlagsAborted(flags, r) \subseteq Reqs
BY DEF FlagsClosed, FlagsAborted

\* abort() keeps the types.
LEMMA AbortType ==
  ASSUME NEW r \in Reqs, BackendType, AbortEngine(r)
  PROVE  EngineType'
BY DEF AbortEngine, BackendType, EngineType

\* No request has arrived.
LEMMA InitIInv == Init => IInv
<1> SUFFICES ASSUME Init PROVE IInv
  OBVIOUS
<1>1. BackendInv
  BY BackendsAssumption
  DEF Init, BackendInit, BackendInv, BackendType, TokensLeft, Owned, Live, Generators,
      FinishReasons, Reqs
<1>2. Holders = {} /\ Cardinality(Holders) = 0
  BY FS_EmptySet DEF Init, Holders
<1>3. limit \in Nat
  BY ServingAssumption DEF Init, BackendInit
<1>4. SlotInv
  BY <1>2, <1>3 DEF Init, BackendInit, SlotInv, SlotType, SlotsExact, Phases, Range, IsInjective
<1>5. DataType
  BY DEF Init, DataType, FinishReasons, Series
<1>6. PhaseOwned
  BY DEF Init, BackendInit, PhaseOwned, Live
<1> QED
  BY <1>1, <1>4, <1>5, <1>6 DEF IInv

\* The backend is left alone.
LEMMA BackendUnchanged ==
  ASSUME BackendInv, UNCHANGED backendVars
  PROVE  BackendInv' /\ \A q \in Reqs : Live(q)' <=> Live(q)
BY DEF backendVars, BackendInv, BackendType, TokensLeft, Owned, Live

\* A request is rejected.
LEMMA RejectKeeps ==
  ASSUME NEW r \in Reqs, IInv, Reject(r)
  PROVE  IInv'
<1>1. phase \in [Reqs -> Phases] /\ phase[r] = "none" /\ ~Live(r)
  BY DEF IInv, SlotInv, SlotType, PhaseOwned, Reject, IsNext
<1>2. BackendInv' /\ \A q \in Reqs : Live(q)' <=> Live(q)
  BY BackendUnchanged DEF IInv, Reject
<1>3. SlotInv'
  BY <1>1, SlotKept DEF IInv, Reject, Phases, HoldPhases, backendVars
<1>4. DataType'
  BY DEF IInv, DataType, Reject
<1>5. PhaseOwned'
  BY <1>1, <1>2, PhaseStep DEF IInv, Reject, Phases
<1> QED
  BY <1>2, <1>3, <1>4, <1>5 DEF IInv

\* A request arrives.
LEMMA ArriveKeeps ==
  ASSUME NEW r \in Reqs, NEW m \in {"collect", "stream", "chat"}, IInv, Arrive(r, m)
  PROVE  IInv'
<1>1. phase \in [Reqs -> Phases] /\ phase[r] = "none" /\ ~Live(r)
  BY DEF IInv, SlotInv, SlotType, PhaseOwned, Arrive, IsNext
<1>2. BackendInv' /\ \A q \in Reqs : Live(q)' <=> Live(q)
  BY BackendUnchanged DEF IInv, Arrive
<1>3. SlotInv'
  BY SlotArrive DEF IInv
<1>4. DataType'
  BY DEF IInv, DataType, Arrive
<1>5. PhaseOwned'
  BY <1>1, <1>2, PhaseStep DEF IInv, Arrive, Phases
<1> QED
  BY <1>2, <1>3, <1>4, <1>5 DEF IInv

\* A queued request gets its slot.
LEMMA AcquireKeeps ==
  ASSUME NEW r \in Reqs, IInv, Acquire(r)
  PROVE  IInv'
<1>1. phase \in [Reqs -> Phases]
  BY DEF IInv, SlotInv, SlotType
<1>2. BackendInv' /\ \A q \in Reqs : Live(q)' <=> Live(q)
  BY BackendUnchanged DEF IInv, Acquire
<1>3. SlotInv'
  BY SlotAcquire DEF IInv
<1>4. DataType'
  BY DEF IInv, DataType, Acquire, Frames
<1>5. PhaseOwned'
  BY <1>1, <1>2, PhaseStep DEF IInv, Acquire, Phases
<1> QED
  BY <1>2, <1>3, <1>4, <1>5 DEF IInv

\* A step of the generator with what its consumer does about it.
LEMMA AdvanceKeeps ==
  ASSUME NEW r \in Reqs, IInv, Advance(r)
  PROVE  IInv'
<1>1. /\ phase \in [Reqs -> Phases] /\ phase[r] = "serving"
      /\ UNCHANGED <<mode, limit, line, sent>>
  BY DEF IInv, SlotInv, SlotType, Advance
<1>2. PICK e : /\ Generate(r, e)
               /\ \/ e = "wait" /\ UNCHANGED <<phase, permits, pending, acc, reply, metrics>>
                  \/ ConsumeChunk(r, e) \/ ConsumeError(r, e) \/ ConsumeEnd(r, e)
  BY DEF Advance
<1>3. /\ BackendInv'
      /\ e \in {"raise", "end"} <=> ~Live(r)'
      /\ \A q \in Reqs \ {r} : Live(q)' <=> Live(q)
  BY <1>2, GenerateKeeps DEF IInv
<1>4. kind' = kind
  BY <1>2 DEF Generate
<1>5. ASSUME UNCHANGED phase
      PROVE  PhaseOwned'
  BY <1>1, <1>3, <1>5 DEF IInv, PhaseOwned
<1>6. ASSUME UNCHANGED <<phase, permits>>
      PROVE  SlotInv'
  BY <1>1, <1>4, <1>6 DEF IInv, SlotInv, SlotType, SlotsExact, Holders
<1>7. ASSUME NEW x \in {"failing", "tail"}, phase' = [phase EXCEPT ![r] = x], UNCHANGED permits,
             e \in {"raise", "end"}
      PROVE  SlotInv' /\ PhaseOwned'
  <2>1. SlotInv'
    BY <1>1, <1>4, <1>7, SlotKept DEF IInv, Phases, HoldPhases
  <2>2. PhaseOwned'
    BY <1>1, <1>3, <1>7, PhaseStep DEF IInv, Phases
  <2> QED
    BY <2>1, <2>2
<1>8. ASSUME NEW answer, Release(r, answer), e \in {"raise", "end"}
      PROVE  SlotInv' /\ PhaseOwned'
  <2>1. SlotInv'
    BY <1>1, <1>4, <1>8, SlotReleased DEF IInv, Phases, HoldPhases, Release
  <2>2. PhaseOwned'
    BY <1>1, <1>3, <1>8, PhaseStep DEF IInv, Phases, Release
  <2> QED
    BY <2>1, <2>2
<1>9. CASE e = "wait" /\ UNCHANGED <<phase, permits, pending, acc, reply, metrics>>
  BY <1>1, <1>3, <1>5, <1>6, <1>9 DEF IInv, DataType
<1>10. CASE ConsumeChunk(r, e)
  <2>1. DataType'
    <3>1. AccAdd(acc[r], e) \in [tokens : Nat, itls : Nat, finish : FinishReasons]
      BY <1>10, AccType DEF IInv, DataType, ConsumeChunk
    <3> QED
      BY <1>1, <1>10, <3>1 DEF IInv, DataType, ConsumeChunk, Frames
  <2> QED
    BY <1>3, <1>5, <1>6, <1>10, <2>1 DEF IInv, ConsumeChunk
<1>11. CASE ConsumeError(r, e)
  <2>1. DataType'
    BY <1>1, <1>11 DEF IInv, DataType, ConsumeError, Release, Frames
  <2>2. SlotInv' /\ PhaseOwned'
    BY <1>7, <1>8, <1>11 DEF ConsumeError
  <2> QED
    BY <1>3, <2>1, <2>2 DEF IInv
<1>12. CASE ConsumeEnd(r, e)
  <2>1. metrics' \in [Series -> Nat]
    BY <1>12, ObserveType DEF IInv, ConsumeEnd
  <2>2. DataType'
    BY <1>1, <1>12, <2>1 DEF IInv, DataType, ConsumeEnd, Release, Frames
  <2>3. SlotInv' /\ PhaseOwned'
    BY <1>7, <1>8, <1>12 DEF ConsumeEnd
  <2> QED
    BY <1>3, <2>2, <2>3 DEF IInv
<1> QED
  BY <1>2, <1>9, <1>10, <1>11, <1>12

\* A frame is sent, or the generator resumed.
LEMMA SendKeeps ==
  ASSUME NEW r \in Reqs, IInv, Send(r)
  PROVE  IInv'
<1>1. /\ phase \in [Reqs -> Phases] /\ UNCHANGED <<backendVars, mode, limit, line, acc>>
      /\ phase[r] \in {"serving", "failing", "tail"}
      /\ phase[r] # "serving" => ~Live(r)
  BY DEF IInv, SlotInv, SlotType, PhaseOwned, Send
<1>2. BackendInv' /\ (\A q \in Reqs : Live(q)' <=> Live(q)) /\ kind' = kind
  BY <1>1, BackendUnchanged DEF IInv, backendVars
<1>3. sent' \in [Reqs -> Seq(Frames)]
  <2>1. pending[r] \in Seq(Frames) /\ sent \in [Reqs -> Seq(Frames)]
    <3>1. pending[r] = <<>> \/ \E f \in Frames : pending[r] = <<f>>
      BY DEF IInv, DataType
    <3>2. <<>> \in Seq(Frames) /\ \A f \in Frames : <<f>> \in Seq(Frames)
      OBVIOUS
    <3>3. pending[r] \in Seq(Frames)
      BY <3>1, <3>2
    <3> QED
      BY <3>3 DEF IInv, DataType
  <2>2. sent[r] \o pending[r] \in Seq(Frames)
    BY <2>1
  <2> QED
    BY <2>1, <2>2 DEF Send
<1>4. CASE phase[r] = "serving"
  <2>1. UNCHANGED <<phase, permits, reply, metrics>> /\ pending' = [pending EXCEPT ![r] = <<>>]
    BY <1>4 DEF Send
  <2>2. SlotInv' /\ PhaseOwned'
    BY <1>1, <1>2, <2>1 DEF IInv, SlotInv, SlotType, SlotsExact, Holders, PhaseOwned
  <2>3. DataType'
    BY <1>1, <1>3, <2>1 DEF IInv, DataType
  <2> QED
    BY <1>2, <2>2, <2>3 DEF IInv
<1>5. CASE phase[r] = "failing"
  <2>1. /\ ObserveResult(r, "error") /\ pending' = [pending EXCEPT ![r] = <<"done">>]
        /\ phase' = [phase EXCEPT ![r] = "tail"] /\ UNCHANGED <<permits, reply>>
    BY <1>5 DEF Send
  <2>2. SlotInv'
    BY <1>1, <1>2, <1>5, <2>1, SlotKept DEF IInv, Phases, HoldPhases
  <2>3. PhaseOwned'
    BY <1>1, <1>2, <1>5, <2>1, PhaseStep DEF IInv, Phases
  <2>4. DataType'
    BY <1>1, <1>3, <2>1, ObserveType DEF IInv, DataType, Frames
  <2> QED
    BY <1>2, <2>2, <2>3, <2>4 DEF IInv
<1>6. CASE phase[r] = "tail"
  <2>1. pending' = [pending EXCEPT ![r] = <<>>] /\ Release(r, "done") /\ UNCHANGED metrics
    BY <1>6 DEF Send
  <2>2. SlotInv'
    BY <1>1, <1>2, <1>6, <2>1, SlotReleased DEF IInv, Release, Phases, HoldPhases
  <2>3. PhaseOwned'
    BY <1>1, <1>2, <1>6, <2>1, PhaseStep DEF IInv, Release, Phases
  <2>4. DataType'
    BY <1>1, <1>3, <2>1 DEF IInv, DataType, Release
  <2> QED
    BY <1>2, <2>2, <2>3, <2>4 DEF IInv
<1> QED
  BY <1>1, <1>4, <1>5, <1>6

\* A timeout, or a client that leaves, at an await inside the generator.
LEMMA InterruptKeeps ==
  ASSUME NEW r \in Reqs, NEW answer \in {"504", "gone"}, IInv, Interrupt(r, answer)
  PROVE  IInv'
<1>1. /\ phase \in [Reqs -> Phases] /\ phase[r] = "serving" /\ aborted \subseteq Reqs
      /\ BackendInv /\ BackendType
  BY DEF IInv, SlotInv, SlotType, Interrupt, BackendInv, BackendType
<1>2. /\ CloseGenerator(r) /\ AbortEngine(r) /\ aborted' = FlagsAborted(FlagsClosed(r), r)
      /\ Release(r, answer) /\ UNCHANGED <<kind, mode, limit, line, pending, sent, acc, metrics>>
  BY DEF Interrupt
<1>3. EngineType' /\ aborted' \subseteq Reqs
  BY <1>1, <1>2, AbortType, FlagsType
<1>4. BackendInv' /\ ~Live(r)' /\ \A q \in Reqs \ {r} : Live(q)' <=> Live(q)
  BY <1>1, <1>2, <1>3, CloseKeeps
<1>5. SlotInv'
  BY <1>1, <1>2, SlotReleased DEF IInv, Release, Phases, HoldPhases
<1>6. PhaseOwned'
  BY <1>1, <1>2, <1>4, PhaseStep DEF IInv, Release, Phases
<1>7. DataType'
  BY <1>2 DEF IInv, DataType, Release
<1> QED
  BY <1>4, <1>5, <1>6, <1>7 DEF IInv

\* A client leaves.
LEMMA DisconnectKeeps ==
  ASSUME NEW r \in Reqs, IInv, Disconnect(r)
  PROVE  IInv'
<1>1. phase \in [Reqs -> Phases] /\ PhaseOwned
  BY DEF IInv, SlotInv, SlotType
<1>2. CASE Interrupt(r, "gone")
  BY <1>2, InterruptKeeps
<1>3. CASE /\ phase[r] = "queued"
           /\ \E i \in DOMAIN line : line[i] = r /\ line' = RemoveAt(line, i)
           /\ phase' = [phase EXCEPT ![r] = "ended"]
           /\ reply' = [reply EXCEPT ![r] = "gone"]
           /\ UNCHANGED <<backendVars, limit, mode, permits, pending, sent, acc, metrics>>
  <2>1. /\ BackendInv' /\ kind' = kind
        /\ \A q \in Reqs : Live(q)' <=> Live(q)
    BY <1>3, BackendUnchanged DEF IInv, backendVars
  <2>2. SlotInv'
    BY <1>3, <2>1, SlotLeft DEF IInv
  <2>3. ~Live(r)
    BY <1>1, <1>3 DEF PhaseOwned
  <2>4. PhaseOwned'
    BY <1>1, <1>3, <2>1, <2>3, PhaseStep DEF Phases
  <2>5. DataType'
    BY <1>3 DEF IInv, DataType
  <2> QED
    BY <2>1, <2>2, <2>4, <2>5 DEF IInv
<1>4. CASE /\ phase[r] \in {"serving", "failing", "tail"} /\ pending[r] # <<>>
           /\ phase' = [phase EXCEPT ![r] = "left"]
           /\ UNCHANGED <<backendVars, mode, limit, line, permits, pending, sent, acc, reply, metrics>>
  <2>1. /\ BackendInv' /\ kind' = kind
        /\ \A q \in Reqs : Live(q)' <=> Live(q)
    BY <1>4, BackendUnchanged DEF IInv, backendVars
  <2>2. SlotInv'
    BY <1>4, <2>1, SlotKept DEF IInv, Phases, HoldPhases
  <2>3. PhaseOwned'
    BY <1>1, <1>4, <2>1, PhaseStep DEF Phases
  <2>4. DataType'
    BY <1>4 DEF IInv, DataType
  <2> QED
    BY <2>1, <2>2, <2>3, <2>4 DEF IInv
<1> QED
  BY <1>2, <1>3, <1>4 DEF Disconnect

\* The two closes by the event loop after a client left during a send.
LEMMA CloseBodyKeeps ==
  ASSUME NEW r \in Reqs, IInv, CloseBody(r)
  PROVE  IInv'
<1>1. phase \in [Reqs -> Phases] /\ PhaseOwned
  BY DEF IInv, SlotInv, SlotType
<1>2. /\ BackendInv' /\ kind' = kind
      /\ \A q \in Reqs : Live(q)' <=> Live(q)
  BY BackendUnchanged DEF IInv, CloseBody, backendVars
<1>3. SlotInv'
  BY <1>2, SlotReleased DEF IInv, CloseBody, Phases, HoldPhases
<1>4. PhaseOwned'
  BY <1>1, <1>2, PhaseStep DEF CloseBody, Phases
<1>5. DataType'
  BY DEF IInv, DataType, CloseBody
<1> QED
  BY <1>2, <1>3, <1>4, <1>5 DEF IInv

\* The event loop closes an abandoned generator.
LEMMA CloseStreamKeeps ==
  ASSUME NEW r \in Reqs, IInv, CloseStream(r)
  PROVE  IInv'
<1>1. /\ phase \in [Reqs -> Phases] /\ phase[r] = "closing" /\ PhaseOwned
      /\ BackendInv /\ BackendType
  BY DEF IInv, SlotInv, SlotType, CloseStream, BackendInv
<1>2. EngineType' /\ aborted' \subseteq Reqs
  BY <1>1, FlagsType DEF CloseStream, BackendType, EngineType
<1>3. BackendInv' /\ ~Live(r)' /\ \A q \in Reqs \ {r} : Live(q)' <=> Live(q)
  BY <1>1, <1>2, CloseKeeps DEF CloseStream
<1>4. SlotInv'
  BY <1>1, SlotKept DEF IInv, CloseStream, Phases, HoldPhases
<1>5. PhaseOwned'
  BY <1>1, <1>3, PhaseStep DEF CloseStream, Phases
<1>6. DataType'
  BY DEF IInv, DataType, CloseStream
<1> QED
  BY <1>3, <1>4, <1>5, <1>6 DEF IInv

\* abort() is called.
LEMMA AbortCallKeeps ==
  ASSUME NEW r \in Reqs, IInv, AbortCall(r)
  PROVE  IInv'
<1>1. BackendInv /\ BackendType /\ UNCHANGED <<kind, gen, active, stream, httpVars>>
  BY DEF IInv, AbortCall, BackendInv
<1>2. EngineType' /\ aborted' \subseteq Reqs
  BY <1>1, AbortType, FlagsType DEF AbortCall, BackendType
<1>3. BackendInv' /\ \A q \in Reqs : Live(q)' <=> Live(q)
  BY <1>1, <1>2, SameBackend
<1>4. SlotInv' /\ PhaseOwned' /\ DataType'
  BY <1>1, <1>3
  DEF IInv, SlotInv, SlotType, SlotsExact, Holders, PhaseOwned, DataType, httpVars
<1> QED
  BY <1>3, <1>4 DEF IInv

\* Every step keeps the invariant.
LEMMA NextIInv == IInv /\ [Next]_vars => IInv'
<1> SUFFICES ASSUME IInv, [Next]_vars PROVE IInv'
  OBVIOUS
<1>1. CASE UNCHANGED vars
  <2>1. BackendInv' /\ \A q \in Reqs : Live(q)' <=> Live(q)
    BY <1>1, BackendUnchanged DEF vars, IInv
  <2>2. SlotInv' /\ PhaseOwned' /\ DataType'
    BY <1>1, <2>1
    DEF IInv, SlotInv, SlotType, SlotsExact, Holders, PhaseOwned, DataType, vars, httpVars, backendVars
  <2> QED
    BY <2>1, <2>2 DEF IInv
<1>2. ASSUME NEW r \in Reqs, NEW m \in {"collect", "stream", "chat"}, Arrive(r, m)
      PROVE  IInv'
  BY <1>2, ArriveKeeps
<1>3. ASSUME NEW r \in Reqs, Reject(r)
      PROVE  IInv'
  BY <1>3, RejectKeeps
<1>4. ASSUME NEW r \in Reqs, Handle(r)
      PROVE  IInv'
  BY <1>4, AcquireKeeps, AdvanceKeeps, SendKeeps, CloseBodyKeeps, CloseStreamKeeps DEF Handle
<1>5. ASSUME NEW r \in Reqs, Timeout(r) \/ Disconnect(r)
      PROVE  IInv'
  BY <1>5, InterruptKeeps, DisconnectKeeps DEF Timeout
<1>6. ASSUME NEW r \in Reqs, AbortCall(r)
      PROVE  IInv'
  BY <1>6, AbortCallKeeps
<1> QED
  BY <1>1, <1>2, <1>3, <1>4, <1>5, <1>6 DEF Next

-----------------------------------------------------------------------------
(* Theorems *)

\* The invariant holds in every reachable state, for any number of requests, limit and
\* backend.
THEOREM Invariance == Spec => []IInv
BY InitIInv, NextIInv, PTL DEF Spec

\* The application, its semaphore, its metrics and its backend keep their types,
\* and no more chunks are counted than max_tokens allows.
THEOREM TypeCorrect == Spec => []TypeOK
<1>1. IInv => TypeOK
  BY DEF IInv, BackendInv, BackendType, SlotInv, SlotType, DataType, TypeOK, Generators, Phases
<1> QED
  BY <1>1, Invariance, PTL

\* _handle() gives back exactly the permits it takes, on every way out of a request
\* and for any number of them: at no moment more are served than the limit, and
\* the line holds each waiting request once.
THEOREM SlotsAlwaysExact == Spec => []SlotsExact
<1>1. IInv => SlotsExact
  BY DEF IInv, SlotInv
<1> QED
  BY <1>1, Invariance, PTL

\* What the mock and the Triton backend keep for a request goes when its generator
\* goes, and no generator survives its handler.
THEOREM BackendStateAlwaysExact == Spec => []BackendStateExact
<1>1. IInv => BackendStateExact
  BY DEF IInv, BackendInv, Owned, PhaseOwned, BackendStateExact
<1> QED
  BY <1>1, Invariance, PTL

-----------------------------------------------------------------------------
(* Streams *)

Text(r) == sent[r] \o pending[r]

Ends == {<<>>, <<"final">>, <<"error">>, <<"final", "done">>, <<"error", "done">>}

Complete == {<<"final", "done">>, <<"error", "done">>}

\* Frames f are k role frames, n text frames and the end.
Shaped(f, k, n, end) ==
  /\ f \in Seq(Frames) /\ Len(f) = k + n + Len(end)
  /\ \A i \in 1..Len(f) : f[i] = IF i <= k THEN "role"
                                 ELSE IF i <= k + n THEN "text" ELSE end[i - k - n]

Roles(r) == IF mode[r] = "chat" THEN 1 ELSE 0

\* How far the end of a stream is, given what its handler is doing.
EndsAt(r, end) ==
  /\ phase[r] \notin {"none", "queued"}
  /\ phase[r] = "serving" => end = IF gen[r].pc = "last" THEN <<"final">> ELSE <<>>
  /\ phase[r] = "failing" => end = <<"error">> /\ pending[r] = <<"error">>
  /\ phase[r] = "tail" => end \in Complete /\ pending[r] = <<"done">>
  /\ reply[r] = "done" => end \in Complete /\ pending[r] = <<>>

Streamed(r) == \E end \in Ends : Shaped(Text(r), Roles(r), acc[r].tokens, end) /\ EndsAt(r, end)

Collected(r) ==
  /\ sent[r] = <<>> /\ pending[r] = <<>> /\ reply[r] # "done"
  /\ phase[r] \in {"none", "queued", "serving", "ended"}

\* It left the line before it was served.
Unserved(r) ==
  /\ sent[r] = <<>> /\ pending[r] = <<>> /\ reply[r] # "done"
  /\ acc[r].tokens = 0 /\ phase[r] \in {"queued", "ended"}

AnswerInv(r) ==
  /\ phase[r] \notin {"closing", "ended"} => reply[r] = "none"
  /\ phase[r] = "closing" => reply[r] = "gone"
  /\ phase[r] \in {"none", "queued"} => acc[r].tokens = 0
  /\ phase[r] = "none" => ~Streaming(r)
  /\ acc[r].itls = IF acc[r].tokens = 0 THEN 0 ELSE acc[r].tokens - 1

StreamOK(r) ==
  /\ AnswerInv(r)
  /\ ~Streaming(r) => Collected(r)
  /\ Streaming(r) => reply[r] # "200" /\ (Unserved(r) \/ Streamed(r))

StreamInv == \A r \in Reqs : StreamOK(r)

\* Only the generator that runs moves; one that yielded its final chunk can only end,
\* and a finish reason is what the final chunk carries.
LEMMA GenerateEvents ==
  ASSUME NEW r \in Reqs, NEW e, BackendInv, Generate(r, e)
  PROVE  /\ gen[r].pc = "last" <=> e = "end"
         /\ gen'[r].pc = "last" <=> e \in FinishReasons
         /\ \A q \in Reqs \ {r} : gen'[q] = gen[q]
<1> DEFINE Goal == /\ gen[r].pc = "last" <=> e = "end"
                   /\ gen'[r].pc = "last" <=> e \in FinishReasons
                   /\ \A q \in Reqs \ {r} : gen'[q] = gen[q]
<1>1. gen \in [Reqs -> Generators] /\ gen[r].fin \in FinishReasons
  BY DEF BackendInv, BackendType, Generators
<1>2. ASSUME NEW pc \in {"prefill", "await", "last", "dead"}, Suspend(r, pc),
             pc = "last" <=> e \in FinishReasons, gen[r].pc = "last" <=> e = "end"
      PROVE  Goal
  <2>1. gen'[r].pc = pc /\ \A q \in Reqs \ {r} : gen'[q] = gen[q]
    BY <1>1, <1>2 DEF Suspend, Generators
  <2> QED BY <1>2, <2>1
<1>3. ASSUME NEW reason \in FinishReasons, YieldFinal(r, e, reason), gen[r].pc # "last"
      PROVE  Goal
  BY <1>2, <1>3 DEF YieldFinal, FinishReasons
<1>4. ASSUME NEW new \in BOOLEAN, NEW fin, Deliver(r, e, new, fin), gen[r].pc # "last"
      PROVE  Goal
  <2>1. gen'[r].pc \in {"yielded", "await"} /\ \A q \in Reqs \ {r} : gen'[q] = gen[q]
    BY <1>1, <1>4 DEF Deliver
  <2>2. e \in {"text", "wait"}
    BY <1>4 DEF Deliver
  <2> QED BY <1>4, <2>1, <2>2 DEF FinishReasons
<1>5. "abort" \in FinishReasons /\ "stop" \in FinishReasons /\ "length" \in FinishReasons
      /\ "end" \notin FinishReasons /\ "wait" \notin FinishReasons /\ "raise" \notin FinishReasons
  BY DEF FinishReasons
<1>6. Begin(r, e) \/ Resume(r, e) => Goal
  BY <1>2, <1>5 DEF Begin, Resume, At
<1>7. ASSUME Raise(r, e), gen[r].pc # "last"
      PROVE  Goal
  BY <1>2, <1>5, <1>7 DEF Raise
<1> HIDE DEF Goal
<1>8. ASSUME MockRun(r, e) PROVE Goal
  <2>1. MockToken(r, e) /\ gen[r].pc # "last" => Goal
    BY <1>3, <1>4, <1>5 DEF MockToken
  <2> QED BY <1>2, <1>3, <1>5, <1>8, <2>1 DEF MockRun, At, Goal
<1>9. ASSUME VLLMRun(r, e) PROVE Goal
  BY <1>1, <1>3, <1>4, <1>6, <1>7, <1>9 DEF VLLMRun, At
<1>10. ASSUME TRTLLMRun(r, e) PROVE Goal
  BY <1>1, <1>3, <1>4, <1>5, <1>6, <1>7, <1>10 DEF TRTLLMRun, At
<1>11. ASSUME RayRun(r, e) PROVE Goal
  BY <1>1, <1>3, <1>4, <1>5, <1>6, <1>7, <1>11 DEF RayRun, At
<1>12. ASSUME TritonRun(r, e) PROVE Goal
  <2>1. TritonItem(r, e) /\ gen[r].pc # "last" => Goal
    <3>1. (IF r \in aborted THEN "abort" ELSE gen[r].fin) \in FinishReasons
      BY <1>1, <1>5
    <3> QED BY <1>3, <1>4, <1>5, <1>7, <3>1 DEF TritonItem
  <2> QED BY <1>6, <1>7, <1>12, <2>1 DEF TritonRun, At
<1>13. Goal
  BY <1>8, <1>9, <1>10, <1>11, <1>12 DEF Generate
<1> QED BY <1>13 DEF Goal

\* A stream grows by one text frame.
LEMMA ShapedText ==
  ASSUME NEW f, NEW k \in {0, 1}, NEW n \in Nat, Shaped(f, k, n, <<>>)
  PROVE  Shaped(Append(f, "text"), k, n + 1, <<>>)
<1> DEFINE g == Append(f, "text")
<1>1. f \in Seq(Frames) /\ Len(f) = k + n
      /\ \A i \in 1..Len(f) : f[i] = IF i <= k THEN "role" ELSE "text"
  BY DEF Shaped
<1>2. g \in Seq(Frames) /\ Len(g) = Len(f) + 1 /\ g[Len(f) + 1] = "text"
      /\ \A i \in 1..Len(f) : g[i] = f[i]
  BY <1>1 DEF Frames
<1> HIDE DEF g
<1>3. ASSUME NEW i \in 1..Len(g)
      PROVE  g[i] = IF i <= k THEN "role" ELSE IF i <= k + (n + 1) THEN "text" ELSE <<>>[i - k - (n + 1)]
  <2>1. CASE i \in 1..Len(f)
    BY <1>1, <1>2, <2>1
  <2>2. CASE i = Len(f) + 1
    BY <1>1, <1>2, <2>2
  <2> QED BY <1>1, <1>2, <2>1, <2>2
<1>4. Len(g) = k + (n + 1) + Len(<<>>)
  BY <1>1, <1>2
<1>5. Shaped(g, k, n + 1, <<>>)
  BY <1>2, <1>3, <1>4 DEF Shaped
<1> QED BY <1>5 DEF g

\* A stream grows by one frame of its end.
LEMMA ShapedEnd ==
  ASSUME NEW f, NEW k \in {0, 1}, NEW n \in Nat, NEW end \in Seq(Frames), NEW x \in Frames,
         Shaped(f, k, n, end)
  PROVE  Shaped(Append(f, x), k, n, Append(end, x))
<1> DEFINE g == Append(f, x)
           long == Append(end, x)
<1>1. f \in Seq(Frames) /\ Len(f) = k + n + Len(end) /\ Len(end) \in Nat
      /\ \A i \in 1..Len(f) : f[i] = IF i <= k THEN "role"
                                     ELSE IF i <= k + n THEN "text" ELSE end[i - k - n]
  BY DEF Shaped
<1>2. g \in Seq(Frames) /\ Len(g) = Len(f) + 1 /\ g[Len(f) + 1] = x
      /\ \A i \in 1..Len(f) : g[i] = f[i]
  BY <1>1
<1>3. Len(long) = Len(end) + 1 /\ long[Len(end) + 1] = x
      /\ \A i \in 1..Len(end) : long[i] = end[i]
  OBVIOUS
<1> HIDE DEF g, long
<1>4. ASSUME NEW i \in 1..Len(g)
      PROVE  g[i] = IF i <= k THEN "role" ELSE IF i <= k + n THEN "text" ELSE long[i - k - n]
  <2>1. CASE i \in 1..Len(f) /\ i <= k + n
    BY <1>1, <1>2, <2>1
  <2>2. CASE i \in 1..Len(f) /\ ~(i <= k + n)
    <3>1. i - k - n \in 1..Len(end) /\ ~(i <= k)
      BY <1>1, <2>2
    <3>2. g[i] = end[i - k - n]
      BY <1>1, <1>2, <2>2, <3>1
    <3> QED BY <1>3, <2>2, <3>1, <3>2
  <2>3. CASE i = Len(f) + 1
    <3>1. i - k - n = Len(end) + 1 /\ ~(i <= k + n) /\ ~(i <= k)
      BY <1>1, <2>3
    <3> QED BY <1>2, <1>3, <2>3, <3>1
  <2> QED BY <1>1, <1>2, <2>1, <2>2, <2>3
<1>5. Len(g) = k + n + Len(long)
  BY <1>1, <1>2, <1>3
<1>6. Shaped(g, k, n, long)
  BY <1>2, <1>4, <1>5 DEF Shaped
<1> QED BY <1>6 DEF g, long

\* One request moves.
OnlyMoves(r) ==
  \A q \in Reqs \ {r} :
    /\ phase'[q] = phase[q] /\ mode'[q] = mode[q] /\ pending'[q] = pending[q]
    /\ sent'[q] = sent[q] /\ acc'[q] = acc[q] /\ reply'[q] = reply[q] /\ gen'[q].pc = gen[q].pc

\* What is said of the stream of a request that does not move stays true.
LEMMA StreamStays ==
  ASSUME NEW q \in Reqs, StreamOK(q),
         phase'[q] = phase[q], mode'[q] = mode[q], pending'[q] = pending[q],
         sent'[q] = sent[q], acc'[q] = acc[q], reply'[q] = reply[q], gen'[q].pc = gen[q].pc
  PROVE  StreamOK(q)'
<1>1. Text(q)' = Text(q) /\ Roles(q)' = Roles(q) /\ (Streaming(q)' <=> Streaming(q))
  BY DEF Text, Roles, Streaming
<1>2. AnswerInv(q)' /\ (Collected(q) => Collected(q)') /\ (Unserved(q) => Unserved(q)')
  BY <1>1 DEF StreamOK, AnswerInv, Collected, Unserved
<1>3. \A end : EndsAt(q, end) => EndsAt(q, end)'
  BY DEF EndsAt
<1>4. Streamed(q) => Streamed(q)'
  BY <1>1, <1>3 DEF Streamed
<1> QED BY <1>1, <1>2, <1>4 DEF StreamOK

\* It is enough to look at the request that moves.
LEMMA StreamStep ==
  ASSUME NEW r \in Reqs, StreamInv, OnlyMoves(r), StreamOK(r)'
  PROVE  StreamInv'
BY StreamStays DEF StreamInv, OnlyMoves

\* The frames of a request, as a sequence.
LEMMA TextType ==
  ASSUME DataType, NEW r \in Reqs
  PROVE  /\ sent[r] \in Seq(Frames) /\ pending[r] \in Seq(Frames) /\ Text(r) \in Seq(Frames)
         /\ acc[r].tokens \in Nat /\ Roles(r) \in {0, 1}
         /\ pending[r] = <<>> => Text(r) = sent[r]
         /\ \A x \in Frames : pending[r] = <<x>> => Text(r) = Append(sent[r], x)
<1>1. pending[r] = <<>> \/ \E f \in Frames : pending[r] = <<f>>
  BY DEF DataType
<1>2. <<>> \in Seq(Frames) /\ \A f \in Frames : <<f>> \in Seq(Frames)
  OBVIOUS
<1>3. pending[r] \in Seq(Frames)
  BY <1>1, <1>2
<1>4. sent[r] \in Seq(Frames)
  BY DEF DataType
<1>5. \A s \in Seq(Frames) : s \o <<>> = s /\ \A x \in Frames : s \o <<x>> = Append(s, x)
  OBVIOUS
<1>6. acc[r].tokens \in Nat /\ Roles(r) \in {0, 1}
  BY DEF DataType, Roles
<1>7. Text(r) \in Seq(Frames)
  BY <1>3, <1>4 DEF Text
<1>8. pending[r] = <<>> => Text(r) = sent[r]
  BY <1>4, <1>5 DEF Text
<1>9. \A x \in Frames : pending[r] = <<x>> => Text(r) = Append(sent[r], x)
  BY <1>4, <1>5 DEF Text
<1> QED BY <1>3, <1>4, <1>6, <1>7, <1>8, <1>9

\* A frame is handed to the transport.
LEMMA TextGrows ==
  ASSUME DataType, NEW r \in Reqs, NEW x \in Frames,
         pending[r] = <<>>, pending'[r] = <<x>>, sent'[r] = sent[r]
  PROVE  Text(r)' = Append(Text(r), x)
<1>1. Text(r) = sent[r] /\ sent[r] \in Seq(Frames)
  BY TextType
<1>2. Text(r)' = sent[r] \o <<x>>
  BY DEF Text
<1>3. sent[r] \o <<x>> = Append(sent[r], x)
  BY <1>1
<1> QED BY <1>1, <1>2, <1>3

\* A generator is closed: at most its own position changes.
LEMMA ClosedGenerator ==
  ASSUME NEW r \in Reqs, BackendInv, CloseGenerator(r)
  PROVE  \A q \in Reqs \ {r} : gen'[q].pc = gen[q].pc
BY DEF CloseGenerator, BackendInv, BackendType

\* Every action is about one request.
LEMMA MovesOne ==
  ASSUME NEW r \in Reqs, IInv,
         \/ Reject(r) \/ (\E m : Arrive(r, m)) \/ Handle(r)
         \/ (\E answer : Interrupt(r, answer)) \/ Disconnect(r)
  PROVE  OnlyMoves(r)
<1> USE DEF OnlyMoves, IInv, SlotInv, SlotType, DataType
<1>1. CASE Reject(r)
  BY <1>1 DEF Reject, backendVars
<1>2. CASE \E m : Arrive(r, m)
  BY <1>2 DEF Arrive, backendVars
<1>3. CASE Acquire(r)
  BY <1>3 DEF Acquire, backendVars
<1>4. CASE Advance(r)
  <2>1. PICK e : /\ Generate(r, e)
                 /\ \/ e = "wait" /\ UNCHANGED <<phase, permits, pending, acc, reply, metrics>>
                    \/ ConsumeChunk(r, e) \/ ConsumeError(r, e) \/ ConsumeEnd(r, e)
    BY <1>4 DEF Advance
  <2>2. \A q \in Reqs \ {r} : gen'[q] = gen[q]
    BY <2>1, GenerateEvents
  <2> QED BY <1>4, <2>1, <2>2 DEF Advance, ConsumeChunk, ConsumeError, ConsumeEnd, Release
<1>5. CASE Send(r)
  BY <1>5 DEF Send, Release, backendVars
<1>6. CASE CloseBody(r)
  BY <1>6 DEF CloseBody, backendVars
<1>7. CASE CloseStream(r)
  BY <1>7, ClosedGenerator DEF CloseStream
<1>8. ASSUME NEW answer, Interrupt(r, answer) PROVE OnlyMoves(r)
  BY <1>8, ClosedGenerator DEF Interrupt, Release
<1>9. CASE Disconnect(r)
  <2>1. CASE Interrupt(r, "gone")
    BY <1>8, <2>1
  <2>2. CASE ~Interrupt(r, "gone")
    BY <1>9, <2>2 DEF Disconnect, backendVars
  <2> QED BY <2>1, <2>2
<1> QED BY <1>1, <1>2, <1>3, <1>4, <1>5, <1>6, <1>7, <1>8, <1>9 DEF Handle

\* A request is rejected.
LEMMA RejectStream ==
  ASSUME NEW r \in Reqs, IInv, StreamInv, Reject(r)
  PROVE  StreamInv'
<1>1. OnlyMoves(r)
  BY MovesOne
<1>2. /\ phase[r] = "none" /\ phase'[r] = "ended" /\ reply'[r] = "refused"
      /\ UNCHANGED <<mode, pending, sent, acc>>
  BY DEF IInv, SlotInv, SlotType, DataType, Reject, IsNext
<1>3. StreamOK(r)'
  BY <1>2 DEF StreamInv, StreamOK, AnswerInv, Collected, Streaming
<1> QED BY <1>1, <1>3, StreamStep

\* A request arrives.
LEMMA ArriveStream ==
  ASSUME NEW r \in Reqs, NEW m, IInv, StreamInv, Arrive(r, m)
  PROVE  StreamInv'
<1>1. OnlyMoves(r)
  BY MovesOne
<1>2. /\ phase[r] = "none" /\ phase'[r] = "queued"
      /\ UNCHANGED <<pending, sent, acc, reply>>
  BY DEF IInv, SlotInv, SlotType, DataType, Arrive, IsNext
<1>3. StreamOK(r)'
  BY <1>2 DEF StreamInv, StreamOK, AnswerInv, Collected, Unserved, Streaming
<1> QED BY <1>1, <1>3, StreamStep

\* A queued request gets its slot, and the role frame of a chat is ready.
LEMMA AcquireStream ==
  ASSUME NEW r \in Reqs, IInv, StreamInv, Acquire(r)
  PROVE  StreamInv'
<1>1. OnlyMoves(r)
  BY MovesOne DEF Handle
<1>2. /\ phase[r] = "queued" /\ phase'[r] = "serving"
      /\ pending'[r] = (IF mode[r] = "chat" THEN <<"role">> ELSE <<>>)
      /\ UNCHANGED <<gen, mode, sent, acc, reply>> /\ gen[r].pc # "last"
  <2>1. line \in Seq(Reqs) /\ line # <<>> /\ r = Head(line) /\ phase \in [Reqs -> Phases]
    BY DEF IInv, SlotInv, SlotType, Acquire
  <2>2. r = line[1] /\ 1 \in DOMAIN line
    BY <2>1
  <2>3. r \in Range(line)
    BY <2>2 DEF Range
  <2>4. phase[r] = "queued"
    BY <2>3 DEF IInv, SlotInv, SlotsExact
  <2>5. gen[r].pc # "last"
    BY <2>4 DEF IInv, PhaseOwned, Live
  <2> QED BY <2>1, <2>4, <2>5 DEF IInv, DataType, Acquire, backendVars
<1>3. sent[r] = <<>> /\ reply[r] = "none" /\ acc[r].tokens = 0 /\ AnswerInv(r)
  BY <1>2 DEF StreamInv, StreamOK, AnswerInv, Collected, Unserved, Streamed, EndsAt
<1>4. ASSUME mode[r] = "chat" PROVE Shaped(Text(r)', 1, 0, <<>>)
  <2>1. Text(r)' = <<"role">>
    BY <1>2, <1>3, <1>4 DEF Text
  <2> QED BY <2>1 DEF Shaped, Frames
<1>5. ASSUME mode[r] # "chat" PROVE Shaped(Text(r)', 0, 0, <<>>)
  <2>1. Text(r)' = <<>>
    BY <1>2, <1>3, <1>5 DEF Text
  <2> QED BY <2>1 DEF Shaped, Frames
<1>6. Shaped(Text(r)', Roles(r)', acc'[r].tokens, <<>>)
  BY <1>2, <1>3, <1>4, <1>5 DEF Roles
<1>7. EndsAt(r, <<>>)'
  BY <1>2, <1>3 DEF EndsAt
<1>8. Streamed(r)'
  BY <1>6, <1>7 DEF Streamed, Ends
<1>9. AnswerInv(r)' /\ (~Streaming(r) => Collected(r)') /\ (Streaming(r)' <=> Streaming(r))
  BY <1>2, <1>3 DEF AnswerInv, Collected, Streaming
<1>10. StreamOK(r)'
  BY <1>2, <1>3, <1>8, <1>9 DEF StreamOK
<1> QED BY <1>1, <1>10, StreamStep

\* A request that ends without another frame.
LEMMA StreamLeft ==
  ASSUME NEW r \in Reqs, StreamInv, OnlyMoves(r), UNCHANGED <<mode, pending, sent, acc>>,
         phase[r] # "none",
         \/ phase'[r] = "ended" /\ reply'[r] = "504" /\ phase[r] = "serving" /\ ~Streaming(r)
         \/ phase'[r] = "ended" /\ reply'[r] = "gone" /\ Streaming(r)
         \/ phase'[r] = "ended" /\ reply'[r] = reply[r] /\ phase[r] = "closing"
         \/ phase'[r] = "closing" /\ reply'[r] = "gone" /\ phase[r] = "left"
         \/ phase'[r] = "left" /\ reply'[r] = reply[r]
              /\ phase[r] \in {"serving", "failing", "tail"} /\ Streaming(r)
  PROVE  StreamInv'
<1>1. Text(r)' = Text(r) /\ Roles(r)' = Roles(r) /\ (Streaming(r)' <=> Streaming(r))
  BY DEF Text, Roles, Streaming
<1>2. StreamOK(r) /\ AnswerInv(r)
  BY DEF StreamInv, StreamOK
<1>3. AnswerInv(r)'
  BY <1>1, <1>2 DEF AnswerInv
<1>4. ~Streaming(r) => Collected(r)'
  BY <1>2 DEF StreamOK, Collected
<1>5. Unserved(r) => Unserved(r)'
  BY <1>2 DEF Unserved, AnswerInv
<1>6. \A end : EndsAt(r, end) => EndsAt(r, end)'
  BY <1>2 DEF EndsAt, AnswerInv
<1>7. Streamed(r) => Streamed(r)'
  BY <1>1, <1>6 DEF Streamed
<1>8. Streaming(r) => reply'[r] # "200"
  BY <1>2 DEF AnswerInv
<1>9. StreamOK(r)'
  BY <1>1, <1>2, <1>3, <1>4, <1>5, <1>7, <1>8 DEF StreamOK
<1> QED BY <1>9, StreamStep

\* A stream at its handler's await has its end after the final chunk only.
LEMMA StreamServed ==
  ASSUME NEW r \in Reqs, IInv, StreamInv, phase[r] \in {"serving", "failing", "tail"}, Streaming(r)
  PROVE  \E end \in Ends : /\ Shaped(Text(r), Roles(r), acc[r].tokens, end)
                           /\ EndsAt(r, end) /\ end \in Seq(Frames)
<1>1. Streamed(r)
  BY DEF StreamInv, StreamOK, Unserved
<1>2. ASSUME NEW end \in Ends PROVE end \in Seq(Frames)
  <2>1. <<>> \in Seq(Frames) /\ \A x, y \in Frames : <<x>> \in Seq(Frames) /\ <<x, y>> \in Seq(Frames)
    OBVIOUS
  <2>2. \/ end = <<>>
        \/ \E x, y \in Frames : end = <<x>> \/ end = <<x, y>>
    BY DEF Ends, Frames
  <2> QED BY <2>1, <2>2
<1> QED BY <1>1, <1>2 DEF Streamed

\* A text chunk adds a text frame to a stream.
LEMMA TextStream ==
  ASSUME NEW r \in Reqs, IInv, StreamInv, phase[r] = "serving", pending[r] = <<>>,
         DataType', OnlyMoves(r), ConsumeChunk(r, "text"), UNCHANGED <<mode, sent>>,
         gen[r].pc # "last", gen'[r].pc # "last"
  PROVE  StreamInv'
<1>1. /\ phase[r] = "serving" /\ UNCHANGED <<phase, reply>> /\ StreamOK(r) /\ AnswerInv(r)
      /\ acc[r].tokens \in Nat /\ acc[r].itls \in Nat
      /\ Streaming(r)' <=> Streaming(r)
  BY DEF ConsumeChunk, StreamInv, StreamOK, IInv, DataType, Streaming
<1>2. /\ acc'[r] = AccAdd(acc[r], "text")
      /\ pending'[r] = (IF Streaming(r) THEN <<"text">> ELSE <<>>)
  BY DEF ConsumeChunk, IInv, DataType
<1>3. /\ acc'[r].tokens = acc[r].tokens + 1
      /\ acc'[r].itls = IF acc[r].tokens = 0 THEN acc[r].itls ELSE acc[r].itls + 1
  <2>1. acc[r] \in [tokens : Nat, itls : Nat, finish : FinishReasons]
    BY DEF IInv, DataType
  <2> QED BY <1>2, <2>1 DEF AccAdd
<1>4. AnswerInv(r)'
  BY <1>1, <1>3 DEF AnswerInv
<1>5. ~Streaming(r) => Collected(r)'
  BY <1>1, <1>2 DEF StreamOK, Collected
<1>6. ASSUME Streaming(r) PROVE reply'[r] # "200" /\ Streamed(r)'
  <2>1. PICK end \in Ends : Shaped(Text(r), Roles(r), acc[r].tokens, end) /\ EndsAt(r, end)
    BY <1>6, StreamServed
  <2>2. end = <<>>
    BY <2>1 DEF EndsAt
  <2>3. Text(r)' = Append(Text(r), "text") /\ Roles(r)' = Roles(r)
    BY <1>2, <1>6, TextGrows DEF Roles, Frames, IInv
  <2>4. Shaped(Text(r)', Roles(r)', acc'[r].tokens, <<>>)
    BY <1>1, <1>3, <2>1, <2>2, <2>3, ShapedText DEF Roles
  <2>5. EndsAt(r, <<>>)'
    BY <1>1 DEF EndsAt, AnswerInv
  <2>6. reply'[r] # "200"
    BY <1>1, <1>6 DEF StreamOK
  <2> QED BY <2>4, <2>5, <2>6 DEF Streamed, Ends
<1>7. StreamOK(r)'
  BY <1>1, <1>4, <1>5, <1>6 DEF StreamOK
<1> QED BY <1>7, StreamStep

\* Frames at the start of a sequence.
LEMMA ShortAppends ==
  \A x, y \in Frames : Append(<<>>, x) = <<x>> /\ Append(<<x>>, y) = <<x, y>>
<1> SUFFICES ASSUME NEW x \in Frames, NEW y \in Frames
    PROVE  Append(<<>>, x) = <<x>> /\ Append(<<x>>, y) = <<x, y>>
  OBVIOUS
<1>1. Append(<<>>, x) = <<x>>
  OBVIOUS
<1>2. Append(<<x>>, y) = <<x, y>>
  <2> DEFINE s == Append(<<x>>, y)
             t == <<x, y>>
  <2>1. <<x>> \in Seq(Frames) /\ Len(<<x>>) = 1 /\ <<x>>[1] = x
    OBVIOUS
  <2>2. s \in Seq(Frames) /\ Len(s) = 2 /\ s[1] = x /\ s[2] = y
    BY <2>1
  <2>3. t \in Seq(Frames) /\ Len(t) = 2 /\ t[1] = x /\ t[2] = y
    OBVIOUS
  <2> HIDE DEF s, t
  <2>4. s = [i \in 1..2 |-> s[i]] /\ t = [i \in 1..2 |-> t[i]]
    BY <2>2, <2>3
  <2>5. \A i \in 1..2 : s[i] = t[i]
    BY <2>2, <2>3
  <2>6. s = t
    BY <2>4, <2>5
  <2> QED BY <2>6 DEF s, t
<1> QED BY <1>1, <1>2

\* A frame of the end is handed to the transport.
LEMMA EndGrows ==
  ASSUME NEW r \in Reqs, IInv, StreamInv, phase[r] = "serving", pending[r] = <<>>, Streaming(r),
         NEW x \in Frames, pending'[r] = <<x>>, UNCHANGED <<mode, sent, reply>>,
         acc'[r].tokens = acc[r].tokens, acc'[r].itls = acc[r].itls,
         \/ x = "final" /\ gen[r].pc # "last" /\ gen'[r].pc = "last" /\ phase'[r] = "serving"
         \/ x = "error" /\ gen[r].pc # "last" /\ phase'[r] = "failing"
         \/ x = "done" /\ gen[r].pc = "last" /\ phase'[r] = "tail"
  PROVE  StreamOK(r)'
<1>1. StreamOK(r) /\ AnswerInv(r) /\ reply[r] = "none" /\ acc[r].tokens \in Nat
      /\ Streaming(r)' /\ Roles(r) \in {0, 1} /\ Roles(r)' = Roles(r)
  BY DEF StreamInv, StreamOK, AnswerInv, IInv, DataType, Streaming, Roles
<1>2. PICK end \in Ends : /\ Shaped(Text(r), Roles(r), acc[r].tokens, end)
                          /\ EndsAt(r, end) /\ end \in Seq(Frames)
  BY StreamServed
<1>3. Text(r)' = Append(Text(r), x)
  BY TextGrows DEF IInv
<1>4. Shaped(Text(r)', Roles(r)', acc'[r].tokens, Append(end, x))
  BY <1>1, <1>2, <1>3, ShapedEnd
<1>5. end = IF gen[r].pc = "last" THEN <<"final">> ELSE <<>>
  BY <1>2 DEF EndsAt
<1>6. Append(end, x) = IF x = "done" THEN <<"final", "done">> ELSE <<x>>
  <2>1. Append(<<>>, x) = <<x>> /\ Append(<<"final">>, "done") = <<"final", "done">>
    BY ShortAppends DEF Frames
  <2>2. CASE x = "done"
    BY <1>5, <2>1, <2>2
  <2>3. CASE x # "done"
    BY <1>5, <2>1, <2>3
  <2> QED BY <2>2, <2>3
<1>7. Append(end, x) \in Ends
  BY <1>6 DEF Ends
<1>8. EndsAt(r, Append(end, x))'
  BY <1>1, <1>6 DEF EndsAt, Complete
<1>9. Streamed(r)'
  BY <1>4, <1>7, <1>8 DEF Streamed
<1>10. AnswerInv(r)'
  BY <1>1 DEF AnswerInv
<1> QED BY <1>1, <1>9, <1>10 DEF StreamOK

\* A step of the generator, with what its consumer does about it.
LEMMA AdvanceStream ==
  ASSUME NEW r \in Reqs, IInv, StreamInv, Advance(r)
  PROVE  StreamInv'
<1>1. /\ phase[r] = "serving" /\ pending[r] = <<>> /\ UNCHANGED <<mode, limit, line, sent>>
      /\ StreamOK(r) /\ AnswerInv(r) /\ DataType /\ phase \in [Reqs -> Phases]
      /\ Streaming(r)' <=> Streaming(r)
  BY DEF Advance, StreamInv, StreamOK, IInv, SlotInv, SlotType, Streaming
<1>2. PICK e \in {"wait", "text", "raise", "end"} \cup FinishReasons :
        /\ Generate(r, e)
        /\ \/ e = "wait" /\ UNCHANGED <<phase, permits, pending, acc, reply, metrics>>
           \/ ConsumeChunk(r, e) \/ ConsumeError(r, e) \/ ConsumeEnd(r, e)
  BY DEF Advance
<1>3. /\ gen[r].pc = "last" <=> e = "end"
      /\ gen'[r].pc = "last" <=> e \in FinishReasons
  BY <1>2, GenerateEvents DEF IInv
<1>4. OnlyMoves(r)
  BY MovesOne DEF Handle
<1>5. CASE e = "wait" /\ UNCHANGED <<phase, permits, pending, acc, reply, metrics>>
  <2>1. gen[r].pc # "last" /\ gen'[r].pc # "last"
    BY <1>3, <1>5 DEF FinishReasons
  <2>2. Text(r)' = Text(r) /\ Roles(r)' = Roles(r)
    BY <1>1, <1>5 DEF Text, Roles
  <2>3. AnswerInv(r)' /\ (~Streaming(r) => Collected(r)') /\ (Streaming(r) => ~Unserved(r))
    BY <1>1, <1>5 DEF AnswerInv, StreamOK, Collected, Unserved, Streaming
  <2>4. \A end : EndsAt(r, end) => EndsAt(r, end)'
    BY <1>5, <2>1 DEF EndsAt
  <2>5. Streamed(r) => Streamed(r)'
    BY <1>5, <2>2, <2>4 DEF Streamed
  <2>6. StreamOK(r)'
    BY <1>1, <1>5, <2>3, <2>5 DEF StreamOK
  <2> QED BY <1>4, <2>6, StreamStep
<1>6. CASE ConsumeChunk(r, e)
  <2>1. CASE e = "text"
    <3>1. gen[r].pc # "last" /\ gen'[r].pc # "last"
      BY <1>3, <2>1 DEF FinishReasons
    <3>2. DataType'
      BY AdvanceKeeps DEF IInv
    <3> QED BY <1>1, <1>4, <1>6, <2>1, <3>1, <3>2, TextStream
  <2>2. CASE e \in FinishReasons
    <3>1. gen[r].pc # "last" /\ gen'[r].pc = "last" /\ e # "text"
      BY <1>3, <2>2 DEF FinishReasons
    <3>2. /\ UNCHANGED <<phase, reply>> /\ pending'[r] = (IF Streaming(r) THEN <<"final">> ELSE <<>>)
          /\ acc'[r].tokens = acc[r].tokens /\ acc'[r].itls = acc[r].itls
      BY <1>1, <1>6, <3>1 DEF ConsumeChunk, AccAdd, DataType
    <3>3. CASE Streaming(r)
      BY <1>1, <1>4, <3>1, <3>2, <3>3, EndGrows, StreamStep DEF Frames
    <3>4. CASE ~Streaming(r)
      <4>1. StreamOK(r)'
        BY <1>1, <3>2, <3>4 DEF StreamOK, AnswerInv, Collected
      <4> QED BY <1>4, <4>1, StreamStep
    <3> QED BY <3>3, <3>4
  <2> QED BY <1>6, <2>1, <2>2 DEF ConsumeChunk
<1>7. CASE ConsumeError(r, e)
  <2>1. gen[r].pc # "last" /\ UNCHANGED acc
    BY <1>3, <1>7 DEF ConsumeError
  <2>2. CASE Streaming(r)
    <3>1. pending'[r] = <<"error">> /\ phase'[r] = "failing" /\ UNCHANGED reply
      BY <1>1, <1>7, <2>2 DEF ConsumeError, DataType
    <3> QED BY <1>1, <1>4, <2>1, <2>2, <3>1, EndGrows, StreamStep DEF Frames
  <2>3. CASE ~Streaming(r)
    <3>1. phase'[r] = "ended" /\ reply'[r] = "500" /\ UNCHANGED pending
      BY <1>1, <1>7, <2>3 DEF ConsumeError, Release, DataType
    <3>2. StreamOK(r)'
      BY <1>1, <2>1, <2>3, <3>1 DEF StreamOK, AnswerInv, Collected
    <3> QED BY <1>4, <3>2, StreamStep
  <2> QED BY <2>2, <2>3
<1>8. CASE ConsumeEnd(r, e)
  <2>1. gen[r].pc = "last" /\ UNCHANGED acc
    BY <1>3, <1>8 DEF ConsumeEnd
  <2>2. CASE Streaming(r)
    <3>1. pending'[r] = <<"done">> /\ phase'[r] = "tail" /\ UNCHANGED reply
      BY <1>1, <1>8, <2>2 DEF ConsumeEnd, DataType
    <3> QED BY <1>1, <1>4, <2>1, <2>2, <3>1, EndGrows, StreamStep DEF Frames
  <2>3. CASE ~Streaming(r)
    <3>1. phase'[r] = "ended" /\ reply'[r] = "200" /\ UNCHANGED pending
      BY <1>1, <1>8, <2>3 DEF ConsumeEnd, Release, DataType
    <3>2. StreamOK(r)'
      BY <1>1, <2>1, <2>3, <3>1 DEF StreamOK, AnswerInv, Collected
    <3> QED BY <1>4, <3>2, StreamStep
  <2> QED BY <2>2, <2>3
<1> QED BY <1>2, <1>5, <1>6, <1>7, <1>8

\* A frame is sent.
LEMMA SendStream ==
  ASSUME NEW r \in Reqs, IInv, StreamInv, Send(r)
  PROVE  StreamInv'
<1>1. /\ phase[r] \in {"serving", "failing", "tail"} /\ pending[r] # <<>>
      /\ UNCHANGED <<gen, mode, acc>> /\ sent'[r] = sent[r] \o pending[r]
      /\ DataType /\ phase \in [Reqs -> Phases] /\ StreamOK(r) /\ AnswerInv(r)
      /\ Roles(r)' = Roles(r) /\ (Streaming(r)' <=> Streaming(r)) /\ acc[r].tokens \in Nat
      /\ Roles(r) \in {0, 1} /\ reply[r] = "none"
  BY DEF Send, backendVars, IInv, SlotInv, SlotType, DataType, StreamInv, StreamOK, AnswerInv,
         Roles, Streaming
<1>2. OnlyMoves(r)
  BY MovesOne DEF Handle
<1>3. Streaming(r)
  BY <1>1 DEF StreamOK, Collected
<1>4. PICK end \in Ends : /\ Shaped(Text(r), Roles(r), acc[r].tokens, end)
                          /\ EndsAt(r, end) /\ end \in Seq(Frames)
  BY <1>1, <1>3, StreamServed
<1>5. Text(r) \in Seq(Frames) /\ sent'[r] = Text(r)
  BY <1>1, TextType DEF Text
<1>6. pending'[r] = <<>> => Text(r)' = Text(r)
  BY <1>5 DEF Text
<1>7. pending'[r] = <<"done">> => Text(r)' = Append(Text(r), "done")
  <2>1. Text(r) \o <<"done">> = Append(Text(r), "done")
    BY <1>5 DEF Frames
  <2>2. Text(r)' = Text(r) \o pending'[r]
    BY <1>5 DEF Text
  <2> QED BY <2>1, <2>2
<1>8. CASE phase[r] = "serving"
  <2>1. UNCHANGED <<phase, reply>> /\ pending'[r] = <<>>
    BY <1>1, <1>8 DEF Send, DataType
  <2>2. EndsAt(r, end)'
    BY <1>1, <1>4, <1>8, <2>1 DEF EndsAt
  <2>3. Streamed(r)' /\ AnswerInv(r)'
    BY <1>1, <1>4, <1>6, <2>1, <2>2 DEF Streamed, AnswerInv
  <2>4. StreamOK(r)'
    BY <1>1, <1>3, <2>1, <2>3 DEF StreamOK
  <2> QED BY <1>2, <2>4, StreamStep
<1>9. CASE phase[r] = "failing"
  <2>1. phase'[r] = "tail" /\ UNCHANGED reply /\ pending'[r] = <<"done">>
    BY <1>1, <1>9 DEF Send, DataType
  <2>2. end = <<"error">> /\ Append(end, "done") = <<"error", "done">>
    BY <1>4, <1>9, ShortAppends DEF EndsAt, Frames
  <2>3. Shaped(Text(r)', Roles(r)', acc'[r].tokens, <<"error", "done">>)
    <3>1. "done" \in Frames
      BY DEF Frames
    <3>2. Shaped(Append(Text(r), "done"), Roles(r), acc[r].tokens, Append(end, "done"))
      BY <1>1, <1>4, <3>1, ShapedEnd
    <3> QED BY <1>1, <1>7, <2>1, <2>2, <3>2
  <2>4. EndsAt(r, <<"error", "done">>)'
    BY <1>1, <2>1 DEF EndsAt, Complete
  <2>5. Streamed(r)' /\ AnswerInv(r)'
    BY <1>1, <2>1, <2>3, <2>4 DEF Streamed, AnswerInv, Ends
  <2>6. StreamOK(r)'
    BY <1>1, <1>3, <2>1, <2>5 DEF StreamOK
  <2> QED BY <1>2, <2>6, StreamStep
<1>10. CASE phase[r] = "tail"
  <2>1. phase'[r] = "ended" /\ reply'[r] = "done" /\ pending'[r] = <<>>
    BY <1>1, <1>10 DEF Send, Release, DataType
  <2>2. EndsAt(r, end)'
    BY <1>4, <1>10, <2>1 DEF EndsAt
  <2>3. Streamed(r)' /\ AnswerInv(r)'
    BY <1>1, <1>4, <1>6, <2>1, <2>2 DEF Streamed, AnswerInv
  <2>4. StreamOK(r)'
    BY <1>1, <1>3, <2>1, <2>3 DEF StreamOK
  <2> QED BY <1>2, <2>4, StreamStep
<1> QED BY <1>1, <1>8, <1>9, <1>10

\* A timeout, or a client that leaves, at an await inside the generator.
LEMMA InterruptStream ==
  ASSUME NEW r \in Reqs, NEW answer, IInv, StreamInv, Interrupt(r, answer),
         \/ answer = "504" /\ ~Streaming(r)
         \/ answer = "gone" /\ Streaming(r)
  PROVE  StreamInv'
<1>1. /\ phase[r] = "serving" /\ phase'[r] = "ended" /\ reply'[r] = answer
      /\ UNCHANGED <<mode, pending, sent, acc>>
  BY DEF Interrupt, Release, IInv, SlotInv, SlotType, DataType
<1>2. OnlyMoves(r)
  BY MovesOne
<1> QED BY <1>1, <1>2, StreamLeft

\* A client leaves.
LEMMA DisconnectStream ==
  ASSUME NEW r \in Reqs, IInv, StreamInv, Disconnect(r)
  PROVE  StreamInv'
<1>1. CASE Interrupt(r, "gone")
  BY <1>1, InterruptStream DEF Disconnect
<1>2. CASE /\ phase[r] = "queued"
           /\ phase' = [phase EXCEPT ![r] = "ended"]
           /\ reply' = [reply EXCEPT ![r] = "gone"]
           /\ UNCHANGED <<backendVars, mode, pending, sent, acc>>
  <2>1. OnlyMoves(r) /\ phase'[r] = "ended" /\ reply'[r] = "gone"
    BY <1>2, MovesOne DEF IInv, SlotInv, SlotType, DataType
  <2> QED BY <1>2, <2>1, StreamLeft DEF Disconnect
<1>3. CASE /\ phase[r] \in {"serving", "failing", "tail"} /\ pending[r] # <<>>
           /\ phase' = [phase EXCEPT ![r] = "left"]
           /\ UNCHANGED <<backendVars, mode, limit, line, permits, pending, sent, acc, reply, metrics>>
  <2>1. OnlyMoves(r) /\ phase'[r] = "left" /\ reply'[r] = reply[r]
    BY <1>3, MovesOne DEF IInv, SlotInv, SlotType, DataType
  <2> QED BY <1>3, <2>1, StreamLeft DEF Disconnect
<1> QED BY <1>1, <1>2, <1>3 DEF Disconnect

\* The event loop closes what a client left behind.
LEMMA CloseStreams ==
  ASSUME NEW r \in Reqs, IInv, StreamInv, CloseBody(r) \/ CloseStream(r)
  PROVE  StreamInv'
<1>1. CASE CloseBody(r)
  <2>1. /\ OnlyMoves(r) /\ phase[r] = "left" /\ phase'[r] = "closing" /\ reply'[r] = "gone"
        /\ UNCHANGED <<mode, pending, sent, acc>>
    BY <1>1, MovesOne DEF Handle, CloseBody, IInv, SlotInv, SlotType, DataType
  <2> QED BY <2>1, StreamLeft
<1>2. CASE CloseStream(r)
  <2>1. /\ phase[r] = "closing" /\ phase'[r] = "ended"
        /\ UNCHANGED <<mode, pending, sent, acc, reply>>
    BY <1>2 DEF CloseStream, IInv, SlotInv, SlotType
  <2>2. OnlyMoves(r)
    BY <1>2, MovesOne DEF Handle
  <2> QED BY <2>1, <2>2, StreamLeft
<1> QED BY <1>1, <1>2

\* Nothing of it changes.
LEMMA StreamIdle ==
  ASSUME StreamInv, UNCHANGED <<gen, phase, mode, pending, sent, acc, reply>>
  PROVE  StreamInv'
BY StreamStays DEF StreamInv

\* No request has arrived.
LEMMA InitStream == Init => StreamInv
BY DEF Init, StreamInv, StreamOK, AnswerInv, Collected, Streaming

\* Every step keeps the streams in shape.
LEMMA NextStream == IInv /\ StreamInv /\ [Next]_vars => StreamInv'
<1> SUFFICES ASSUME IInv, StreamInv, [Next]_vars PROVE StreamInv'
  OBVIOUS
<1>1. CASE UNCHANGED vars
  BY <1>1, StreamIdle DEF vars, httpVars, backendVars
<1>2. ASSUME NEW r \in Reqs, NEW m \in {"collect", "stream", "chat"}, Arrive(r, m)
      PROVE  StreamInv'
  BY <1>2, ArriveStream
<1>3. ASSUME NEW r \in Reqs, Reject(r)
      PROVE  StreamInv'
  BY <1>3, RejectStream
<1>4. ASSUME NEW r \in Reqs, Handle(r)
      PROVE  StreamInv'
  BY <1>4, AcquireStream, AdvanceStream, SendStream, CloseStreams DEF Handle
<1>5. ASSUME NEW r \in Reqs, Timeout(r) \/ Disconnect(r)
      PROVE  StreamInv'
  BY <1>5, InterruptStream, DisconnectStream DEF Timeout
<1>6. ASSUME NEW r \in Reqs, AbortCall(r)
      PROVE  StreamInv'
  BY <1>6, StreamIdle DEF AbortCall, httpVars
<1> QED BY <1>1, <1>2, <1>3, <1>4, <1>5, <1>6 DEF Next

TextsIn(f) == {i \in DOMAIN f : f[i] = "text"}

EndsIn(f) == {i \in DOMAIN f : f[i] \in {"final", "error"}}

\* What the shape of a stream says of its frames.
LEMMA ShapedFrames ==
  ASSUME NEW f, NEW k \in {0, 1}, NEW n \in Nat, NEW end \in Ends, Shaped(f, k, n, end)
  PROVE  /\ \A i \in DOMAIN f : f[i] = "role" => i = 1 /\ k = 1
         /\ k = 1 /\ f # <<>> => f[1] = "role"
         /\ n = Cardinality(TextsIn(f))
         /\ Cardinality(EndsIn(f)) <= 1
         /\ \A i \in EndsIn(f) : \A j \in DOMAIN f : j > i => f[j] = "done"
         /\ \A i \in DOMAIN f : f[i] = "done" => i = Len(f) /\ i - 1 \in EndsIn(f)
         /\ end \in Complete => f # <<>> /\ Last(f) = "done"
         /\ "done" \in Range(f) <=> end \in Complete
         /\ "error" \in Range(f) <=> end # <<>> /\ end[1] = "error"
<1> DEFINE ends == EndsIn(f)
<1>1. /\ f \in Seq(Frames) /\ DOMAIN f = 1..Len(f) /\ Len(f) = k + n + Len(end)
      /\ \A i \in 1..Len(f) : f[i] = IF i <= k THEN "role"
                                     ELSE IF i <= k + n THEN "text" ELSE end[i - k - n]
  BY DEF Shaped
<1>2. /\ Len(end) \in {0, 1, 2} /\ (Len(end) = 0 <=> end = <<>>) /\ (Len(end) = 2 <=> end \in Complete)
      /\ Len(end) >= 1 => end[1] \in {"final", "error"}
      /\ Len(end) = 2 => end[2] = "done"
  BY DEF Ends, Complete
<1> DEFINE m == k + n
<1>3. /\ m \in Nat /\ k <= m /\ Len(f) = m + Len(end)
      /\ \A i \in 1..k : f[i] = "role" /\ i = 1 /\ k = 1
      /\ \A i \in (k + 1)..m : f[i] = "text"
      /\ Len(end) >= 1 => f[m + 1] = end[1]
      /\ Len(end) = 2 => f[m + 2] = "done"
      /\ \A i \in 1..Len(f) : \/ i \in 1..k \/ i \in (k + 1)..m
                              \/ i = m + 1 /\ Len(end) >= 1
                              \/ i = m + 2 /\ Len(end) = 2
  <2>1. Len(end) >= 1 => f[m + 1] = end[1]
    <3> SUFFICES ASSUME Len(end) >= 1 PROVE f[m + 1] = end[1]
      OBVIOUS
    <3>1. m + 1 \in 1..Len(f) /\ ~(m + 1 <= k) /\ ~(m + 1 <= k + n) /\ (m + 1) - k - n = 1
      BY <1>1, <1>2
    <3> QED BY <1>1, <3>1
  <2>2. Len(end) = 2 => f[m + 2] = "done"
    <3> SUFFICES ASSUME Len(end) = 2 PROVE f[m + 2] = "done"
      OBVIOUS
    <3>1. m + 2 \in 1..Len(f) /\ ~(m + 2 <= k) /\ ~(m + 2 <= k + n) /\ (m + 2) - k - n = 2
      BY <1>1, <1>2
    <3> QED BY <1>1, <1>2, <3>1
  <2>3. \A i \in 1..k : f[i] = "role" /\ i = 1 /\ k = 1
    BY <1>1, <1>2
  <2>4. \A i \in (k + 1)..m : f[i] = "text"
    BY <1>1, <1>2
  <2>5. \A i \in 1..Len(f) : \/ i \in 1..k \/ i \in (k + 1)..m
                             \/ i = m + 1 /\ Len(end) >= 1
                             \/ i = m + 2 /\ Len(end) = 2
    BY <1>1, <1>2
  <2> QED BY <1>1, <2>1, <2>2, <2>3, <2>4, <2>5
<1> HIDE DEF m
<1>4. ends = IF Len(end) = 0 THEN {} ELSE {m + 1}
  <2>1. \A i \in ends : i = m + 1 /\ Len(end) >= 1
    BY <1>1, <1>2, <1>3 DEF EndsIn
  <2>2. Len(end) >= 1 => m + 1 \in ends
    BY <1>1, <1>2, <1>3 DEF EndsIn
  <2>3. Len(end) = 0 <=> ~(Len(end) >= 1)
    BY <1>2
  <2> QED BY <2>1, <2>2, <2>3
<1>5. Cardinality(ends) <= 1
  <2>1. Cardinality({}) = 0 /\ Cardinality({m + 1}) = 1
    BY FS_EmptySet, FS_Singleton
  <2> HIDE DEF ends
  <2>2. ends = {} \/ ends = {m + 1}
    BY <1>4
  <2>3. Cardinality(ends) = 0 \/ Cardinality(ends) = 1
    BY <2>1, <2>2
  <2> QED BY <2>3
<1>6. TextsIn(f) = (k + 1)..m
  <2>1. \A i \in DOMAIN f : f[i] = "text" => i \in (k + 1)..m
    BY <1>1, <1>2, <1>3
  <2>2. \A i \in (k + 1)..m : i \in DOMAIN f /\ f[i] = "text"
    BY <1>1, <1>2, <1>3
  <2> QED BY <2>1, <2>2 DEF TextsIn
<1>7. Cardinality((k + 1)..m) = n
  <2>1. k + 1 \in Int /\ m \in Int
    BY <1>3
  <2>2. Cardinality((k + 1)..m) = IF k + 1 > m THEN 0 ELSE m - (k + 1) + 1
    BY <2>1, FS_Interval
  <2> QED BY <2>2 DEF m
<1>8. \A i \in DOMAIN f : f[i] = "role" => i = 1 /\ k = 1
  BY <1>1, <1>2, <1>3
<1>9. k = 1 /\ f # <<>> => f[1] = "role"
  BY <1>3
<1>10. \A i \in ends : \A j \in DOMAIN f : j > i => f[j] = "done"
  BY <1>1, <1>3, <1>4
<1>11. \A i \in DOMAIN f : f[i] = "done" => i = m + 2 /\ Len(end) = 2
  BY <1>1, <1>2, <1>3
<1>12. \A i \in DOMAIN f : f[i] = "done" => i = Len(f) /\ i - 1 \in ends
  BY <1>2, <1>3, <1>4, <1>11
<1>13. end \in Complete => f # <<>> /\ Last(f) = "done"
  BY <1>1, <1>2, <1>3 DEF Last
<1>14. "done" \in Range(f) <=> end \in Complete
  <2>1. end \in Complete => m + 2 \in DOMAIN f /\ f[m + 2] = "done"
    BY <1>1, <1>2, <1>3
  <2> QED BY <1>2, <1>11, <2>1 DEF Range
<1>15. "error" \in Range(f) <=> end # <<>> /\ end[1] = "error"
  <2>1. end # <<>> => m + 1 \in DOMAIN f /\ f[m + 1] = end[1]
    BY <1>1, <1>2, <1>3
  <2>2. \A i \in DOMAIN f : f[i] = "error" => i = m + 1 /\ end # <<>>
    BY <1>1, <1>2, <1>3
  <2> QED BY <2>1, <2>2 DEF Range
<1> QED BY <1>5, <1>6, <1>7, <1>8, <1>9, <1>10, <1>12, <1>13, <1>14, <1>15

\* A request that collects its tokens, or was never served, has no frames.
LEMMA NoFrames ==
  ASSUME NEW r \in Reqs, sent[r] = <<>>, pending[r] = <<>>
  PROVE  Text(r) = <<>> /\ DOMAIN Text(r) = {} /\ Range(Text(r)) = {}
BY DEF Text, Range

\* The streams are well-formed.
LEMMA StreamsAreWellFormed == IInv /\ StreamInv => StreamsWellFormed
<1> SUFFICES ASSUME IInv, StreamInv, NEW r \in Reqs
    PROVE  LET frames == sent[r] \o pending[r]
               ends   == {i \in DOMAIN frames : frames[i] \in {"final", "error"}}
           IN /\ \A i \in DOMAIN frames : frames[i] = "role" => i = 1 /\ mode[r] = "chat"
              /\ mode[r] = "chat" /\ frames # <<>> => frames[1] = "role"
              /\ Streaming(r) =>
                   acc[r].tokens = Cardinality({i \in DOMAIN frames : frames[i] = "text"})
              /\ Cardinality(ends) <= 1
              /\ \A i \in ends : \A j \in DOMAIN frames : j > i => frames[j] = "done"
              /\ \A i \in DOMAIN frames : frames[i] = "done" => i = Len(frames) /\ i - 1 \in ends
              /\ reply[r] = "done" => frames # <<>> /\ Last(frames) = "done" /\ pending[r] = <<>>
              /\ reply[r] = "200" => frames = <<>>
  BY DEF StreamsWellFormed
<1> DEFINE frames == sent[r] \o pending[r]
           ends   == EndsIn(frames)
           texts  == TextsIn(frames)
<1>1. frames = Text(r)
  BY DEF Text
<1>2. StreamOK(r) /\ acc[r].tokens \in Nat /\ Roles(r) \in {0, 1} /\ (Roles(r) = 1 <=> mode[r] = "chat")
  BY DEF StreamInv, IInv, DataType, Roles
<1>3. CASE sent[r] = <<>> /\ pending[r] = <<>> /\ reply[r] # "done"
           /\ (Streaming(r) => acc[r].tokens = 0)
  <2>1. frames = <<>> /\ DOMAIN frames = {}
    BY <1>1, <1>3, NoFrames
  <2>2. ends = {} /\ texts = {} /\ Cardinality({}) = 0
    BY <2>1, FS_EmptySet DEF EndsIn, TextsIn
  <2> QED BY <1>3, <2>1, <2>2 DEF EndsIn, TextsIn
<1>4. CASE Streaming(r) /\ reply[r] # "200" /\ Streamed(r)
  <2>1. PICK end \in Ends : Shaped(frames, Roles(r), acc[r].tokens, end) /\ EndsAt(r, end)
    BY <1>1, <1>4 DEF Streamed
  <2> HIDE DEF frames
  <2>2. /\ \A i \in DOMAIN frames : frames[i] = "role" => i = 1 /\ Roles(r) = 1
        /\ Roles(r) = 1 /\ frames # <<>> => frames[1] = "role"
        /\ acc[r].tokens = Cardinality(texts)
        /\ Cardinality(ends) <= 1
        /\ \A i \in ends : \A j \in DOMAIN frames : j > i => frames[j] = "done"
        /\ \A i \in DOMAIN frames : frames[i] = "done" => i = Len(frames) /\ i - 1 \in ends
        /\ end \in Complete => frames # <<>> /\ Last(frames) = "done"
    BY <1>2, <2>1, ShapedFrames
  <2>3. reply[r] = "done" => frames # <<>> /\ Last(frames) = "done" /\ pending[r] = <<>>
    BY <2>1, <2>2 DEF EndsAt
  <2> HIDE DEF ends, texts
  <2>4. /\ \A i \in DOMAIN frames : frames[i] = "role" => i = 1 /\ mode[r] = "chat"
        /\ mode[r] = "chat" /\ frames # <<>> => frames[1] = "role"
    BY <1>2, <2>2
  <2> QED BY <1>4, <2>2, <2>3, <2>4 DEF frames, ends, texts, EndsIn, TextsIn
<1> QED BY <1>2, <1>3, <1>4 DEF StreamOK, Collected, Unserved

\* The OpenAI stream protocol is kept on every backend, for any number of requests and
\* tokens and every way a request can end: one role frame in chats, each token once,
\* one end, and [DONE] last.
THEOREM StreamsAlwaysWellFormed == Spec => []StreamsWellFormed
<1>1. Init => IInv /\ StreamInv
  BY InitIInv, InitStream
<1>2. IInv /\ StreamInv /\ [Next]_vars => (IInv /\ StreamInv)'
  BY NextIInv, NextStream
<1> QED BY <1>1, <1>2, StreamsAreWellFormed, PTL DEF Spec

-----------------------------------------------------------------------------
(* Metrics *)

\* The requests that are counted, and those that cannot be yet.
CountedAt(r, st) ==
  \/ Streaming(r) /\ "done" \in Range(Text(r)) /\ (st = "error" <=> "error" \in Range(Text(r)))
  \/ st = "ok" /\ reply[r] = "200"

\* Counted, request by request.
LEMMA CountedIs == \A st : Counted(st) = {r \in Reqs : CountedAt(r, st)}
BY DEF Counted, CountedAt, Text

NotYet ==
  \A r \in Reqs : phase[r] \in {"none", "queued", "serving", "failing"}
                    => ~CountedAt(r, "ok") /\ ~CountedAt(r, "error")

\* Before its [DONE] or its answer no request is counted.
LEMMA NotYetCounted == IInv /\ StreamInv => NotYet
<1> SUFFICES ASSUME IInv, StreamInv, NEW r \in Reqs,
                    phase[r] \in {"none", "queued", "serving", "failing"}
    PROVE  ~CountedAt(r, "ok") /\ ~CountedAt(r, "error")
  BY DEF NotYet
<1>1. StreamOK(r) /\ reply[r] = "none" /\ acc[r].tokens \in Nat /\ Roles(r) \in {0, 1}
  BY DEF StreamInv, StreamOK, AnswerInv, IInv, DataType, Roles
<1>2. CASE ~Streaming(r)
  BY <1>1, <1>2 DEF CountedAt
<1>3. CASE Streaming(r) /\ Unserved(r)
  BY <1>1, <1>3, NoFrames DEF CountedAt, Unserved
<1>4. CASE Streaming(r) /\ Streamed(r)
  <2>1. PICK end \in Ends : Shaped(Text(r), Roles(r), acc[r].tokens, end) /\ EndsAt(r, end)
    BY <1>4 DEF Streamed
  <2>2. end \notin Complete
    BY <2>1 DEF EndsAt, Complete
  <2>3. "done" \notin Range(Text(r))
    BY <1>1, <2>1, <2>2, ShapedFrames
  <2> QED BY <1>1, <2>3 DEF CountedAt
<1> QED BY <1>1, <1>2, <1>3, <1>4 DEF StreamOK

\* The sets of requests behind the metrics can be counted and summed over.
LEMMA CountedFinite ==
  ASSUME IInv
  PROVE  /\ \A st : /\ IsFiniteSet(Counted(st)) /\ Counted(st) \subseteq Reqs
                    /\ Cardinality(Counted(st)) \in Nat
         /\ IsFiniteSet(Counted("ok") \cup Counted("error"))
         /\ \A r \in Reqs : acc[r].tokens \in Nat
<1>1. \A st : Counted(st) \subseteq Reqs
  BY DEF Counted
<1>2. \A st : IsFiniteSet(Counted(st)) /\ Cardinality(Counted(st)) \in Nat
  BY <1>1, ReqsFinite, FS_Subset, FS_CardinalityType
<1>3. \A r \in Reqs : acc[r].tokens \in Nat
  BY DEF IInv, DataType
<1> QED BY <1>1, <1>2, <1>3, FS_Union

\* No counter moves and nobody is counted.
LEMMA MetricsStay ==
  ASSUME IInv, MetricsExact, metrics' = metrics,
         \A q \in Reqs, st \in {"ok", "error"} : CountedAt(q, st)' <=> CountedAt(q, st),
         \A q \in Reqs : acc'[q].tokens = acc[q].tokens
                           \/ (~CountedAt(q, "ok") /\ ~CountedAt(q, "error"))
  PROVE  MetricsExact'
<1> DEFINE S == Counted("ok") \cup Counted("error")
           w == [r \in Reqs |-> acc[r].tokens]
           v == [r \in Reqs |-> acc'[r].tokens]
<1>1. \A st \in {"ok", "error"} : Counted(st)' = Counted(st)
  <2>1. \A st : Counted(st)' = {r \in Reqs : CountedAt(r, st)'}
    BY DEF Counted, CountedAt, Text
  <2> QED BY <2>1, CountedIs
<1>2. SumFunctionOnSet(v, S) = SumFunctionOnSet(w, S)
  <2>1. \A q \in S : w[q] \in Int /\ v[q] = w[q]
    BY CountedFinite, CountedIs
  <2>2. IsFiniteSet(S)
    BY CountedFinite
  <2> HIDE DEF S, w, v
  <2> QED BY <2>1, <2>2, SumCongruent
<1>3. TokensOf(S) = SumFunctionOnSet(w, S)
  BY DEF TokensOf
<1>4. TokensOf(Counted("ok") \cup Counted("error"))' = SumFunctionOnSet(v, S)
  BY <1>1 DEF TokensOf
<1>5. TokensOf(Counted("ok") \cup Counted("error"))' = TokensOf(S)
  BY <1>2, <1>3, <1>4
<1> QED BY <1>1, <1>5 DEF MetricsExact

\* A request is counted, once.
LEMMA MetricsMove ==
  ASSUME IInv, MetricsExact, NEW r \in Reqs, NEW status \in {"ok", "error"}, UNCHANGED acc,
         ObserveResult(r, status), ~CountedAt(r, "ok"), ~CountedAt(r, "error"),
         acc[r].itls = IF acc[r].tokens = 0 THEN 0 ELSE acc[r].tokens - 1,
         \A st \in {"ok", "error"} : CountedAt(r, st)' <=> st = status,
         \A q \in Reqs \ {r}, st \in {"ok", "error"} : CountedAt(q, st)' <=> CountedAt(q, st)
  PROVE  MetricsExact'
<1> DEFINE S == Counted("ok") \cup Counted("error")
           w == [q \in Reqs |-> acc[q].tokens]
           other == IF status = "ok" THEN "error" ELSE "ok"
<1>1. \A st : Counted(st)' = {q \in Reqs : CountedAt(q, st)'}
  BY DEF Counted, CountedAt, Text
<1>2. Counted(status)' = Counted(status) \cup {r} /\ Counted(other)' = Counted(other)
      /\ r \notin Counted(status) /\ r \notin S
  BY <1>1, CountedIs
<1>3. Cardinality(Counted(status)') = Cardinality(Counted(status)) + 1
  BY <1>2, CountedFinite, FS_AddElement
<1>4. (Counted("ok") \cup Counted("error"))' = S \cup {r}
  BY <1>2
<1>5. SumFunctionOnSet(w, S \cup {r}) = w[r] + SumFunctionOnSet(w, S)
      /\ SumFunctionOnSet(w, S) \in Int
  <2>1. w[r] \in Int /\ \A q \in S : w[q] \in Int
    BY CountedFinite
  <2>2. IsFiniteSet(S)
    BY CountedFinite
  <2> HIDE DEF S, w
  <2> QED BY <1>2, <2>1, <2>2, SumAdd
<1>6. TokensOf(S) = SumFunctionOnSet(w, S) /\ w[r] = acc[r].tokens
  BY DEF TokensOf
<1>7. TokensOf(Counted("ok") \cup Counted("error"))' = acc[r].tokens + TokensOf(S)
  <2>1. TokensOf(Counted("ok") \cup Counted("error"))' = SumFunctionOnSet(w, S \cup {r})
    BY <1>4 DEF TokensOf
  <2> QED BY <1>5, <1>6, <2>1
<1>8. /\ metrics'[status] = metrics[status] + 1
      /\ metrics'[other] = metrics[other] + 0
      /\ metrics'["tokens"] = metrics["tokens"] + acc[r].tokens
      /\ metrics'["ttft"] = metrics["ttft"] + (IF acc[r].tokens = 0 THEN 0 ELSE 1)
      /\ metrics'["itl"] = metrics["itl"] + acc[r].itls
  BY DEF ObserveResult, Series
<1>9. metrics \in [Series -> Nat] /\ acc[r].tokens \in Nat
  BY DEF IInv, DataType
<1>10. metrics'.ok = Cardinality(Counted("ok"))' /\ metrics'.error = Cardinality(Counted("error"))'
  <2>1. /\ metrics[status] = Cardinality(Counted(status)) /\ metrics[other] = Cardinality(Counted(other))
        /\ metrics[other] \in Int
    BY <1>9 DEF MetricsExact, Series
  <2>2. /\ metrics'[status] = Cardinality(Counted(status)')
        /\ metrics'[other] = Cardinality(Counted(other)')
    BY <1>2, <1>3, <1>8, <2>1
  <2> QED BY <2>2
<1>11. metrics'.tokens = TokensOf(Counted("ok") \cup Counted("error"))'
  <2>1. metrics.tokens = TokensOf(S) /\ metrics.tokens \in Nat
    BY <1>9 DEF MetricsExact, Series
  <2> HIDE DEF S
  <2> QED BY <1>7, <1>8, <1>9, <2>1
<1>12. metrics'.tokens = metrics'.ttft + metrics'.itl
  <2>1. metrics.tokens \in Nat /\ metrics.ttft \in Nat /\ metrics.itl \in Nat
        /\ metrics.tokens = metrics.ttft + metrics.itl
    BY <1>9 DEF MetricsExact, Series
  <2>2. CASE acc[r].tokens = 0
    BY <1>8, <2>1, <2>2
  <2>3. CASE acc[r].tokens # 0
    BY <1>8, <1>9, <2>1, <2>3
  <2> QED BY <2>2, <2>3
<1> QED BY <1>10, <1>11, <1>12 DEF MetricsExact

\* What is counted about the requests that do not move, and about one whose frames
\* and answer stay.
LEMMA CountedSame ==
  ASSUME NEW q \in Reqs, NEW st, mode'[q] = mode[q], Text(q)' = Text(q),
         reply'[q] = "200" <=> reply[q] = "200"
  PROVE  CountedAt(q, st)' <=> CountedAt(q, st)
BY DEF CountedAt, Streaming

\* Nothing else than the request that moves can be counted.
LEMMA CountedOthers ==
  ASSUME NEW r \in Reqs, OnlyMoves(r)
  PROVE  \A q \in Reqs \ {r}, st \in {"ok", "error"} :
           (CountedAt(q, st)' <=> CountedAt(q, st)) /\ acc'[q] = acc[q]
<1> SUFFICES ASSUME NEW q \in Reqs \ {r}, NEW st \in {"ok", "error"}
    PROVE  (CountedAt(q, st)' <=> CountedAt(q, st)) /\ acc'[q] = acc[q]
  OBVIOUS
<1>1. Text(q)' = Text(q) /\ mode'[q] = mode[q] /\ reply'[q] = reply[q] /\ acc'[q] = acc[q]
  BY DEF OnlyMoves, Text
<1> QED BY <1>1, CountedSame

Early == {"none", "queued", "serving", "failing"}

\* A step before the end of a request, or after it, counts nothing.
LEMMA MetricsUncounted ==
  ASSUME NEW r \in Reqs, IInv, StreamInv, MetricsExact, OnlyMoves(r), metrics' = metrics,
         \/ phase[r] \in Early /\ phase'[r] \in Early /\ NotYet'
         \/ UNCHANGED <<mode, acc>> /\ Text(r)' = Text(r) /\ (reply'[r] = "200" <=> reply[r] = "200")
  PROVE  MetricsExact'
<1>1. CASE phase[r] \in Early /\ phase'[r] \in Early /\ NotYet'
  <2>1. \A st \in {"ok", "error"} : ~CountedAt(r, st) /\ ~CountedAt(r, st)'
    BY <1>1, NotYetCounted DEF NotYet, Early
  <2>2. \A q \in Reqs, st \in {"ok", "error"} : CountedAt(q, st)' <=> CountedAt(q, st)
    BY <2>1, CountedOthers
  <2>3. \A q \in Reqs : acc'[q].tokens = acc[q].tokens
                           \/ (~CountedAt(q, "ok") /\ ~CountedAt(q, "error"))
    BY <2>1, CountedOthers
  <2> QED BY <2>2, <2>3, MetricsStay
<1>2. CASE UNCHANGED <<mode, acc>> /\ Text(r)' = Text(r) /\ (reply'[r] = "200" <=> reply[r] = "200")
  <2>1. \A st \in {"ok", "error"} : CountedAt(r, st)' <=> CountedAt(r, st)
    BY <1>2, CountedSame
  <2>2. \A q \in Reqs, st \in {"ok", "error"} : CountedAt(q, st)' <=> CountedAt(q, st)
    BY <2>1, CountedOthers
  <2> QED BY <1>2, <2>2, MetricsStay
<1> QED BY <1>1, <1>2

\* [DONE] is ready: the request is counted, as failed if its stream says so.
LEMMA DoneCounts ==
  ASSUME NEW r \in Reqs, NEW end \in Ends, NEW n \in Nat, Roles(r) \in {0, 1},
         Shaped(Text(r), Roles(r), n, end), end \in {<<"final">>, <<"error">>},
         Text(r)' = Append(Text(r), "done"), Streaming(r)', reply'[r] # "200"
  PROVE  \A st \in {"ok", "error"} :
           CountedAt(r, st)' <=> st = IF end = <<"error">> THEN "error" ELSE "ok"
<1> DEFINE f == Text(r)
           g == Append(f, "done")
<1>1. f \in Seq(Frames)
  BY DEF Shaped
<1> HIDE DEF f
<1>2. Range(g) = Range(f) \cup {"done"}
  <2>1. DOMAIN g = 1..(Len(f) + 1) /\ DOMAIN f = 1..Len(f) /\ Len(f) \in Nat
        /\ g[Len(f) + 1] = "done" /\ \A i \in 1..Len(f) : g[i] = f[i]
    BY <1>1
  <2> HIDE DEF g
  <2> QED BY <2>1 DEF Range
<1>3. "error" \in Range(f) <=> end = <<"error">>
  <2>1. "error" \in Range(f) <=> end # <<>> /\ end[1] = "error"
    BY ShapedFrames DEF f
  <2> QED BY <2>1
<1>4. "done" \in Range(g) /\ ("error" \in Range(g) <=> end = <<"error">>)
  BY <1>2, <1>3
<1> HIDE DEF g
<1>5. Text(r)' = g
  BY DEF f, g
<1> QED BY <1>4, <1>5 DEF CountedAt

\* A step of the generator: the end is counted, and nothing before it.
LEMMA AdvanceMetrics ==
  ASSUME NEW r \in Reqs, IInv, StreamInv, MetricsExact, Advance(r), NotYet'
  PROVE  MetricsExact'
<1>1. /\ phase[r] = "serving" /\ pending[r] = <<>> /\ UNCHANGED <<mode, sent>> /\ OnlyMoves(r)
      /\ phase \in [Reqs -> Phases] /\ StreamOK(r) /\ AnswerInv(r) /\ reply[r] = "none"
      /\ DataType /\ Roles(r) \in {0, 1} /\ acc[r].tokens \in Nat
      /\ ~CountedAt(r, "ok") /\ ~CountedAt(r, "error")
  BY MovesOne, NotYetCounted
  DEF Handle, Advance, IInv, SlotInv, SlotType, StreamInv, StreamOK, AnswerInv, DataType, Roles, NotYet
<1>2. PICK e \in {"wait", "text", "raise", "end"} \cup FinishReasons :
        /\ Generate(r, e)
        /\ \/ e = "wait" /\ UNCHANGED <<phase, permits, pending, acc, reply, metrics>>
           \/ ConsumeChunk(r, e) \/ ConsumeError(r, e) \/ ConsumeEnd(r, e)
  BY DEF Advance
<1>3. CASE \/ e = "wait" /\ UNCHANGED <<phase, permits, pending, acc, reply, metrics>>
           \/ ConsumeChunk(r, e)
  BY <1>1, <1>3, MetricsUncounted DEF ConsumeChunk, Early
<1>4. CASE ConsumeError(r, e) /\ Streaming(r)
  <2>1. phase'[r] = "failing" /\ metrics' = metrics
    BY <1>1, <1>4 DEF ConsumeError
  <2> QED BY <1>1, <2>1, MetricsUncounted DEF Early
<1>5. CASE ConsumeError(r, e) /\ ~Streaming(r)
  <2>1. reply'[r] = "500" /\ UNCHANGED <<metrics, acc, pending>>
    BY <1>1, <1>5 DEF ConsumeError, Release, DataType
  <2>2. Text(r)' = Text(r)
    BY <1>1, <2>1 DEF Text
  <2> QED BY <1>1, <2>1, <2>2, MetricsUncounted
<1>6. CASE ConsumeEnd(r, e) /\ ~Streaming(r)
  <2>1. reply'[r] = "200" /\ UNCHANGED <<acc, pending>> /\ ObserveResult(r, "ok")
    BY <1>1, <1>6 DEF ConsumeEnd, Release, DataType
  <2>2. \A st \in {"ok", "error"} : CountedAt(r, st)' <=> st = "ok"
    BY <1>1, <1>6, <2>1 DEF CountedAt, Streaming
  <2> QED BY <1>1, <2>1, <2>2, CountedOthers, MetricsMove DEF AnswerInv
<1>7. CASE ConsumeEnd(r, e) /\ Streaming(r)
  <2>1. /\ pending'[r] = <<"done">> /\ UNCHANGED <<acc, reply>> /\ ObserveResult(r, "ok")
        /\ gen[r].pc = "last" /\ Streaming(r)'
    BY <1>1, <1>2, <1>7, GenerateEvents DEF ConsumeEnd, DataType, IInv, Streaming
  <2>2. PICK end \in Ends : Shaped(Text(r), Roles(r), acc[r].tokens, end) /\ EndsAt(r, end)
    BY <1>1, <1>7, StreamServed
  <2>3. end = <<"final">>
    BY <1>1, <2>1, <2>2 DEF EndsAt
  <2>4. Text(r)' = Append(Text(r), "done")
    BY <1>1, <2>1, TextGrows DEF Frames
  <2>5. \A st \in {"ok", "error"} :
          CountedAt(r, st)' <=> st = IF end = <<"error">> THEN "error" ELSE "ok"
    BY <1>1, <2>1, <2>2, <2>3, <2>4, DoneCounts
  <2>6. \A st \in {"ok", "error"} : CountedAt(r, st)' <=> st = "ok"
    <3>1. end # <<"error">>
      BY <2>3
    <3> QED BY <2>5, <3>1
  <2> QED BY <1>1, <2>1, <2>6, CountedOthers, MetricsMove DEF AnswerInv
<1> QED BY <1>2, <1>3, <1>4, <1>5, <1>6, <1>7

\* A frame is sent: a stream that failed is counted after its error frame.
LEMMA SendMetrics ==
  ASSUME NEW r \in Reqs, IInv, StreamInv, MetricsExact, Send(r), NotYet'
  PROVE  MetricsExact'
<1>1. /\ phase[r] \in {"serving", "failing", "tail"} /\ pending[r] # <<>>
      /\ UNCHANGED <<mode, acc>> /\ sent'[r] = sent[r] \o pending[r] /\ OnlyMoves(r)
      /\ StreamOK(r) /\ AnswerInv(r) /\ reply[r] = "none" /\ DataType
      /\ Roles(r) \in {0, 1} /\ acc[r].tokens \in Nat /\ (Streaming(r)' <=> Streaming(r))
  BY MovesOne
  DEF Handle, Send, IInv, StreamInv, StreamOK, AnswerInv, DataType, Roles, Streaming
<1>2. Streaming(r)
  BY <1>1 DEF StreamOK, Collected
<1>3. Text(r) \in Seq(Frames) /\ sent'[r] = Text(r)
  BY <1>1, TextType DEF Text
<1>4. CASE phase[r] \in {"serving", "tail"}
  <2>1. pending'[r] = <<>> /\ reply'[r] # "200" /\ metrics' = metrics
    BY <1>1, <1>4 DEF Send, Release, DataType
  <2>2. Text(r)' = Text(r)
    BY <1>3, <2>1 DEF Text
  <2> QED BY <1>1, <2>1, <2>2, MetricsUncounted
<1>5. CASE phase[r] = "failing"
  <2>1. pending'[r] = <<"done">> /\ UNCHANGED reply /\ ObserveResult(r, "error")
    BY <1>1, <1>5 DEF Send, DataType
  <2>2. PICK end \in Ends : Shaped(Text(r), Roles(r), acc[r].tokens, end) /\ EndsAt(r, end)
    BY <1>1, <1>2, StreamServed
  <2>3. end = <<"error">>
    BY <1>5, <2>2 DEF EndsAt
  <2>4. Text(r)' = Append(Text(r), "done")
    <3>1. Text(r) \o <<"done">> = Append(Text(r), "done")
      BY <1>3 DEF Frames
    <3>2. Text(r)' = Text(r) \o pending'[r]
      BY <1>3 DEF Text
    <3> QED BY <2>1, <3>1, <3>2
  <2>5. \A st \in {"ok", "error"} :
          CountedAt(r, st)' <=> st = IF end = <<"error">> THEN "error" ELSE "ok"
    BY <1>1, <1>2, <2>1, <2>2, <2>3, <2>4, DoneCounts
  <2>6. ~CountedAt(r, "ok") /\ ~CountedAt(r, "error")
    BY <1>5, NotYetCounted DEF NotYet
  <2> QED BY <1>1, <2>1, <2>3, <2>5, <2>6, CountedOthers, MetricsMove DEF AnswerInv
<1> QED BY <1>1, <1>4, <1>5

\* The other actions count nothing.
LEMMA OtherMetrics ==
  ASSUME NEW r \in Reqs, IInv, StreamInv, MetricsExact, NotYet',
         \/ Reject(r) \/ (\E m : Arrive(r, m)) \/ Acquire(r) \/ CloseBody(r) \/ CloseStream(r)
         \/ Timeout(r) \/ Disconnect(r)
  PROVE  MetricsExact'
<1>1. /\ OnlyMoves(r) /\ phase \in [Reqs -> Phases] /\ AnswerInv(r) /\ StreamOK(r)
      /\ reply \in [Reqs -> {"none", "refused", "200", "500", "504", "gone", "done"}]
  BY MovesOne
  DEF Handle, Timeout, IInv, SlotInv, SlotType, DataType, StreamInv, StreamOK
<1>2. CASE Acquire(r) \/ \E m : Arrive(r, m)
  <2>1. phase'[r] \in Early /\ metrics' = metrics
    BY <1>1, <1>2 DEF Acquire, Arrive, Early
  <2>2. phase[r] \in Early
    <3>1. CASE \E m : Arrive(r, m)
      BY <3>1 DEF Arrive, IsNext, Early
    <3>2. CASE Acquire(r)
      <4>1. line \in Seq(Reqs) /\ line # <<>> /\ r = Head(line)
        BY <3>2 DEF IInv, SlotInv, SlotType, Acquire
      <4>2. r = line[1] /\ 1 \in DOMAIN line
        BY <4>1
      <4>3. r \in Range(line)
        BY <4>2 DEF Range
      <4> QED BY <4>3 DEF IInv, SlotInv, SlotsExact, Early
    <3> QED BY <1>2, <3>1, <3>2
  <2> QED BY <1>1, <2>1, <2>2, MetricsUncounted
<1>3. ASSUME NEW answer \in {"504", "gone"}, Interrupt(r, answer) PROVE MetricsExact'
  <2>1. UNCHANGED <<mode, pending, sent, acc, metrics>> /\ reply'[r] = answer /\ reply[r] = "none"
    BY <1>1, <1>3 DEF Interrupt, Release, AnswerInv
  <2>2. Text(r)' = Text(r)
    BY <2>1 DEF Text
  <2> QED BY <1>1, <2>1, <2>2, MetricsUncounted
<1>4. CASE Reject(r) \/ CloseBody(r) \/ CloseStream(r)
           \/ (Disconnect(r) /\ ~Interrupt(r, "gone"))
  <2>1. UNCHANGED <<mode, pending, sent, acc, metrics>>
    BY <1>4 DEF Reject, CloseBody, CloseStream, Disconnect
  <2>2. \/ reply'[r] = reply[r]
        \/ reply'[r] \in {"refused", "gone"} /\ phase[r] \notin {"closing", "ended"}
    <3>1. CASE Reject(r)
      BY <1>1, <3>1 DEF Reject, IsNext
    <3>2. CASE CloseBody(r) \/ CloseStream(r)
      BY <1>1, <3>2 DEF CloseBody, CloseStream
    <3>3. CASE Disconnect(r) /\ ~Interrupt(r, "gone")
      BY <1>1, <3>3 DEF Disconnect
    <3> QED BY <1>4, <3>1, <3>2, <3>3
  <2>3. Text(r)' = Text(r)
    BY <2>1 DEF Text
  <2>4. reply'[r] = "200" <=> reply[r] = "200"
    BY <1>1, <2>2 DEF AnswerInv
  <2> QED BY <1>1, <2>1, <2>3, <2>4, MetricsUncounted
<1> QED BY <1>2, <1>3, <1>4 DEF Timeout

\* Nothing of it changes.
LEMMA MetricsIdle ==
  ASSUME MetricsExact, UNCHANGED httpVars
  PROVE  MetricsExact'
BY DEF MetricsExact, httpVars, Counted, TokensOf, Streaming

\* No request was counted.
LEMMA InitMetrics == Init => MetricsExact
<1> SUFFICES ASSUME Init PROVE MetricsExact
  OBVIOUS
<1>1. Counted("ok") = {} /\ Counted("error") = {}
  BY DEF Init, Counted, Streaming
<1>2. Cardinality({}) = 0 /\ TokensOf({}) = 0
  BY FS_EmptySet, SumEmpty DEF TokensOf
<1>3. Counted("ok") \cup Counted("error") = {}
  BY <1>1
<1>4. metrics.ok = 0 /\ metrics.error = 0 /\ metrics.tokens = 0 /\ metrics.ttft = 0 /\ metrics.itl = 0
  BY DEF Init, Series
<1> QED BY <1>1, <1>2, <1>3, <1>4 DEF MetricsExact

\* Every step keeps the metrics exact.
LEMMA NextMetrics ==
  IInv /\ StreamInv /\ MetricsExact /\ NotYet' /\ [Next]_vars => MetricsExact'
<1> SUFFICES ASSUME IInv, StreamInv, MetricsExact, NotYet', [Next]_vars PROVE MetricsExact'
  OBVIOUS
<1>1. CASE UNCHANGED vars
  BY <1>1, MetricsIdle DEF vars
<1>2. ASSUME NEW r \in Reqs, \/ Reject(r) \/ (\E m : Arrive(r, m)) \/ Timeout(r) \/ Disconnect(r)
      PROVE  MetricsExact'
  BY <1>2, OtherMetrics
<1>3. ASSUME NEW r \in Reqs, Handle(r)
      PROVE  MetricsExact'
  BY <1>3, OtherMetrics, AdvanceMetrics, SendMetrics DEF Handle
<1>4. ASSUME NEW r \in Reqs, AbortCall(r)
      PROVE  MetricsExact'
  BY <1>4, MetricsIdle DEF AbortCall
<1> QED BY <1>1, <1>2, <1>3, <1>4 DEF Next

\* For any number of requests and tokens and on every backend, each request that ended,
\* or failed in its stream, is observed exactly once, with its tokens, its first token
\* and the gaps between them, and no other request is.
THEOREM MetricsAlwaysExact == Spec => []MetricsExact
<1>1. Init => IInv /\ StreamInv /\ MetricsExact
  BY InitIInv, InitStream, InitMetrics
<1>2. IInv /\ StreamInv /\ MetricsExact /\ [Next]_vars => (IInv /\ StreamInv /\ MetricsExact)'
  <2>1. IInv /\ StreamInv => NotYet
    BY NotYetCounted
  <2>2. (IInv /\ StreamInv)' => NotYet'
    BY <2>1, PTL
  <2> QED BY <2>2, NextIInv, NextStream, NextMetrics
<1> QED BY <1>1, <1>2, PTL DEF Spec
-----------------------------------------------------------------------------
(* The semaphore serves first come first served *)

\* The requests that arrived come before those that did not, and they wait in the
\* order of their arrival.
Prefix == \A q, r \in Reqs : q < r /\ phase[r] # "none" => phase[q] # "none"

Ascending == \A i, j \in 1..Len(line) : i < j => line[i] < line[j]

LineInv == Prefix /\ Ascending

\* What the types and the slots say of the line.
LEMMA LineFacts ==
  ASSUME IInv
  PROVE  /\ line \in Seq(Reqs) /\ Len(line) \in Nat /\ phase \in [Reqs -> Phases]
         /\ reply \in [Reqs -> {"none", "refused", "200", "500", "504", "gone", "done"}]
         /\ \A r \in Reqs : phase[r] = "queued" <=> \E i \in 1..Len(line) : line[i] = r
         /\ Reqs \subseteq Nat
<1>1. line \in Seq(Reqs) /\ Len(line) \in Nat /\ DOMAIN line = 1..Len(line)
  BY DEF IInv, SlotInv, SlotType
<1>2. \A q : q \in Range(line) <=> \E i \in 1..Len(line) : line[i] = q
  BY <1>1 DEF Range
<1>3. \A r \in Reqs : phase[r] = "queued" <=> r \in Range(line)
  BY DEF IInv, SlotInv, SlotsExact
<1> QED
  BY <1>1, <1>2, <1>3 DEF IInv, SlotInv, SlotType, DataType, Reqs

\* A request that arrived stays so, and the line stays or loses one of it.
LEMMA LineShrinks ==
  ASSUME IInv, LineInv, NEW r \in Reqs, phase[r] # "none", NEW p \in Phases \ {"none"},
         phase' = [phase EXCEPT ![r] = p],
         line' = line \/ (line # <<>> /\ line' = Tail(line))
                      \/ (\E i \in DOMAIN line : line' = RemoveAt(line, i))
  PROVE  LineInv'
<1>1. /\ line \in Seq(Reqs) /\ Len(line) \in Nat /\ DOMAIN line = 1..Len(line)
      /\ phase \in [Reqs -> Phases] /\ IsInjective(line)
      /\ \A i \in 1..Len(line) : line[i] \in Nat
  BY LineFacts DEF IInv, SlotInv, SlotsExact
<1>2. Prefix'
  BY <1>1 DEF LineInv, Prefix
<1>3. CASE line' = line
  BY <1>2, <1>3 DEF LineInv, Ascending
<1>4. CASE line # <<>> /\ line' = Tail(line)
  <2>1. /\ Len(line') = Len(line) - 1
        /\ \A j \in 1..(Len(line) - 1) : line'[j] = line[j + 1]
    <3>1. line \in Seq(Reqs) /\ line # <<>>
      BY <1>1, <1>4
    <3>2. /\ Len(Tail(line)) = Len(line) - 1
          /\ \A j \in 1..(Len(line) - 1) : Tail(line)[j] = line[j + 1]
      BY ONLY <3>1
    <3> QED BY <1>4, <3>2
  <2>2. Ascending'
    BY <1>1, <2>1 DEF LineInv, Ascending
  <2> QED BY <1>2, <2>2 DEF LineInv
<1>5. ASSUME NEW i \in DOMAIN line, line' = RemoveAt(line, i) PROVE LineInv'
  <2>1. /\ Len(line') = Len(line) - 1
        /\ \A j \in 1..(Len(line) - 1) : line'[j] = IF j < i THEN line[j] ELSE line[j + 1]
    BY <1>1, <1>5, RemovedAt
  <2>2. ASSUME NEW j \in 1..Len(line'), NEW k \in 1..Len(line'), j < k
        PROVE  line'[j] < line'[k]
    <3>1. PICK x, y \in 1..Len(line) : x < y /\ line'[j] = line[x] /\ line'[k] = line[y]
      <4>1. CASE k < i
        BY <1>1, <2>1, <2>2, <4>1
      <4>2. CASE j < i /\ ~(k < i)
        <5>1. line'[j] = line[j] /\ line'[k] = line[k + 1]
          BY <1>1, <2>1, <2>2, <4>2
        <5> QED BY <1>1, <2>1, <2>2, <5>1
      <4>3. CASE ~(j < i)
        <5>1. line'[j] = line[j + 1] /\ line'[k] = line[k + 1]
          BY <1>1, <2>1, <2>2, <4>3
        <5> QED BY <1>1, <2>1, <2>2, <5>1
      <4> QED BY <1>1, <4>1, <4>2, <4>3
    <3> QED BY <3>1 DEF LineInv, Ascending
  <2> QED BY <1>2, <2>2 DEF LineInv, Ascending
<1> QED
  BY <1>3, <1>4, <1>5

\* The next request arrives, and is refused or joins the line.
LEMMA LineArrives ==
  ASSUME IInv, LineInv, NEW r \in Reqs, Reject(r) \/ \E m : Arrive(r, m)
  PROVE  LineInv'
<1>1. /\ line \in Seq(Reqs) /\ Len(line) \in Nat /\ phase \in [Reqs -> Phases]
      /\ phase[r] = "none" /\ \A q \in 1..(r - 1) : phase[q] # "none"
      /\ \A q \in Reqs : phase[q] = "queued" <=> \E i \in 1..Len(line) : line[i] = q
      /\ Reqs \subseteq Nat
  BY LineFacts DEF Reject, Arrive, IsNext
<1>2. PICK p \in {"queued", "ended"} : /\ phase' = [phase EXCEPT ![r] = p]
                                       /\ line' = IF p = "queued" THEN Append(line, r) ELSE line
  BY DEF Reject, Arrive
<1>3. \A q \in Reqs : q < r => q \in 1..(r - 1)
  BY DEF Reqs
<1>4. Prefix'
  BY <1>1, <1>2, <1>3 DEF LineInv, Prefix
<1>5. CASE p = "ended"
  BY <1>2, <1>4, <1>5 DEF LineInv, Ascending
<1>6. CASE p = "queued"
  <2>1. ASSUME NEW i \in 1..Len(line) PROVE line[i] < r /\ line[i] \in Nat
    <3>1. line[i] \in Reqs /\ phase[line[i]] = "queued"
      BY <1>1
    <3>2. line[i] # r /\ ~(r < line[i])
      BY <1>1, <3>1 DEF LineInv, Prefix
    <3> QED BY <1>1, <3>1, <3>2
  <2>2. /\ Len(line') = Len(line) + 1 /\ line'[Len(line) + 1] = r
        /\ \A i \in 1..Len(line) : line'[i] = line[i]
    BY <1>1, <1>2, <1>6
  <2>3. ASSUME NEW i \in 1..Len(line'), NEW j \in 1..Len(line'), i < j
        PROVE  line'[i] < line'[j]
    <3>1. i \in 1..Len(line) /\ (j \in 1..Len(line) \/ j = Len(line) + 1)
      BY <1>1, <2>2, <2>3
    <3> QED BY <2>1, <2>2, <2>3, <3>1 DEF LineInv, Ascending
  <2> QED BY <1>4, <2>3 DEF LineInv, Ascending
<1> QED
  BY <1>5, <1>6

\* Every other action moves a request that arrived, and only takes from the line.
LEMMA LineKept ==
  ASSUME IInv, LineInv, NEW r \in Reqs,
         Handle(r) \/ Disconnect(r) \/ \E answer : Interrupt(r, answer)
  PROVE  LineInv'
<1>1. phase \in [Reqs -> Phases] /\ phase[r] \in Phases
  BY LineFacts
<1>2. ASSUME NEW answer, Interrupt(r, answer) PROVE LineInv'
  <2>1. phase[r] # "none" /\ phase' = [phase EXCEPT ![r] = "ended"] /\ line' = line
    BY <1>2 DEF Interrupt, Release
  <2> QED BY <2>1, LineShrinks DEF Phases
<1>3. CASE Acquire(r)
  <2>1. line # <<>> /\ line' = Tail(line) /\ phase' = [phase EXCEPT ![r] = "serving"] /\ r = Head(line)
    BY <1>3 DEF Acquire
  <2>2. line[1] = r /\ 1 \in 1..Len(line)
    BY <2>1, LineFacts
  <2>3. phase[r] = "queued"
    BY <2>2, LineFacts
  <2> QED BY <2>1, <2>3, LineShrinks DEF Phases
<1>4. CASE Advance(r)
  <2>1. PICK e : ConsumeChunk(r, e) \/ ConsumeError(r, e) \/ ConsumeEnd(r, e) \/ phase' = phase
    BY <1>4 DEF Advance
  <2>2. phase[r] = "serving" /\ line' = line
    BY <1>4 DEF Advance
  <2>3. \E p \in Phases \ {"none"} : phase' = [phase EXCEPT ![r] = p]
    <3>1. phase' = phase => phase' = [phase EXCEPT ![r] = "serving"]
      BY <1>1, <2>2
    <3> QED BY <2>1, <3>1 DEF ConsumeChunk, ConsumeError, ConsumeEnd, Release, Phases
  <2> QED BY <2>2, <2>3, LineShrinks
<1>5. CASE Send(r)
  <2>1. phase[r] \in {"serving", "failing", "tail"} /\ line' = line
    BY <1>5 DEF Send
  <2>2. \E p \in Phases \ {"none"} : phase' = [phase EXCEPT ![r] = p]
    <3>1. phase' = phase => phase' = [phase EXCEPT ![r] = phase[r]]
      BY <1>1
    <3> QED BY <1>1, <1>5, <2>1, <3>1 DEF Send, Release, Phases
  <2> QED BY <2>1, <2>2, LineShrinks
<1>6. CASE CloseBody(r) \/ CloseStream(r)
  <2>1. \E p \in Phases \ {"none"} : phase' = [phase EXCEPT ![r] = p]
    BY <1>6 DEF CloseBody, CloseStream, Phases
  <2>2. phase[r] # "none" /\ line' = line
    BY <1>6 DEF CloseBody, CloseStream
  <2> QED BY <2>1, <2>2, LineShrinks
<1>7. CASE Disconnect(r)
  <2>1. CASE Interrupt(r, "gone")
    BY <1>2, <2>1
  <2>2. CASE ~Interrupt(r, "gone")
    <3>1. \E p \in Phases \ {"none"} : phase' = [phase EXCEPT ![r] = p]
      BY <1>7, <2>2 DEF Disconnect, Phases
    <3>2. phase[r] # "none" /\ (line' = line \/ \E i \in DOMAIN line : line' = RemoveAt(line, i))
      BY <1>7, <2>2 DEF Disconnect
    <3> QED BY <3>1, <3>2, LineShrinks
  <2> QED BY <2>1, <2>2
<1> QED
  BY <1>2, <1>3, <1>4, <1>5, <1>6, <1>7 DEF Handle

\* Arrivals are numbered as they come and wait in that order.
LEMMA NextLine == IInv /\ LineInv /\ [Next]_vars => LineInv'
<1> SUFFICES ASSUME IInv, LineInv, [Next]_vars PROVE LineInv'
  OBVIOUS
<1>1. CASE UNCHANGED <<phase, line>>
  BY <1>1 DEF LineInv, Prefix, Ascending
<1>2. ASSUME NEW r \in Reqs, NEW m, Arrive(r, m) PROVE LineInv'
  BY <1>2, LineArrives
<1>3. ASSUME NEW r \in Reqs, Reject(r) PROVE LineInv'
  BY <1>3, LineArrives
<1>4. ASSUME NEW r \in Reqs, Handle(r) \/ Timeout(r) \/ Disconnect(r) PROVE LineInv'
  BY <1>4, LineKept DEF Timeout
<1>5. ASSUME NEW r \in Reqs, AbortCall(r) PROVE LineInv'
  BY <1>1, <1>5 DEF AbortCall, httpVars
<1> QED
  BY <1>1, <1>2, <1>3, <1>4, <1>5 DEF Next, vars, httpVars

\* Nobody is in line at first.
LEMMA InitLine == Init => LineInv
<1> SUFFICES ASSUME Init PROVE LineInv
  OBVIOUS
<1>1. line = <<>> /\ \A r \in Reqs : phase[r] = "none"
  BY DEF Init
<1>2. Len(line) = 0
  BY <1>1
<1> QED
  BY <1>1, <1>2 DEF LineInv, Prefix, Ascending

-----------------------------------------------------------------------------
(* The application implements the first-come first-served service *)

\* What the client sees of a phase and an answer, and of the requests.
Seen(p, a) == IF p = "queued" THEN "queued"
              ELSE IF p \in HoldPhases THEN "running"
              ELSE IF p = "closing" \/ a = "gone" THEN "aborted"
              ELSE "finished"

View == [r \in Accepted |-> Seen(phase[r], reply[r])]

\* What the service is instantiated with.
Status == [r \in Accepted |->
             IF phase[r] = "queued" THEN "queued"
             ELSE IF r \in Holders THEN "running"
             ELSE IF phase[r] = "closing" \/ reply[r] = "gone" THEN "aborted"
             ELSE "finished"]

\* They are the same.
LEMMA ViewIsStatus == View = Status /\ View' = Status'
BY DEF View, Status, Seen, Holders, HoldPhases, Accepted

\* The instance counts as the application does.
LEMMA SameCardinality == \A S : Service!Cardinality(S) = Cardinality(S)
BY DEF Service!Cardinality, Cardinality

\* The steps of the service, as steps of the view.
LEMMA ServiceSteps ==
  ASSUME NEW s \in DOMAIN View
  PROVE  /\ \/ /\ View[s] = "queued"
               /\ \A t \in DOMAIN View : View[t] = "queued" => s <= t
               /\ Cardinality({t \in DOMAIN View : View[t] = "running"}) < Max(UNION Range(Limits))
               /\ View' = [View EXCEPT ![s] = "running"]
            \/ View[s] = "running" /\ View' = [View EXCEPT ![s] = "finished"]
            \/ View[s] \in {"queued", "running"} /\ View' = [View EXCEPT ![s] = "aborted"]
            => Service!Next
<1>1. View = Status /\ View' = Status'
  BY ViewIsStatus
<1>2. \A st : Service!In(st) = {t \in DOMAIN Status : Status[t] = st}
  BY DEF Service!In, Status
<1>3. s \in DOMAIN Status
  BY <1>1
<1>4. Service!Start(s) \/ Service!Finish(s) \/ Service!Cancel(s) => Service!Next
  BY <1>3 DEF Service!Next, Status
<1>5. CASE /\ View[s] = "queued"
           /\ \A t \in DOMAIN View : View[t] = "queued" => s <= t
           /\ Cardinality({t \in DOMAIN View : View[t] = "running"}) < Max(UNION Range(Limits))
           /\ View' = [View EXCEPT ![s] = "running"]
  <2>1. /\ s \in Service!In("queued") /\ \A t \in Service!In("queued") : s <= t
        /\ Cardinality(Service!In("running")) < Max(UNION Range(Limits))
    BY <1>1, <1>2, <1>3, <1>5
  <2>2. Service!Cardinality(Service!In("running")) < Max(UNION Range(Limits))
    BY <2>1, SameCardinality
  <2>3. Status' = [Status EXCEPT ![s] = "running"]
    BY <1>1, <1>5
  <2>4. Service!Start(s)
    BY <2>1, <2>3, <2>2 DEF Service!Start, Status
  <2> QED BY <1>4, <2>4
<1>6. CASE View[s] = "running" /\ View' = [View EXCEPT ![s] = "finished"]
  <2>1. s \in Service!In("running")
    BY <1>1, <1>2, <1>3, <1>6
  <2>2. Status' = [Status EXCEPT ![s] = "finished"]
    BY <1>1, <1>6
  <2>3. Service!Finish(s)
    BY <2>1, <2>2 DEF Service!Finish, Status
  <2> QED BY <1>4, <2>3
<1>7. CASE View[s] \in {"queued", "running"} /\ View' = [View EXCEPT ![s] = "aborted"]
  <2>1. s \in Service!In("queued") \cup Service!In("running")
    BY <1>1, <1>2, <1>3, <1>7
  <2>2. Status' = [Status EXCEPT ![s] = "aborted"]
    BY <1>1, <1>7
  <2>3. Service!Cancel(s)
    BY <2>1, <2>2 DEF Service!Cancel, Status
  <2> QED BY <1>4, <2>3
<1> QED
  BY <1>5, <1>6, <1>7

\* A request arrives.
LEMMA ServiceArrives ==
  ASSUME NEW s \in Reqs, \A t \in DOMAIN View : t < s,
         View' = [t \in DOMAIN View \cup {s} |-> IF t = s THEN "queued" ELSE View[t]]
  PROVE  Service!Next
<1>1. View = Status /\ View' = Status'
  BY ViewIsStatus
<1>2. Service!Arrive(s)
  BY <1>1 DEF Service!Arrive, Status
<1> QED
  BY <1>2 DEF Service!Next

\* At first there is nobody.
LEMMA ServiceStarts == Init => Service!Init
<1> SUFFICES ASSUME Init PROVE Service!Init
  OBVIOUS
<1>1. Accepted = {}
  BY DEF Init, Accepted
<1> QED
  BY <1>1 DEF Service!Init

\* There is never a limit above the largest to start with.
LEMMA LimitBelow ==
  ASSUME IInv
  PROVE  limit <= Max(UNION Range(Limits)) /\ limit \in Nat /\ Max(UNION Range(Limits)) \in Nat
<1> DEFINE S == UNION Range(Limits)
<1>1. kind \in Kinds /\ limit \in Limits[kind] /\ Limits \in [Kinds -> SUBSET (Nat \ {0})]
  BY ServingAssumption DEF IInv, SlotInv, SlotType
<1>2. limit \in S /\ S \subseteq Nat /\ IsFiniteSet(S)
  BY <1>1, ServingAssumption DEF Range
<1> HIDE DEF S
<1>3. PICK m \in S : \A y \in S : m >= y
  <2>1. S \subseteq Int
    BY <1>2
  <2> QED BY <1>2, <2>1, FiniteHasMax
<1>4. Max(S) \in S /\ \A y \in S : Max(S) >= y
  BY <1>3 DEF Max
<1> QED
  BY <1>2, <1>4 DEF S

\* What the view says of the line and of the slots.
LEMMA ViewFacts ==
  ASSUME IInv
  PROVE  /\ DOMAIN View = Accepted /\ Accepted \subseteq Reqs
         /\ \A r \in Accepted : View[r] = Seen(phase[r], reply[r])
         /\ \A r \in Accepted : View[r] = "queued" <=> phase[r] = "queued"
         /\ Cardinality({t \in DOMAIN View : View[t] = "running"}) <= Cardinality(Holders)
<1>1. DOMAIN View = Accepted /\ Accepted \subseteq Reqs
  BY DEF View, Accepted
<1>2. \A r \in Accepted : View[r] = Seen(phase[r], reply[r])
  BY DEF View
<1>3. \A r \in Accepted : View[r] = "queued" <=> phase[r] = "queued"
  BY <1>2 DEF Seen
<1>4. {t \in DOMAIN View : View[t] = "running"} \subseteq Holders
  BY <1>1, <1>2 DEF Seen, Holders, HoldPhases
<1>5. Cardinality({t \in DOMAIN View : View[t] = "running"}) <= Cardinality(Holders)
  BY <1>4, ReqsFinite, FS_Subset
<1> QED
  BY <1>1, <1>2, <1>3, <1>5

\* One request moves, and only what is seen of it changes.
LEMMA OneViewChanges ==
  ASSUME NEW r \in Accepted, OnlyMoves(r), phase'[r] # "none", reply'[r] # "refused"
  PROVE  /\ View' = [View EXCEPT ![r] = Seen(phase'[r], reply'[r])]
         /\ Seen(phase'[r], reply'[r]) = View[r] => View' = View
<1>1. r \in Reqs /\ Accepted' = Accepted
  BY DEF Accepted, OnlyMoves
<1>2. View' = [q \in Accepted |-> Seen(phase'[q], reply'[q])]
  BY <1>1 DEF View
<1>3. \A q \in Accepted : q # r => phase'[q] = phase[q] /\ reply'[q] = reply[q]
  BY DEF Accepted, OnlyMoves
<1>4. View = [q \in Accepted |-> View[q]] /\ \A q \in Accepted : View[q] = Seen(phase[q], reply[q])
  BY DEF View
<1> HIDE DEF View
<1>5. View' = [q \in Accepted |-> IF q = r THEN Seen(phase'[r], reply'[r]) ELSE View[q]]
  BY <1>2, <1>3, <1>4
<1>6. View' = [View EXCEPT ![r] = Seen(phase'[r], reply'[r])]
  BY <1>4, <1>5
<1>7. Seen(phase'[r], reply'[r]) = View[r] => View' = View
  BY <1>4, <1>5
<1> QED
  BY <1>6, <1>7

\* A request with a slot goes on, is answered, or is found gone.
LEMMA HolderImplements ==
  ASSUME NEW r \in Reqs, IInv, StreamInv, phase[r] \in HoldPhases, OnlyMoves(r),
         \/ phase'[r] \in HoldPhases /\ reply'[r] = "none"
         \/ phase'[r] = "closing" /\ reply'[r] = "gone"
         \/ phase'[r] = "ended" /\ reply'[r] \notin {"none", "refused"}
  PROVE  Service!Next \/ View' = View
<1>1. r \in Accepted /\ View[r] = "running" /\ r \in DOMAIN View
  <2>1. reply[r] = "none"
    BY DEF StreamInv, StreamOK, AnswerInv, HoldPhases
  <2>2. r \in Accepted
    BY <2>1 DEF Accepted, HoldPhases
  <2> QED BY <2>2, ViewFacts DEF Seen, HoldPhases
<1> DEFINE seen == Seen(phase'[r], reply'[r])
<1>2. View' = [View EXCEPT ![r] = seen] /\ (seen = View[r] => View' = View)
  BY <1>1, OneViewChanges DEF HoldPhases
<1>3. seen \in {"running", "aborted", "finished"}
  BY DEF Seen, HoldPhases
<1> HIDE DEF seen
<1> QED
  BY <1>1, <1>2, <1>3, ServiceSteps

\* A client leaves the line or its turn.
LEMMA InterruptImplements ==
  ASSUME NEW r \in Reqs, NEW answer \in {"504", "gone"}, IInv, StreamInv, Interrupt(r, answer)
  PROVE  Service!Next \/ View' = View
<1>1. /\ phase[r] = "serving" /\ phase'[r] = "ended" /\ reply'[r] = answer
  BY DEF Interrupt, Release, IInv, SlotInv, SlotType, DataType
<1> QED
  BY <1>1, MovesOne, HolderImplements DEF HoldPhases

\* A request arrives, and is refused or waits for a slot.
LEMMA ArrivalImplements ==
  ASSUME NEW r \in Reqs, IInv, StreamInv, LineInv, Reject(r) \/ \E m : Arrive(r, m)
  PROVE  Service!Next \/ View' = View
<1>1. OnlyMoves(r) /\ phase[r] = "none" /\ reply[r] = "none" /\ r \notin Accepted
  BY MovesOne DEF Reject, Arrive, IsNext, StreamInv, StreamOK, AnswerInv, Accepted
<1>2. \A q \in Reqs \ {r} : phase'[q] = phase[q] /\ reply'[q] = reply[q]
  BY <1>1 DEF OnlyMoves
<1>3. View = [q \in Accepted |-> View[q]] /\ DOMAIN View = Accepted
      /\ \A q \in Accepted : View[q] = Seen(phase[q], reply[q])
  BY DEF View
<1>4. CASE Reject(r)
  <2>1. reply'[r] = "refused"
    BY <1>4 DEF Reject, IInv, DataType
  <2>2. Accepted' = Accepted
    BY <1>1, <1>2, <2>1 DEF Accepted
  <2>3. \A q \in Accepted : q \in Reqs \ {r}
    BY <1>1 DEF Accepted
  <2>4. View' = [q \in Accepted |-> Seen(phase'[q], reply'[q])]
    BY <2>2 DEF View
  <2> QED BY <1>2, <2>3, <2>4 DEF View
<1>5. CASE \E m : Arrive(r, m)
  <2>1. phase'[r] = "queued" /\ reply'[r] = "none"
    BY <1>1, <1>5 DEF Arrive, IInv, SlotInv, SlotType
  <2>2. Accepted' = Accepted \cup {r}
    BY <1>1, <1>2, <2>1 DEF Accepted
  <2>3. View' = [q \in Accepted \cup {r} |-> Seen(phase'[q], reply'[q])]
    BY <2>2 DEF View
  <2>4. \A q \in Accepted : q \in Reqs \ {r}
    BY <1>1 DEF Accepted
  <2>5. Seen(phase'[r], reply'[r]) = "queued"
    BY <2>1 DEF Seen
  <2> HIDE DEF View
  <2>6. \A q \in Accepted \cup {r} :
          Seen(phase'[q], reply'[q]) = IF q = r THEN "queued" ELSE View[q]
    BY <1>2, <1>3, <2>4, <2>5
  <2>7. View' = [q \in DOMAIN View \cup {r} |-> IF q = r THEN "queued" ELSE View[q]]
    BY <1>3, <2>3, <2>6
  <2>8. \A q \in DOMAIN View : q < r
    <3>1. \A q \in Accepted : q \in Nat /\ r \in Nat /\ ~(r < q) /\ q # r
      BY <1>1, <2>4 DEF LineInv, Prefix, Accepted, Reqs
    <3> QED BY <1>3, <3>1
  <2> QED BY <2>7, <2>8, ServiceArrives
<1> QED BY <1>4, <1>5

\* The first of the line is let in.
LEMMA AcquireImplements ==
  ASSUME NEW r \in Reqs, IInv, StreamInv, LineInv, Acquire(r)
  PROVE  Service!Next
<1>1. /\ line # <<>> /\ r = Head(line) /\ permits > 0
      /\ phase' = [phase EXCEPT ![r] = "serving"] /\ reply' = reply
  BY DEF Acquire
<1>2. /\ line \in Seq(Reqs) /\ Len(line) \in Nat /\ phase \in [Reqs -> Phases] /\ Reqs \subseteq Nat
      /\ \A q \in Reqs : phase[q] = "queued" <=> \E i \in 1..Len(line) : line[i] = q
  BY LineFacts
<1>3. line[1] = r /\ 1 \in 1..Len(line)
  BY <1>1, <1>2
<1>4. phase[r] = "queued" /\ phase'[r] = "serving" /\ reply[r] = "none" /\ reply'[r] = "none"
  BY <1>1, <1>2, <1>3 DEF StreamInv, StreamOK, AnswerInv
<1>5. r \in Accepted
  BY <1>4 DEF Accepted
<1>6. OnlyMoves(r)
  BY MovesOne DEF Handle
<1>7. View' = [View EXCEPT ![r] = "running"]
  <2>1. Seen("serving", "none") = "running"
    BY DEF Seen, HoldPhases
  <2> QED BY <1>4, <1>5, <1>6, <2>1, OneViewChanges
<1>8. View[r] = "queued" /\ r \in DOMAIN View
  BY <1>4, <1>5, ViewFacts
<1>9. \A t \in DOMAIN View : View[t] = "queued" => r <= t
  <2> SUFFICES ASSUME NEW t \in DOMAIN View, View[t] = "queued" PROVE r <= t
    OBVIOUS
  <2>1. t \in Reqs /\ phase[t] = "queued"
    BY ViewFacts
  <2>2. PICK i \in 1..Len(line) : line[i] = t
    BY <1>2, <2>1
  <2>3. i = 1 \/ line[1] < line[i]
    BY <1>2, <1>3 DEF LineInv, Ascending
  <2> QED BY <1>2, <1>3, <2>1, <2>2, <2>3
<1>10. Cardinality({t \in DOMAIN View : View[t] = "running"}) < Max(UNION Range(Limits))
  <2> DEFINE c == Cardinality({t \in DOMAIN View : View[t] = "running"})
             h == Cardinality(Holders)
             m == Max(UNION Range(Limits))
  <2>1. permits \in Nat /\ limit \in Nat /\ permits + h = limit /\ h \in Nat
    BY ReqsFinite, LimitBelow DEF IInv, SlotInv, SlotType, SlotsExact
  <2>2. c <= h /\ c \in Nat
    <3>1. IsFiniteSet({t \in DOMAIN View : View[t] = "running"})
      BY ReqsFinite, ViewFacts, FS_Subset
    <3> QED BY <3>1, ViewFacts, FS_CardinalityType
  <2>3. limit <= m /\ m \in Nat
    BY LimitBelow
  <2> HIDE DEF c, h, m
  <2>4. c < m
    BY <1>1, <2>1, <2>2, <2>3
  <2> QED BY <2>4 DEF c, m
<1> QED
  BY <1>7, <1>8, <1>9, <1>10, ServiceSteps

\* A handler, and a client that leaves.
LEMMA HandlerImplements ==
  ASSUME NEW r \in Reqs, IInv, StreamInv, LineInv, Handle(r) \/ Disconnect(r)
  PROVE  Service!Next \/ View' = View
<1>1. /\ OnlyMoves(r) /\ phase \in [Reqs -> Phases] /\ AnswerInv(r)
      /\ reply \in [Reqs -> {"none", "refused", "200", "500", "504", "gone", "done"}]
  BY MovesOne, LineFacts DEF StreamInv, StreamOK
<1>2. CASE Advance(r)
  <2>1. PICK e : \/ UNCHANGED <<phase, reply>>
                 \/ ConsumeChunk(r, e) \/ ConsumeError(r, e) \/ ConsumeEnd(r, e)
    BY <1>2 DEF Advance
  <2>2. phase[r] = "serving" /\ reply[r] = "none"
    BY <1>1, <1>2 DEF Advance, AnswerInv
  <2>3. \/ phase'[r] \in HoldPhases /\ reply'[r] = "none"
        \/ phase'[r] = "ended" /\ reply'[r] \in {"200", "500"}
    BY <1>1, <2>1, <2>2 DEF ConsumeChunk, ConsumeError, ConsumeEnd, Release, HoldPhases
  <2> QED BY <1>1, <2>2, <2>3, HolderImplements DEF HoldPhases
<1>3. CASE Send(r)
  <2>1. phase[r] \in {"serving", "failing", "tail"} /\ reply[r] = "none"
    BY <1>1, <1>3 DEF Send, AnswerInv
  <2>2. \/ phase'[r] \in HoldPhases /\ reply'[r] = "none"
        \/ phase'[r] = "ended" /\ reply'[r] = "done"
    BY <1>1, <1>3, <2>1 DEF Send, Release, HoldPhases
  <2> QED BY <1>1, <2>1, <2>2, HolderImplements DEF HoldPhases
<1>4. CASE CloseBody(r)
  <2>1. phase[r] = "left" /\ phase'[r] = "closing" /\ reply'[r] = "gone"
    BY <1>1, <1>4 DEF CloseBody
  <2> QED BY <1>1, <2>1, HolderImplements DEF HoldPhases
<1>5. CASE CloseStream(r)
  <2>1. /\ phase[r] = "closing" /\ reply[r] = "gone" /\ phase'[r] = "ended" /\ reply'[r] = "gone"
    BY <1>1, <1>5 DEF CloseStream, AnswerInv
  <2>2. r \in Accepted /\ Seen("closing", "gone") = "aborted" /\ Seen("ended", "gone") = "aborted"
    BY <2>1 DEF Accepted, Seen, HoldPhases
  <2> QED BY <1>1, <2>1, <2>2, ViewFacts, OneViewChanges
<1>6. CASE Disconnect(r) /\ phase[r] = "queued"
  <2>1. phase[r] = "queued" /\ phase'[r] = "ended" /\ reply[r] = "none" /\ reply'[r] = "gone"
    BY <1>1, <1>6 DEF Disconnect, Interrupt, AnswerInv
  <2>2. r \in Accepted /\ r \in DOMAIN View /\ View[r] = "queued"
    <3>1. r \in Accepted
      BY <2>1 DEF Accepted
    <3> QED BY <2>1, <3>1, ViewFacts
  <2>3. Seen("ended", "gone") = "aborted"
    BY DEF Seen, HoldPhases
  <2>4. View' = [View EXCEPT ![r] = "aborted"]
    BY <1>1, <2>1, <2>2, <2>3, OneViewChanges
  <2> QED BY <2>2, <2>4, ServiceSteps
<1>7. CASE Disconnect(r) /\ phase[r] # "queued" /\ ~Interrupt(r, "gone")
  <2>1. /\ phase[r] \in {"serving", "failing", "tail"} /\ phase'[r] = "left"
        /\ reply'[r] = reply[r] /\ reply[r] = "none"
    BY <1>1, <1>7 DEF Disconnect, AnswerInv
  <2> QED BY <1>1, <2>1, HolderImplements DEF HoldPhases
<1> QED
  BY <1>2, <1>3, <1>4, <1>5, <1>6, <1>7, InterruptImplements, AcquireImplements DEF Handle

\* Every step of the application is one of the service, or none.
LEMMA NextImplements ==
  ASSUME IInv, StreamInv, LineInv, [Next]_vars
  PROVE  Service!Next \/ View' = View
<1>1. CASE UNCHANGED <<phase, reply>>
  BY <1>1 DEF View, Accepted
<1>2. ASSUME NEW r \in Reqs, Timeout(r) PROVE Service!Next \/ View' = View
  BY <1>2, InterruptImplements DEF Timeout
<1>3. ASSUME NEW r \in Reqs, AbortCall(r) PROVE Service!Next \/ View' = View
  BY <1>1, <1>3 DEF AbortCall, httpVars
<1> QED
  BY <1>1, <1>2, <1>3, ArrivalImplements, HandlerImplements DEF Next, vars, httpVars

\* The semaphore lets requests into the application first come first served, for any
\* number of requests, any limit and on every backend: a client that leaves the line
\* disturbs nobody, and a request in flight keeps its slot until it ends.
THEOREM ServingImplementsService == Spec => ImplementsService
<1>1. Init => IInv /\ StreamInv /\ LineInv
  BY InitIInv, InitStream, InitLine
<1>2. IInv /\ StreamInv /\ LineInv /\ [Next]_vars => (IInv /\ StreamInv /\ LineInv)'
  BY NextIInv, NextStream, NextLine
<1>3. IInv /\ StreamInv /\ LineInv /\ [Next]_vars => [Service!Next]_Status
  BY ViewIsStatus, NextImplements
<1> QED
  BY <1>1, <1>2, <1>3, ServiceStarts, PTL DEF Spec, ImplementsService, Service!Spec, Status
=============================================================================
