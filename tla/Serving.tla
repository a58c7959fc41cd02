------------------------------ MODULE Serving ------------------------------
(***************************************************************************)
(* The HTTP application: _handle(), stream_completion() and                *)
(* run_completion() over a backend, the semaphore that bounds the requests *)
(* in flight, and the serving metrics.  A request ends normally, by an     *)
(* error, by a timeout, or because its client leaves, at an await inside   *)
(* the generator or while a frame is being sent; in the last case its      *)
(* generators are closed later, one after the other, by the event loop.    *)
(***************************************************************************)
EXTENDS Backends, SequencesExt, FiniteSetsExt

CONSTANTS
  Limits,       \* server.max_concurrent_requests: the values to start with, per kind
  DirectAborts  \* requests on which abort() may also be called while they run

ASSUME ServingAssumption ==
  /\ Limits \in [Kinds -> SUBSET (Nat \ {0})] /\ IsFiniteSet(UNION Range(Limits))
  /\ DirectAborts \subseteq Reqs

VARIABLES
  limit,    \* server.max_concurrent_requests
  phase,    \* where the handler of a request is
  mode,     \* "collect", "stream" or "chat" (a stream that starts with a role frame)
  line,     \* requests waiting for the semaphore, first come first served
  permits,  \* what is left of the semaphore
  pending,  \* frames handed to the transport and not yet sent
  sent,     \* frames the client was sent
  acc,      \* ResultAccumulator of a request
  reply,    \* how the request was answered
  metrics   \* ServingMetrics: counters and numbers of observations

httpVars == <<limit, phase, mode, line, permits, pending, sent, acc, reply, metrics>>
vars == <<backendVars, httpVars>>

\* requests_total by status, tokens_generated_total, and the counts of the two histograms.
Series == {"ok", "error", "tokens", "ttft", "itl"}

Init ==
  /\ BackendInit
  /\ phase = [r \in Reqs |-> "none"]
  /\ mode = [r \in Reqs |-> "collect"]
  /\ line = <<>> /\ limit \in Limits[kind] /\ permits = limit
  /\ pending = [r \in Reqs |-> <<>>] /\ sent = [r \in Reqs |-> <<>>]
  /\ acc = [r \in Reqs |-> [tokens |-> 0, itls |-> 0, finish |-> "stop"]]
  /\ reply = [r \in Reqs |-> "none"]
  /\ metrics = [m \in Series |-> 0]

Frames == {"role", "text", "final", "error", "done"}

Streaming(r) == mode[r] # "collect"

-----------------------------------------------------------------------------
(* Accumulator and metrics *)

\* Mutant: the first token is a gap too.
AccAddFirst(a, e) ==
  IF e = "text" THEN [a EXCEPT !.tokens = @ + 1, !.itls = @ + 1] ELSE [a EXCEPT !.finish = e]

AccAdd(a, e) ==
  IF e = "text" THEN [a EXCEPT !.tokens = @ + 1, !.itls = IF a.tokens = 0 THEN @ ELSE @ + 1]
                ELSE [a EXCEPT !.finish = e]

\* observe_result(): one request, its tokens, one TTFT, the gaps between tokens.
ObserveResult(r, status) ==
  metrics' = [m \in Series |->
    metrics[m] + (CASE m = status   -> 1
                    [] m = "tokens" -> acc[r].tokens
                    [] m = "ttft"   -> IF acc[r].tokens = 0 THEN 0 ELSE 1
                    [] m = "itl"    -> acc[r].itls
                    [] OTHER        -> 0)]

-----------------------------------------------------------------------------
(* Arrival *)

\* The first request not seen yet; the earlier ones are in or answered.
IsNext(r) == /\ phase[r] = "none"
             /\ \A q \in 1..(r - 1) : phase[q] # "none"

\* A wrong key (401), a body that is malformed or invalid (400).
Reject(r) ==
  /\ IsNext(r)
  /\ phase' = [phase EXCEPT ![r] = "ended"]
  /\ reply' = [reply EXCEPT ![r] = "refused"]
  /\ UNCHANGED <<backendVars, mode, limit, line, permits, pending, sent, acc, metrics>>

Arrive(r, m) ==
  /\ IsNext(r)
  /\ phase' = [phase EXCEPT ![r] = "queued"]
  /\ mode' = [mode EXCEPT ![r] = m]
  /\ line' = Append(line, r)
  /\ UNCHANGED <<backendVars, limit, permits, pending, sent, acc, reply, metrics>>

\* Mutant: any request of the line is let in.
AcquireAny(r) ==
  /\ r \in Range(line) /\ permits > 0
  /\ line' = SelectSeq(line, LAMBDA q : q # r) /\ permits' = permits - 1
  /\ phase' = [phase EXCEPT ![r] = "serving"]
  /\ pending' = [pending EXCEPT ![r] = IF mode[r] = "chat" THEN <<"role">> ELSE <<>>]
  /\ UNCHANGED <<backendVars, limit, mode, sent, acc, reply, metrics>>

Acquire(r) ==
  /\ line # <<>> /\ r = Head(line) /\ permits > 0
  /\ line' = Tail(line) /\ permits' = permits - 1
  /\ phase' = [phase EXCEPT ![r] = "serving"]
  /\ pending' = [pending EXCEPT ![r] = IF mode[r] = "chat" THEN <<"role">> ELSE <<>>]
  /\ UNCHANGED <<backendVars, limit, mode, sent, acc, reply, metrics>>

\* Mutant: the permit is not given back.
ReleaseNone(r, answer) ==
  /\ UNCHANGED permits
  /\ phase' = [phase EXCEPT ![r] = "ended"]
  /\ reply' = [reply EXCEPT ![r] = answer]

\* Leaving `async with ctx.semaphore` with an answer.
Release(r, answer) ==
  /\ permits' = permits + 1
  /\ phase' = [phase EXCEPT ![r] = "ended"]
  /\ reply' = [reply EXCEPT ![r] = answer]

-----------------------------------------------------------------------------
(* Consuming a generator *)

ConsumeChunk(r, e) ==
  /\ e \in {"text"} \cup FinishReasons
  /\ acc' = [acc EXCEPT ![r] = AccAdd(@, e)]
  /\ pending' = [pending EXCEPT ![r] =
       IF Streaming(r) THEN <<IF e = "text" THEN "text" ELSE "final">> ELSE <<>>]
  /\ UNCHANGED <<phase, permits, reply, metrics>>

\* The backend raised: an error frame for a stream, a 500 for the others.
ConsumeError(r, e) ==
  /\ e = "raise"
  /\ \/ /\ Streaming(r)
        /\ pending' = [pending EXCEPT ![r] = <<"error">>]
        /\ phase' = [phase EXCEPT ![r] = "failing"]
        /\ UNCHANGED <<permits, reply>>
     \/ ~Streaming(r) /\ Release(r, "500") /\ UNCHANGED pending
  /\ UNCHANGED <<acc, metrics>>

ConsumeEnd(r, e) ==
  /\ e = "end"
  /\ ObserveResult(r, "ok")
  /\ \/ /\ Streaming(r)
        /\ pending' = [pending EXCEPT ![r] = <<"done">>]
        /\ phase' = [phase EXCEPT ![r] = "tail"]
        /\ UNCHANGED <<permits, reply>>
     \/ ~Streaming(r) /\ Release(r, "200") /\ UNCHANGED pending
  /\ UNCHANGED acc

Advance(r) ==
  /\ phase[r] = "serving" /\ pending[r] = <<>>
  /\ \E e \in {"wait", "text", "raise", "end"} \cup FinishReasons :
       /\ Generate(r, e)
       /\ \/ e = "wait" /\ UNCHANGED <<phase, permits, pending, acc, reply, metrics>>
          \/ ConsumeChunk(r, e) \/ ConsumeError(r, e) \/ ConsumeEnd(r, e)
  /\ UNCHANGED <<mode, limit, line, sent>>

\* Mutant: no return after the error frame, the normal end follows.
SendNoReturn(r) ==
  /\ phase[r] \in {"serving", "failing", "tail"} /\ pending[r] # <<>>
  /\ sent' = [sent EXCEPT ![r] = @ \o pending[r]]
  /\ IF phase[r] = "tail"
     THEN /\ pending' = [pending EXCEPT ![r] = <<>>]
          /\ Release(r, "done") /\ UNCHANGED metrics
     ELSE /\ pending' = [pending EXCEPT ![r] = IF phase[r] = "serving" THEN <<>>
                                                                   ELSE <<"done", "done">>]
          /\ phase' = [phase EXCEPT ![r] = IF @ = "serving" THEN @ ELSE "tail"]
          /\ UNCHANGED <<permits, reply, metrics>>
  /\ UNCHANGED <<backendVars, limit, mode, line, acc>>

\* The transport takes a frame.  After the error frame the request is counted
\* and [DONE] follows; after [DONE] the response is complete.
Send(r) ==
  /\ phase[r] \in {"serving", "failing", "tail"} /\ pending[r] # <<>>
  /\ sent' = [sent EXCEPT ![r] = @ \o pending[r]]
  /\ CASE phase[r] = "serving" ->
            /\ pending' = [pending EXCEPT ![r] = <<>>]
            /\ UNCHANGED <<phase, permits, reply, metrics>>
       [] phase[r] = "failing" ->
            /\ ObserveResult(r, "error")
            /\ pending' = [pending EXCEPT ![r] = <<"done">>]
            /\ phase' = [phase EXCEPT ![r] = "tail"]
            /\ UNCHANGED <<permits, reply>>
       [] phase[r] = "tail" ->
            /\ pending' = [pending EXCEPT ![r] = <<>>]
            /\ Release(r, "done") /\ UNCHANGED metrics
  /\ UNCHANGED <<backendVars, mode, limit, line, acc>>

-----------------------------------------------------------------------------
(* Interrupts *)

\* CancelledError inside the generator: it is closed before abort() is called.
Interrupt(r, answer) ==
  /\ phase[r] = "serving" /\ pending[r] = <<>> /\ Waiting(r)
  /\ CloseGenerator(r) /\ AbortEngine(r)
  /\ aborted' = FlagsAborted(FlagsClosed(r), r)
  /\ Release(r, answer)
  /\ UNCHANGED <<kind, mode, limit, line, pending, sent, acc, metrics>>

\* wait_for() gives up on run_completion(); a stream has no timeout.
Timeout(r) == ~Streaming(r) /\ Interrupt(r, "504")

\* The client leaves: while queued, at an await inside the generator, or during
\* the send of a frame, when all generators stay suspended at their yields.
Disconnect(r) ==
  /\ Streaming(r)
  /\ \/ Interrupt(r, "gone")
     \/ /\ phase[r] = "queued"
        /\ \E i \in DOMAIN line : line[i] = r /\ line' = RemoveAt(line, i)
        /\ phase' = [phase EXCEPT ![r] = "ended"]
        /\ reply' = [reply EXCEPT ![r] = "gone"]
        /\ UNCHANGED <<backendVars, limit, mode, permits, pending, sent, acc, metrics>>
     \/ /\ phase[r] \in {"serving", "failing", "tail"} /\ pending[r] # <<>>
        /\ phase' = [phase EXCEPT ![r] = "left"]
        /\ UNCHANGED <<backendVars, mode, limit, line, permits, pending, sent, acc, reply, metrics>>

\* Mutant: the permit is given back even if it was not taken.
CloseBodyTwice(r) ==
  /\ phase[r] = "left"
  /\ phase' = [phase EXCEPT ![r] = "closing"]
  /\ permits' = permits + 2
  /\ reply' = [reply EXCEPT ![r] = "gone"]
  /\ UNCHANGED <<backendVars, mode, limit, line, pending, sent, acc, metrics>>

\* The event loop closes body(), which gives the permit back ...
CloseBody(r) ==
  /\ phase[r] = "left"
  /\ phase' = [phase EXCEPT ![r] = "closing"]
  /\ permits' = permits + 1
  /\ reply' = [reply EXCEPT ![r] = "gone"]
  /\ UNCHANGED <<backendVars, mode, limit, line, pending, sent, acc, metrics>>

\* ... and later the generators inside it: no CancelledError, so no abort().
CloseStream(r) ==
  /\ phase[r] = "closing"
  /\ phase' = [phase EXCEPT ![r] = "ended"]
  /\ CloseGenerator(r) /\ aborted' = FlagsClosed(r)
  /\ UNCHANGED <<kind, engine, mode, limit, line, permits, pending, sent, acc, reply, metrics>>

\* abort() called by the holder of a running stream, as test_mock_backend.py does.
AbortCall(r) ==
  /\ r \in DirectAborts /\ Live(r)
  /\ aborted' = FlagsAborted(aborted, r) /\ AbortEngine(r)
  /\ UNCHANGED <<kind, gen, active, stream, httpVars>>

-----------------------------------------------------------------------------

Handle(r) == Acquire(r) \/ Advance(r) \/ Send(r) \/ CloseBody(r) \/ CloseStream(r)

Quiet == \A r \in Reqs : phase[r] = "ended"

Next ==
  \/ \E r \in Reqs :
       \/ \E m \in {"collect", "stream", "chat"} : Arrive(r, m)
       \/ Reject(r) \/ Handle(r) \/ Timeout(r) \/ Disconnect(r)
       \/ AbortCall(r)
  \/ Quiet /\ UNCHANGED vars

Spec == Init /\ [][Next]_vars

\* The event loop runs every coroutine that can go on, the engine produces its
\* outputs and the transport takes frames.  Nothing makes a client leave, an
\* abort happen or a timeout fire.
FairSpec == Spec /\ \A r \in Reqs : WF_vars(Handle(r))

-----------------------------------------------------------------------------
(* Properties *)

TypeOK ==
  /\ kind \in Kinds /\ limit \in Limits[kind] /\ permits \in 0..limit
  /\ gen \in [Reqs -> [pc  : {"none", "prefill", "await", "yielded", "last", "dead"},
                       n   : 0..MaxTokens,
                       fin : FinishReasons]]
  /\ active \subseteq Reqs /\ aborted \subseteq Reqs /\ stream \in Reqs \cup {None}
  /\ engine \in [Reqs -> FinishReasons \cup {"idle", "running", "aborted", "failed"}]
  /\ phase \in [Reqs -> {"none", "queued", "serving", "failing", "tail", "left",
                         "closing", "ended"}]
  /\ mode \in [Reqs -> {"collect", "stream", "chat"}]
  /\ line \in Seq(Reqs)
  /\ pending \in [Reqs -> {<<>>} \cup {<<f>> : f \in Frames}]
  /\ sent \in [Reqs -> Seq(Frames)]
  /\ acc \in [Reqs -> [tokens : Nat, itls : Nat, finish : FinishReasons]]
  /\ reply \in [Reqs -> {"none", "refused", "200", "500", "504", "gone", "done"}]
  /\ metrics \in [Series -> Nat]

Holders == {r \in Reqs : phase[r] \in {"serving", "failing", "tail", "left"}}

\* Every way out of `async with ctx.semaphore` (answer, error, timeout, a client
\* that leaves while queued, at an await or during a send) gives back exactly the
\* permit that was taken, and never one that was not.
SlotsExact ==
  /\ permits + Cardinality(Holders) = limit
  /\ \A r \in Reqs : phase[r] = "queued" <=> r \in Range(line)
  /\ IsInjective(line)

\* What a backend keeps per request (the mock's _active, Triton's open stream)
\* is there exactly while its generator is, even when the client left and the
\* event loop still has to close it; nothing is left when the handler is done.
BackendStateExact ==
  /\ kind = "mock" => active = {r \in Reqs : Live(r)}
  /\ kind = "triton" => \A r \in Reqs : Live(r) <=> stream = r
  /\ \A r \in Reqs : phase[r] = "ended" => ~Live(r)

\* The OpenAI stream protocol, whatever backend and abort: a role frame first and
\* in chats only, the text of each token once, one final frame or an error frame
\* after it and never both, [DONE] after those and last.  A response is complete
\* only with its [DONE].
StreamsWellFormed ==
  \A r \in Reqs :
    LET frames == sent[r] \o pending[r]
        ends   == {i \in DOMAIN frames : frames[i] \in {"final", "error"}}
    IN /\ \A i \in DOMAIN frames : frames[i] = "role" => i = 1 /\ mode[r] = "chat"
       /\ mode[r] = "chat" /\ frames # <<>> => frames[1] = "role"
       /\ Streaming(r) =>
            acc[r].tokens = Cardinality({i \in DOMAIN frames : frames[i] = "text"})
       /\ Cardinality(ends) <= 1
       /\ \A i \in ends : \A j \in DOMAIN frames : j > i => frames[j] = "done"
       /\ \A i \in DOMAIN frames : frames[i] = "done" => i = Len(frames) /\ i - 1 \in ends
       /\ reply[r] = "done" => frames # <<>> /\ Last(frames) = "done" /\ pending[r] = <<>>
       /\ reply[r] = "200" => frames = <<>>

\* A request whose generation ended; one that failed and said so in its stream.
Counted(st) ==
  {r \in Reqs :
     LET frames == sent[r] \o pending[r]
     IN \/ Streaming(r) /\ "done" \in Range(frames)
              /\ (st = "error" <=> "error" \in Range(frames))
        \/ st = "ok" /\ reply[r] = "200"}

TokensOf(S) == SumFunctionOnSet([r \in Reqs |-> acc[r].tokens], S)

\* A request is observed at most once, and all series agree on which ones were: those
\* whose generation ended, or failed in a stream.  A late close, a timeout or a
\* client that leaves between [DONE] and its answer neither adds nor repeats one.
\* They are fewer than requests_total promises: see ReceivedAreCounted.
MetricsExact ==
  /\ metrics.ok = Cardinality(Counted("ok"))
  /\ metrics.error = Cardinality(Counted("error"))
  /\ metrics.tokens = TokensOf(Counted("ok") \cup Counted("error"))
  /\ metrics.tokens = metrics.ttft + metrics.itl

\* Requests that were not refused for their key or their body.
Accepted == {r \in Reqs : phase[r] # "none" /\ reply[r] # "refused"}

\* requests_total counts the completion requests received: all of them in the end, at
\* the least those that the server itself answered.
ReceivedAreCounted ==
  Quiet => metrics.ok + metrics.error
             >= Cardinality({r \in Accepted : reply[r] # "gone"})

Service ==
  INSTANCE FCFSService WITH
    Numbers <- Reqs,
    Slots   <- Max(UNION Range(Limits)),
    status  <- [r \in Accepted |->
                  IF phase[r] = "queued" THEN "queued"
                  ELSE IF r \in Holders THEN "running"
                  ELSE IF phase[r] = "closing" \/ reply[r] = "gone" THEN "aborted"
                  ELSE "finished"]

\* Requests are let in first come first served, a client that leaves the line
\* disturbs nobody, and no request in flight loses its slot before it ends.
ImplementsService == Service!Spec

\* Every request is answered or found gone, on every backend and through every
\* error: no permit, stream or closed generator is waited for in vain.
EveryRequestSettles == \A r \in Reqs : phase[r] # "none" ~> phase[r] = "ended"
=============================================================================
