------------------------------ MODULE Scheduler ------------------------------
(***************************************************************************)
(* The continuous-batching scheduler of llm_serve/engine/scheduler.py with *)
(* its block manager and its prefix cache.                                 *)
(*                                                                         *)
(* add_request, finish and abort are one action each.  step() is a program *)
(* of four loops; each iteration of a loop is an action, and phase and     *)
(* todo say where the program is (todo is the snapshot list(self.running)  *)
(* a loop walks).  Nothing else happens while a step runs: the scheduler   *)
(* is called from one thread.                                              *)
(*                                                                         *)
(* Left out: wall-clock times other than the arrival order, and the        *)
(* counters behind stats().                                                *)
(***************************************************************************)
EXTENDS PrefixIndex

CONSTANTS
  MaxNumSeqs,           \* max_num_seqs
  MaxNumBatchedTokens,  \* max_num_batched_tokens
  ChunkedPrefill,       \* enable_chunked_prefill
  MaxWaiting,           \* max_waiting
  PreemptionMode,       \* "recompute" or "swap"
  NumRequests,          \* bound: requests that ever arrive
  Prompts,              \* the prompts they may carry
  MaxTokensChoices,     \* the max_tokens they may ask for
  Arrivals,             \* "clock" or "explicit": see AddRequest
  EarlyFinish           \* "never", "batch" or "any": see FinishEarly

ASSUME SchedulerAssumption ==
  /\ MaxNumSeqs \in Nat \ {0}
  /\ MaxNumBatchedTokens \in Nat \ {0}
  /\ ChunkedPrefill \in BOOLEAN
  /\ MaxWaiting \in Nat \ {0}
  /\ PreemptionMode \in {"recompute", "swap"}
  /\ NumRequests \in Nat \ {0}
  /\ \A p \in Prompts : p \in Seq(Nat) /\ p # <<>>
  /\ MaxTokensChoices \subseteq Nat
  /\ Arrivals \in {"clock", "explicit"}
  /\ EarlyFinish \in {"never", "batch", "any"}
  /\ MaxEntries = NoLimit   \* the scheduler gives its prefix cache no capacity

VARIABLES
  kv, cache,  \* block_manager, prefix_cache
  seqs,       \* _by_id: id -> request
  waiting, running, swapped,  \* the queues, as sequences of ids
  phase,      \* "idle", or the loop of step() that is running
  todo,       \* ids the running loop has still to visit
  budget,     \* tokens left in this step
  out,        \* the SchedulerOutput of this step, or of the last one
  written     \* ghost: block -> token prefix of the KV in it

vars == <<kv, cache, seqs, waiting, running, swapped, phase, todo, budget, out, written>>

EmptyOut == [prefills |-> <<>>, decodes |-> <<>>, preempted |-> <<>>, finished |-> <<>>]

Init ==
  /\ kv = EmptyPool
  /\ cache = EmptyIndex
  /\ seqs = <<>>
  /\ waiting = <<>> /\ running = <<>> /\ swapped = <<>>
  /\ phase = "idle" /\ todo = <<>> /\ budget = 0
  /\ out = EmptyOut
  /\ written = NothingWritten

-----------------------------------------------------------------------------
(* SequenceGroup *)

PromptLen(s) == Len(seqs[s].prompt)
PrefillDone(s) == seqs[s].prefilled >= PromptLen(s)
Computed(s) == seqs[s].prefilled + seqs[s].generated
RemainingPrefill(s) == NonNegative(PromptLen(s) - seqs[s].prefilled)
IsFinished(s) == seqs[s].status \in {"finished", "aborted"}

\* _priority: earlier arrival first, ties broken by id; the numbers stand for strings,
\* so the order is the code's as long as the ids have as many digits.
Before(s, t) ==
  \/ seqs[s].arrival < seqs[t].arrival
  \/ seqs[s].arrival = seqs[t].arrival /\ s < t

\* Tokens of s up to the n-th: its prompt, then what it generated.
Stream(s, n) == [i \in 1..n |-> IF i <= PromptLen(s) THEN seqs[s].prompt[i] ELSE -s]

-----------------------------------------------------------------------------
(* add_request() *)

\* A full queue, an empty prompt and a known id raise: no step.  Ids count up in
\* the order of the calls.  The arrival time is the clock's, or the caller's.
AddRequest(prompt, max, arrival) ==
  LET s == Len(seqs) + 1
  IN /\ phase = "idle"
     /\ Len(waiting) < MaxWaiting
     /\ Len(seqs) < NumRequests
     /\ Arrivals = "clock" => arrival = s
     /\ seqs' = Append(seqs, [prompt |-> prompt, max |-> max, arrival |-> arrival,
                              status |-> "waiting", prefilled |-> 0, generated |-> 0,
                              cached |-> 0])
     /\ waiting' = Append(waiting, s)
     /\ UNCHANGED <<kv, cache, running, swapped, phase, todo, budget, out, written>>

-----------------------------------------------------------------------------
(* step(): _preempt() and _finish(), shared by its loops *)

\* Mutant: swap preemption restarts the request as recompute does.
PreemptedRestarts(r) ==
  [r EXCEPT !.status = IF PreemptionMode = "swap" THEN "swapped" ELSE "waiting",
            !.prefilled = r.cached, !.generated = 0]

\* The request's record once it is preempted.
Preempted(r) ==
  IF PreemptionMode = "swap"
  THEN [r EXCEPT !.status = "swapped"]
  ELSE [r EXCEPT !.status = "waiting", !.prefilled = r.cached, !.generated = 0]

\* Mutant: a preempted request goes to the back of the queue.
PreemptToTail(v) ==
  /\ kv' = FreeSequence(kv, v)
  /\ running' = Without(running, {v})
  /\ seqs' = [seqs EXCEPT ![v] = Preempted(@)]
  /\ out' = [out EXCEPT !.preempted = Append(@, v)]
  /\ IF PreemptionMode = "swap"
     THEN swapped' = Append(swapped, v) /\ UNCHANGED waiting
     ELSE waiting' = Append(waiting, v) /\ UNCHANGED swapped
  /\ written' = Keep(written, kv')

\* Mutant: a preempted request is not queued again.
PreemptLost(v) ==
  /\ kv' = FreeSequence(kv, v)
  /\ running' = Without(running, {v})
  /\ seqs' = [seqs EXCEPT ![v] = Preempted(@)]
  /\ out' = [out EXCEPT !.preempted = Append(@, v)]
  /\ UNCHANGED <<waiting, swapped>>
  /\ written' = Keep(written, kv')

\* Mutant: the blocks of a preempted request are not freed.
PreemptKeepsBlocks(v) ==
  /\ running' = Without(running, {v})
  /\ seqs' = [seqs EXCEPT ![v] = Preempted(@)]
  /\ out' = [out EXCEPT !.preempted = Append(@, v)]
  /\ IF PreemptionMode = "swap"
     THEN swapped' = Append(swapped, v) /\ UNCHANGED waiting
     ELSE waiting' = <<v>> \o waiting /\ UNCHANGED swapped
  /\ UNCHANGED <<kv, written>>

Preempt(v) ==
  /\ kv' = FreeSequence(kv, v)
  /\ running' = Without(running, {v})
  /\ seqs' = [seqs EXCEPT ![v] = Preempted(@)]
  /\ out' = [out EXCEPT !.preempted = Append(@, v)]
  /\ IF PreemptionMode = "swap"
     THEN swapped' = Append(swapped, v) /\ UNCHANGED waiting
     ELSE waiting' = <<v>> \o waiting /\ UNCHANGED swapped
  /\ written' = Keep(written, kv')

\* Pool and index once s is finished: its prompt is published if it is computed,
\* then its blocks are freed.
Finished(pool, s) ==
  LET st == IF PrefillDone(s)
            THEN Insert([kv |-> pool, cache |-> cache], seqs[s].prompt, BlockTable(pool, s))
            ELSE [kv |-> pool, cache |-> cache]
  IN [st EXCEPT !.kv = FreeSequence(@, s)]

-----------------------------------------------------------------------------
(* step(): _schedule_decodes() *)

BeginStep ==
  /\ phase = "idle"
  /\ phase' = "decode"
  /\ todo' = running
  /\ budget' = MaxNumBatchedTokens
  /\ out' = EmptyOut
  /\ UNCHANGED <<kv, cache, seqs, waiting, running, swapped, written>>

InLoop(loop) == phase = loop /\ todo # <<>>

StillRunning(s) == seqs[s].status = "running" /\ Contains(running, s)

DecodeSkip ==
  /\ InLoop("decode")
  /\ LET s == Head(todo) IN ~StillRunning(s) \/ ~PrefillDone(s)
  /\ todo' = Tail(todo)
  /\ UNCHANGED <<kv, cache, seqs, waiting, running, swapped, phase, budget, out, written>>

\* The head of todo is a running sequence with its prompt computed, and there
\* is budget for one more token.
DecodeTurn(s) ==
  /\ InLoop("decode")
  /\ s = Head(todo)
  /\ StillRunning(s) /\ PrefillDone(s)
  /\ budget >= 1

\* Mutant: the oldest other running sequence is the victim.
IsVictimOldest(v, s) ==
  LET others == {t \in ToSet(running) : t # s /\ ~IsFinished(t)}
  IN \/ others = {} /\ v = s
     \/ v \in others /\ \A t \in others : t = v \/ Before(v, t)

\* _pick_preemption_victim(): the newest other running sequence, but s itself
\* when there is none newer than s.
IsVictim(v, s) ==
  LET others == {t \in ToSet(running) : t # s /\ ~IsFinished(t)}
      newer  == {t \in others : Before(s, t)}
  IN \/ newer = {} /\ v = s
     \/ v \in newer /\ \A t \in newer : t = v \/ Before(t, v)

\* One turn of `while not can_append`; the loop ends when s itself is gone.
DecodePreempt ==
  \E s, v \in DOMAIN seqs :
    /\ DecodeTurn(s)
    /\ ~CanAppend(kv, s, 1)
    /\ IsVictim(v, s)
    /\ Preempt(v)
    /\ todo' = IF v = s THEN Tail(todo) ELSE todo
    /\ UNCHANGED <<cache, phase, budget>>

DecodeToken ==
  \E s \in DOMAIN seqs :
    LET grown == AppendTokens(kv, s, 1)
        wrote == Compute(written, grown.table[s], kv.len[s], Stream(s, kv.len[s] + 1))
        done  == seqs[s].generated + 1 >= seqs[s].max
        st    == Finished(grown, s)
    IN /\ DecodeTurn(s)
       /\ CanAppend(kv, s, 1)
       /\ seqs' = [seqs EXCEPT ![s].generated = @ + 1,
                               ![s].status = IF done THEN "finished" ELSE @]
       /\ IF done
          THEN /\ kv' = st.kv
               /\ cache' = st.cache
               /\ running' = Without(running, {s})
          ELSE /\ kv' = grown
               /\ UNCHANGED <<cache, running>>
       /\ written' = Keep(wrote, kv')
       /\ out' = [out EXCEPT !.decodes = Append(@, s),
                             !.finished = IF done THEN Append(@, s) ELSE @]
       /\ budget' = budget - 1
       /\ todo' = Tail(todo)
       /\ UNCHANGED <<waiting, swapped, phase>>

\* The snapshot is exhausted, or the budget runs out at a sequence that needs it.
EndDecodes ==
  /\ phase = "decode"
  /\ \/ todo = <<>>
     \/ /\ todo # <<>> /\ budget < 1
        /\ StillRunning(Head(todo)) /\ PrefillDone(Head(todo))
  /\ phase' = "resume"
  /\ todo' = <<>>
  /\ UNCHANGED <<kv, cache, seqs, waiting, running, swapped, budget, out, written>>

-----------------------------------------------------------------------------
(* step(): _schedule_swapped() *)

ResumeFits(s) == Len(running) < MaxNumSeqs /\ CanAllocate(kv, Computed(s), 0)

\* Mutant: only the prompt gets its blocks back.
ResumeTokensPrompt(s) == PromptLen(s)

ResumeTokens(s) == IF Computed(s) < 1 THEN 1 ELSE Computed(s)

\* The KV swapped out is copied back into fresh blocks.
ResumeSwapped ==
  /\ phase = "resume" /\ swapped # <<>>
  /\ LET s == Head(swapped)
         n == ResumeTokens(s)
     IN /\ ResumeFits(s)
        /\ kv' = Allocate(kv, s, n, <<>>)
        /\ written' = Compute(written, kv'.table[s], 0, Stream(s, n))
        /\ seqs' = [seqs EXCEPT ![s].status = "running"]
        /\ running' = Append(running, s)
  /\ swapped' = Tail(swapped)
  /\ UNCHANGED <<cache, waiting, phase, todo, budget, out>>

EndResumes ==
  /\ phase = "resume"
  /\ swapped # <<>> => ~ResumeFits(Head(swapped))
  /\ phase' = "chunk"
  /\ todo' = running
  /\ UNCHANGED <<kv, cache, seqs, waiting, running, swapped, budget, out, written>>

-----------------------------------------------------------------------------
(* step(): _schedule_prefills(), chunked prefills in flight *)

\* Mutant: a chunk is not limited by the budget.
ChunkUnlimited(s) == RemainingPrefill(s)

\* Mutant: a chunk stops one token short of the prompt.
ChunkShort(s) ==
  IF RemainingPrefill(s) <= budget THEN RemainingPrefill(s) - 1 ELSE budget

\* The tokens the next chunk of s takes; none when it must wait.
Chunk(s) ==
  CASE RemainingPrefill(s) <= budget -> RemainingPrefill(s)
    [] RemainingPrefill(s) > budget  -> IF ChunkedPrefill THEN budget ELSE 0

ChunkSkip ==
  /\ InLoop("chunk")
  /\ LET s == Head(todo) IN ~StillRunning(s) \/ PrefillDone(s) \/ Chunk(s) = 0
  /\ todo' = Tail(todo)
  /\ UNCHANGED <<kv, cache, seqs, waiting, running, swapped, phase, budget, out, written>>

ChunkTurn(s) ==
  /\ InLoop("chunk")
  /\ s = Head(todo)
  /\ StillRunning(s) /\ ~PrefillDone(s) /\ Chunk(s) > 0

\* The blocks of the chunk cannot be had: append_tokens() raises.
ChunkPreempt ==
  \E s \in DOMAIN seqs :
    /\ ChunkTurn(s)
    /\ ~CanAppend(kv, s, Chunk(s))
    /\ Preempt(s)
    /\ todo' = Tail(todo)
    /\ UNCHANGED <<cache, phase, budget>>

ChunkContinue ==
  \E s \in DOMAIN seqs :
    LET n == Chunk(s)
    IN /\ ChunkTurn(s)
       /\ CanAppend(kv, s, n)
       /\ kv' = AppendTokens(kv, s, n)
       /\ written' = Compute(written, kv'.table[s], kv.len[s], Stream(s, kv.len[s] + n))
       /\ seqs' = [seqs EXCEPT ![s].prefilled = @ + n]
       /\ budget' = budget - n
       /\ out' = [out EXCEPT !.prefills = Append(@, <<s, n>>)]
       /\ todo' = Tail(todo)
       /\ UNCHANGED <<cache, waiting, running, swapped, phase>>

EndChunks ==
  /\ phase = "chunk" /\ todo = <<>>
  /\ phase' = "admit"
  /\ UNCHANGED <<kv, cache, seqs, waiting, running, swapped, todo, budget, out, written>>

-----------------------------------------------------------------------------
(* step(): _schedule_prefills(), admission of the waiting queue *)

\* The loop reaches the lookup for the head of the queue.
AdmitTurn ==
  /\ phase = "admit"
  /\ waiting # <<>> /\ Len(running) < MaxNumSeqs /\ budget >= 1
  /\ ~Contains(out.preempted, Head(waiting))

Uncached(s) == PromptLen(s) - Len(Match(cache, seqs[s].prompt)) * BlockSize

\* Mutant: a prompt is split although chunking is disabled.
AdmitFitsSplit(s) == CanAllocate(kv, PromptLen(s), Len(Match(cache, seqs[s].prompt)))

AdmitFits(s) ==
  /\ ChunkedPrefill \/ Uncached(s) <= budget
  /\ CanAllocate(kv, PromptLen(s), Len(Match(cache, seqs[s].prompt)))

\* Once can_allocate() holds allocate() cannot raise, so the code's handler for
\* that is never reached.
Admit ==
  /\ AdmitTurn
  /\ LET s      == Head(waiting)
         match  == Match(cache, seqs[s].prompt)
         cached == Len(match) * BlockSize
         chunk  == IF Uncached(s) < budget THEN Uncached(s) ELSE budget
         pool   == Allocate(kv, s, cached + chunk, match)
         index  == Touch(cache, seqs[s].prompt)
         st     == IF cached + chunk >= PromptLen(s)
                   THEN Insert([kv |-> pool, cache |-> index], seqs[s].prompt, pool.table[s])
                   ELSE [kv |-> pool, cache |-> index]
     IN /\ AdmitFits(s)
        /\ kv' = st.kv
        /\ cache' = st.cache
        /\ written' = Compute(written, pool.table[s], cached, Stream(s, cached + chunk))
        /\ seqs' = [seqs EXCEPT ![s].status = "running", ![s].cached = cached,
                                ![s].prefilled = cached + chunk]
        /\ running' = Append(running, s)
        /\ budget' = budget - chunk
        /\ out' = [out EXCEPT !.prefills = Append(@, <<s, chunk>>)]
  /\ waiting' = Tail(waiting)
  /\ UNCHANGED <<swapped, phase, todo>>

\* The head of the queue has to wait.  A lookup made for it counts as a use of
\* the entries it hits.
EndStep ==
  /\ phase = "admit"
  /\ \/ ~AdmitTurn /\ UNCHANGED cache
     \/ /\ AdmitTurn /\ ~AdmitFits(Head(waiting))
        /\ cache' = Touch(cache, seqs[Head(waiting)].prompt)
  /\ phase' = "idle"
  /\ budget' = 0
  /\ UNCHANGED <<kv, seqs, waiting, running, swapped, todo, out, written>>

-----------------------------------------------------------------------------
(* finish() and abort() *)

\* The engine ran the last batch, and a stop string or EOS ended a sequence of
\* it ("batch"); or the caller finishes any request it knows ("any").
MayFinish(s) ==
  \/ EarlyFinish = "any"
  \/ /\ EarlyFinish = "batch"
     /\ \/ Contains(out.decodes, s)
        \/ PrefillDone(s) /\ \E i \in DOMAIN out.prefills : out.prefills[i][1] = s

FinishEarly(s) ==
  LET st == Finished(kv, s)
  IN /\ phase = "idle"
     /\ MayFinish(s)
     /\ ~IsFinished(s)
     /\ kv' = st.kv
     /\ cache' = st.cache
     /\ written' = Keep(written, kv')
     /\ running' = Without(running, {s})
     /\ seqs' = [seqs EXCEPT ![s].status = "finished"]
     /\ UNCHANGED <<waiting, swapped, phase, todo, budget, out>>

\* Mutant: only the running list is searched.
AbortRunningOnly(s) ==
  /\ phase = "idle"
  /\ ~IsFinished(s)
  /\ kv' = FreeSequence(kv, s)
  /\ written' = Keep(written, kv')
  /\ running' = Without(running, {s})
  /\ seqs' = [seqs EXCEPT ![s].status = "aborted"]
  /\ UNCHANGED <<cache, waiting, swapped, phase, todo, budget, out>>

Abort(s) ==
  /\ phase = "idle"
  /\ ~IsFinished(s)
  /\ kv' = FreeSequence(kv, s)
  /\ written' = Keep(written, kv')
  /\ waiting' = Without(waiting, {s})
  /\ running' = Without(running, {s})
  /\ swapped' = Without(swapped, {s})
  /\ seqs' = [seqs EXCEPT ![s].status = "aborted"]
  /\ UNCHANGED <<cache, phase, todo, budget, out>>

-----------------------------------------------------------------------------

Step ==
  \/ BeginStep
  \/ DecodeSkip \/ DecodePreempt \/ DecodeToken \/ EndDecodes
  \/ ResumeSwapped \/ EndResumes
  \/ ChunkSkip \/ ChunkPreempt \/ ChunkContinue \/ EndChunks
  \/ Admit \/ EndStep

Next ==
  \/ \E p \in Prompts, m \in MaxTokensChoices, a \in 1..NumRequests : AddRequest(p, m, a)
  \/ Step
  \/ \E s \in DOMAIN seqs : FinishEarly(s) \/ Abort(s)

Spec == Init /\ [][Next]_vars

\* run_until_idle(): whoever owns the scheduler keeps calling step().
FairSpec == Spec /\ WF_vars(Step)

-----------------------------------------------------------------------------
(* Safety properties *)

TypeOK ==
  /\ PoolType(kv, DOMAIN seqs) /\ IndexType(cache)
  /\ phase \in {"idle", "decode", "resume", "chunk", "admit"}
  /\ budget \in 0..MaxNumBatchedTokens
  /\ \A s \in DOMAIN seqs :
       /\ seqs[s].status \in {"waiting", "running", "swapped", "finished", "aborted"}
       /\ seqs[s].prefilled \in 0..PromptLen(s)
       /\ seqs[s].generated \in Nat
       /\ seqs[s].cached \in 0..(PromptLen(s) - 1)

\* A request is in exactly one queue, once, and it is the queue its status says;
\* a finished or aborted one is in none.  Preemption, early finish and abort all
\* move requests between the three lists by hand.
QueuesMatchStatus ==
  /\ IsInjective(waiting \o running \o swapped)
  /\ \A s \in DOMAIN seqs :
       /\ Contains(waiting, s) <=> seqs[s].status = "waiting"
       /\ Contains(running, s) <=> seqs[s].status = "running"
       /\ Contains(swapped, s) <=> seqs[s].status = "swapped"

\* Memory is accounted for across scheduler, block manager and cache: exactly the
\* running sequences have tables, a table holds exactly the tokens its sequence
\* has computed, and every other reference is an entry of the prefix cache.
MemoryAccounted ==
  /\ RefsExact(kv, EntryPins(cache)) /\ FreeExact(kv)
  /\ DOMAIN kv.table = ToSet(running)
  /\ \A s \in DOMAIN kv.table : /\ kv.len[s] = Computed(s)
                                /\ TableFits(kv.table[s], kv.len[s])

\* The KV a sequence would attend to is its own, block by block, after any
\* chunking, sharing, preemption and resumption.
SequencesReadTheirOwnKV ==
  \A s \in DOMAIN kv.table : \A i \in DOMAIN kv.table[s] :
    written[kv.table[s][i]] = Prefix(Stream(s, kv.len[s]), i)

\* A cached block still holds KV of the prefix it is keyed by, and the block a
\* sequence is still filling is shared with nobody.
SharedBlocksAreFull ==
  /\ \A k \in DOMAIN cache.block : written[cache.block[k]] = k
  /\ \A s \in DOMAIN kv.table :
       LET last == Len(kv.table[s])
       IN kv.len[s] < last * BlockSize => kv.ref[kv.table[s][last]] = 1

\* The batch respects the token budget, and never schedules a sequence twice.
BatchTokens ==
  Len(out.decodes) + SumFunction([i \in DOMAIN out.prefills |-> out.prefills[i][2]])

Scheduled == out.decodes \o [i \in DOMAIN out.prefills |-> out.prefills[i][1]]

BatchWithinBudget ==
  /\ BatchTokens <= MaxNumBatchedTokens
  /\ phase # "idle" => BatchTokens + budget = MaxNumBatchedTokens
  /\ IsInjective(Scheduled)

\* "The batch to run for one engine step": whatever a step schedules still has its
\* blocks when the step returns, unless the step itself finished it.
BatchKeepsItsBlocks ==
  phase = "admit" =>
    \A i \in DOMAIN Scheduled :
      Contains(running, Scheduled[i]) \/ Contains(out.finished, Scheduled[i])

\* First come, first served: every running request arrived before every waiting
\* one and both queues are in arrival order, through preemption (newest first,
\* requeued at the head) and readmission.
ArrivalOrder ==
  LET line == running \o waiting
  IN \A i, j \in DOMAIN line : i < j => Before(line[i], line[j])

\* At most one running sequence is partly prefilled, and it is the newest: a long
\* prompt is never overtaken halfway by a later one.
OnePartialPrefill ==
  \A i \in DOMAIN running : ~PrefillDone(running[i]) => i = Len(running)

\* With chunking disabled no running sequence is partly prefilled: a prompt waits
\* until the budget left by the decodes takes it whole.
PrefillsAreWhole ==
  ChunkedPrefill \/ \A i \in DOMAIN running : PrefillDone(running[i])

-----------------------------------------------------------------------------
(* Action properties *)

LeavesRunning(s) ==
  /\ seqs[s].status = "running"
  /\ seqs'[s].status \in {"waiting", "swapped"}

\* "The oldest request in flight is never the victim" while another one runs.
OldestKeepsRunning ==
  [][\A s \in DOMAIN seqs : LeavesRunning(s) =>
       \E t \in ToSet(running) : Before(t, s)]_vars

\* A sequence joins the running ones only if the watermark stays free.
WatermarkKept ==
  [][ToSet(running') \subseteq ToSet(running) \/ NumFree(kv') >= WatermarkBlocks]_vars

\* Finished and aborted are final.
EndedStaysEnded ==
  [][\A s \in DOMAIN seqs : IsFinished(s) => seqs'[s].status = seqs[s].status]_vars

\* Under swap preemption no computed token is lost.
ProgressIsKept ==
  [][\A s \in DOMAIN seqs : seqs'[s].prefilled >= seqs[s].prefilled
                          /\ seqs'[s].generated >= seqs[s].generated]_vars

\* "Deadlocked: no batch can be formed" does not happen: the decodes of a step end with a
\* token, or with nobody preempted and nobody running whose prompt is computed; and a
\* step that leaves work behind has formed a batch, or has swapped a request in.
NoStepIsWasted ==
  [][/\ phase = "decode" /\ phase' = "resume" =>
          \/ out.decodes # <<>>
          \/ out.preempted = <<>> /\ \A s \in ToSet(running) : ~PrefillDone(s)
     /\ phase = "admit" /\ phase' = "idle" =>
          \/ running = <<>> /\ waiting = <<>> /\ swapped = <<>>
          \/ Scheduled # <<>>
          \/ PreemptionMode = "swap" /\ running # <<>>]_vars

-----------------------------------------------------------------------------
(* Refinement *)

Service ==
  INSTANCE FCFSService WITH
    Numbers <- 1..NumRequests,
    Slots   <- MaxNumSeqs,
    status  <- [s \in DOMAIN seqs |->
                  IF seqs[s].status \in {"waiting", "swapped"} THEN "queued"
                                                              ELSE seqs[s].status]

\* The scheduler is a first-come first-served service with MaxNumSeqs slots:
\* batching, chunking, preemption and early finish are invisible to the callers
\* except as a request losing its slot to older ones.
ImplementsService == Service!Spec

-----------------------------------------------------------------------------
(* Liveness *)

\* Every request that was added ends: no preemption livelock, no starvation.
EveryRequestEnds ==
  \A s \in 1..NumRequests :
    (s \in DOMAIN seqs) ~> (s \in DOMAIN seqs /\ IsFinished(s))
=============================================================================
