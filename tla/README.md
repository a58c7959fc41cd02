# llm_serve in TLA+

`llm_serve` serves a language model over an OpenAI-compatible HTTP API, with
interchangeable engines behind it, a continuous-batching scheduler of its own,
and a benchmark harness. This directory models the engine package (how KV-cache
memory is paged, shared and freed; how requests are batched, preempted and
resumed), the serving path (an HTTP request, its slot, its stream, its backend,
its metrics), the load generator with its GPU sampler, and what is computed from
inputs: configurations, request bodies, histograms, aggregates.

## The system

| Component | State | Operations | Hard behaviour |
|---|---|---|---|
| `engine/block_manager.py` | free list, reference counts, block tables, lengths | `allocate`, `append_tokens`, `free`, `pin`, `unpin`, `reset` | one missing or extra reference in any order of calls; ceilings at block boundaries |
| `engine/prefix_cache.py` | LRU map from chained block hash to pinned block | `lookup`, `insert`, `evict`, `clear`, capacity | an entry outlives the sequence that computed its block |
| `engine/scheduler.py` | waiting, running and swapped queues, requests by id | `add_request`, `step` (decode, resume, prefill in flight, admission), `finish`, `abort` | preemption in the middle of the loops of a step, livelock, order of the queues |
| `engine/stats.py` | sliding window of events | `record`, `batch_size_histogram` | window edges |
| `api/app.py`, `types.py` | semaphore, accumulators, metrics | `_handle`, `stream_completion`, `run_completion` | a client that leaves, or a timeout, between any two awaits; generators closed later by the event loop |
| `backends/base.py`, `mock.py` | active ids, abort flags | `generate_stream`, `abort` | an abort racing the end of the stream |
| `backends/vllm_backend.py`, `trtllm_backend.py`, `triton_backend.py`, `ray_backend.py` | wrappers around external engines; Triton's one callback stream | the same interface | a shared stream, outputs that are cumulative, errors in the middle |
| `bench/loadgen.py` | limiter, workers or tasks, records | closed and open loop, `run_one` | deadlines, failures and cancels, latency accounting |
| `bench/gpu_monitor.py` | sampling thread, stop flag, NVML handle | `start`, `stop` | a driver call that hangs while `stop()` waits |
| `metrics/registry.py`, `metrics/math.py`, `bench/aggregate.py` | buckets, counts, records | `observe`, quantiles, percentiles, `aggregate` | bucket boundaries, failed requests in the statistics |
| `config.py`, `api/openai_schemas.py`, `api/chat_template.py` | none while serving | layers and coercion, validation, the template | an option set by several layers, a field of an unexpected type, a message the template drops |
| `bench/report.py`, `workload.py`, `server.py`, scripts | none | formatting, random workloads, start-up | none that a model checker reaches |

How they interact: the HTTP layer turns a request into a `GenerationRequest`,
waits for a slot of the semaphore, iterates a backend's `generate_stream` and
calls its `abort` when a client leaves or a timeout fires; every result is
observed by the metrics. The scheduler owns a block manager and a prefix cache,
calls both directly and is called from one thread. The prefix cache holds
references on blocks of the manager through `pin` and `unpin`. The load
generator drives a backend directly, with the GPU sampler's thread beside it.

What makes each part correct:

- *block manager*: a reference count is the number of holders, the free list is
  the set of unheld blocks, a table fits its tokens and never moves;
- *prefix cache*: an entry holds one pin, its block still holds the KV of its
  key, and nobody shares a block that is still being filled;
- *scheduler*: a request is in the queue its status says, memory belongs to
  running requests and cache entries only, the token budget holds, requests are
  served in arrival order, the oldest keeps running, every request ends, and an
  end is final;
- *serving*: permits and what a backend keeps for a request go on every way out,
  frames keep the stream protocol, each result is counted once, requests are let
  in first come first served, and each is answered or found gone;
- *load generator, GPU monitor*: one record per issued request, measured inside
  the window and within the concurrency; the sampler is stopped however the run
  ends, and the run ends;
- *inputs*: the last layer wins, an accepted chat keeps every message, quantiles
  and windows agree with the observations they were made from, and failures do
  not flatter a benchmark.

`PROJECT.json` lists the hazards of the code, at their lines, with the properties
that cover each.

## Modules

`KVBlocks` states the pool as operators on a record `[free, ref, table, len]`.
`PrefixIndex` EXTENDS it with the cache's index as operators on a record
`[order, block]`. The component modules and the scheduler share these
definitions, so what is said of the pool alone is said of the pool the scheduler
uses. `Serving` EXTENDS `Backends`, `LoadGen` EXTENDS `GPUMonitor`, and each
composes the steps of the two.

| Module | Models |
|---|---|
| `KVBlocks` | the operations of the block manager; exceptions are the predicates `AllocateOK`, `CanAppend`, `PinOK` |
| `BlockManager` | a state machine making every legal sequence of calls; `pins` counts what callers pinned |
| `PrefixIndex` | `hash_blocks`, `lookup` (`Match` is its result, `Touch` its effect), `insert`, eviction |
| `PrefixCache` | cache over pool, as the scheduler uses the two: admit with a match, grow, publish, release, evict |
| `Scheduler` | `add_request`, `step`, `finish`, `abort` over the two |
| `FCFSService` | abstract: slots are given to the oldest request, only running requests finish, ends are final. Both `Scheduler` and `Serving` implement it |
| `Backends` | `generate_stream` and `abort` of the five backends, one suspension to the next |
| `Serving` | `_handle`, `stream_completion`, `run_completion`, the semaphore, the accumulator and the metrics, over a backend |
| `GPUMonitor` | the sampling thread, `start`, `stop` with its join timeout |
| `LoadGen` | `run_benchmark`: warmup, the sampler around the window, closed and open loop, cancel |
| `Config`, `Requests`, `Metrics` | layered configuration; request bodies and the chat template; histograms, percentiles, the tracker's window and `aggregate` |
| `Inputs` | the three as parts of one state machine over bounded inputs |
| `PoolProofs` | lemmas on the operators of `KVBlocks` and `PrefixIndex` |
| `FoldProofs` | lemmas on sums over sets and sequences, and induction over the subsets of a finite set |
| `BlockManagerProofs`, `PrefixCacheProofs`, `SchedulerProofs`, `ServingProofs`, `LoadGenProofs`, `InputsProofs` | theorems about the module each is named for |
| `MC*` | instances for TLC |

Decisions a reader should know.

*Engine.*

- *Time inside a step.* `step()` is four loops. One iteration of a loop is one
  action; `phase` says which loop, `todo` is the rest of the snapshot
  `list(self.running)`. The scheduler takes no lock and is called from one thread,
  so `add_request`, `finish` and `abort` are enabled between steps only. The
  intermediate states make the preemptions inside a step visible to the
  invariants.
- *The free list is a set.* Which free block `pop()` returns cannot be observed
  through the interface. `Fresh` takes any; being a CHOOSE it takes the same one
  in the same state.
- *Chained hashes are injective.* A block's key is the token prefix it covers.
- *`written`* is a ghost that records for which token prefix the KV of a block was
  computed. It is the only way to say that sharing a block is harmless. A freed
  block loses its content. Generated tokens are written as the negated id of
  their sequence, so no two sequences generate alike. Swapping a sequence out
  and back is taken to restore the tokens it had computed.
- *Ids and arrival.* Ids are numbered in the order of `add_request`. With
  `Arrivals = "clock"` the arrival time is the clock's and strictly increases;
  with `"explicit"` the caller passes any, as the parameter allows, and ties
  are broken by id, as strings in the code and as numbers here. `OldestKeepsRunning` is stated for the clock: a prefill in
  flight whose chunk does not fit is preempted without a look at its age, and
  with explicit times it can be the oldest.
- *Early finish.* `EarlyFinish` says when `finish()` is called: `"batch"` is the
  engine reporting a stop string for a sequence of the last batch, `"any"` is a
  call for any known request.
- *Counters* behind `stats()`, wall-clock times and log output are left out.

*Serving.*

- *Coroutines.* A generator runs from one suspension to the next, and what it does
  there is its event: it waits, yields a text chunk, yields the final chunk, ends
  or raises. The consumer of an event acts in the same step, as asyncio schedules
  nothing between a `yield` and its consumer. Everything else interleaves: other
  requests, aborts, timeouts, clients that leave while queued, at an await inside
  the generator, or while a frame is being sent.
- *Closing.* A client that leaves during a send closes the outer generator at its
  `yield`; the generators below it are closed later, one after the other, by the
  event loop. `phase` goes through `"left"` and `"closing"`, and other requests run
  in between.
- *Engines are external.* Their outputs are chosen freely: new text or none, a
  reason with the last, an error, but no more than `max_tokens` new texts.
- *Frames* are their kinds (role, text, final, error, done); the text is left out.
  The two histograms are their counts, as `Metrics` has their buckets.

*Load generator.* `start()` may meet no driver, a driver that fails behind `nvmlInit()`, or
a thread that cannot be started (`Outcomes`); `opened` is NVML between `nvmlInit()` and
`nvmlShutdown()`, apart from `_nvml`, which names it only when all went well. The
latter failure, and a sampling interval that is refused, come before the `try`. The clock has `MaxTime` ticks and does not advance while the
event loop has something to run. A stream takes any time. `stop()` blocks the
event loop for the join. When the pacer of an open loop is cancelled in its sleep, the tasks it
created are not in a `gather()` yet: they go on, and the model lets them.

*Inputs.* A value is a type and a text, or a class (`"empty"`, `"number"`, ...), one
option or field for each kind of check. Times are integers, and quantiles are
scaled by 100 where a float would be interpolated. Samples are a function on any finite
set of indices, a list being one on 1 to its length; `Ordered` says what `sorted()`
returns by ranks, not how it sorts.

## Runs

| Run | Shows | Bounds, and why they are enough |
|---|---|---|
| `block_manager` | reference counts, free list, tables, under every order of calls | 3 blocks of 2 tokens, 2 sequences of up to 5 tokens, 2 pins: full and partial tables, sharing, an exhausted pool |
| `prefix_cache` | sharing never serves wrong KV | 5 blocks, 3 prompts sharing a block, capacity 3 below the number of publishable keys, so entries are evicted while in use |
| `recompute` | queues, budget, FCFS order, refinement of `FCFSService`, termination | 4 blocks and 2 slots for 3 requests of up to 6 tokens: two fit only until they grow, so preemption happens; a budget of 2 splits the 3-token prompt; one waiting place |
| `prefix` | sharing through chunks, preemption and readmission, and the watermark, with arrival times chosen by the caller and `finish()` on queued requests | 4 blocks, watermark 1, prompts that share a block, one ending on a boundary (its last block is then recomputed) |
| `swap` | memory accounting and progress survive swapping, prompts are prefilled whole without chunking, the oldest keeps running, a step with work forms a batch or brings a request back, termination | 3 slots and up to 5 generated tokens, so that two swapped sequences wait behind one running; no watermark (see below) |
| `serving` | permits, backend state, frames, one observation per request, first come first served, every request settles | 2 requests of 2 tokens, collected, streamed or a chat; five backends; one slot, where requests queue, or two, where their generators overlap |
| `bench` | one record each, measured in the window, the sampler stops, the run ends | 3 items for 1 or 2 workers, with a deadline after 1 of 2 ticks or none; a burst and a pause; a warmup, a GPU whose driver may fail or hang; plans that are refused, one option each |
| `inputs` | layers, chats, quantiles, windows, aggregates | 3 layers, 4 messages, 4 observations, 4 records: each pair of layers, of roles, of neighbouring buckets |

Four runs end in a violation and document a disagreement:

- `pinned_pool`: with prefix caching on, the cache's pins are never released for
  a running request. One whose prompt and output fit the empty pool is admitted
  to what is left, preempts itself and is readmitted forever, although
  `scheduler.py:354-356` says the victim policy guarantees that the queue drains.
- `swap_finish`: `finish()` on a sequence swapped out in the step that decoded it
  leaves it in `swapped`, from where it runs again.
- `open_loop`: the TTFT of an open-loop request starts when it passes the
  limiter, so the time it queued since its arrival is not in it.
- `requests_received`: `registry.py:239` says of `requests_total` that it counts
  "Completion requests received.", but requests that time out, are cancelled, are
  refused, or fail when they are collected are in no series of it. `MetricsExact`, in
  `serving`, says that what is observed is observed once; not that it is all.

Four more instances reproduce a disagreement and are kept beside the runs; check them
with `tlc -config <cfg> <module>`:

- `MCSchedulerSwapBatch.cfg` (`BatchKeepsItsBlocks`): under swap preemption a sequence
  can be decoded and then preempted in the same step, because resumed sequences are
  queued behind newer ones; the batch, `scheduler.py:98`, then names a sequence that
  has no blocks.
- `MCSchedulerSwapWatermark.cfg` (`EveryRequestEnds`): resuming a swapped sequence
  respects the watermark, growing did not: one that held more than the pool less the
  watermark is never brought back, even by an empty pool, although
  `scheduler.py:258` says it returns once its blocks fit.
- `MCInputsRate.cfg` (`RateIsUsable`): a request rate given on the command line stays
  a string, as the default is `None` (`config.py:201`), and `validate()` raises
  `TypeError` instead of starting the open loop that `src/README.md:310` describes.
- `MCLoadGenUnusable.cfg` (`NoOpWithoutNVML`): the monitor is "A no-op when NVML is
  unavailable." (`gpu_monitor.py:88`), but when a driver call behind `nvmlInit()` fails,
  `start()` returns False with NVML open, and `stop()` does not close what `_nvml` does
  not name.

Every request in the scheduler's instances fits the empty pool when alone. One that does
not preempts itself forever; that is listed as a hazard.

`NoStepIsWasted` is what the error of `run_until_idle()` (`scheduler.py:421`) denies: a
step with work to do forms a batch, or at least brings a swapped request back (a chunk or
a decode of it follows in the next step). It is false, and the loop goes on with empty steps,
in `MCSchedulerPinnedPool.cfg` and in `MCSchedulerSwapWatermark.cfg`; when a request may
ask for more tokens than the pool holds; and when chunking is off and a prompt is longer
than the budget. `waiting_can_progress()` notices none of the four.

**Fairness.**

- `Scheduler`: `WF_vars(Step)`. Whoever owns the scheduler keeps calling `step()`, as
  `run_until_idle()` does, and a step, once begun, runs to its end. Nothing is
  assumed of arrivals, `finish()` and `abort()`.
- `Serving`: `WF_vars(Handle(r))` for each request: the event loop resumes each task
  that can go on, and an engine answers in the end, with an output or an error.
  Nothing is assumed of clients, aborts and timeouts.
- `LoadGen`: the event loop, the clock up to its bound, the end of every stream, and
  the sampling thread when it is not inside NVML. An NVML call need not return,
  and no cancel has to come.

**Deadlock** is checked everywhere; an idle scheduler can always take an empty
step, and a finished part stutters explicitly.

**Refinement.** `Scheduler` and `Serving` implement `FCFSService`, which numbers
requests as they are accepted, each above all before it (the application skips the
numbers of those it refuses). `Slots` is `MaxNumSeqs` for the first, the largest of
the limits for the second. Both refinements are proved as well.


## Proofs

**Pool.** `PoolProofs` proves, for every block size, pool size and set of ids, that
each pool operation preserves `PoolInv`: the type, exact reference counts, and a free
list that is exactly the unreferenced blocks. The parts that carry the argument:

- `TableSlotsSplit`: the table entries that name a block are those of one sequence
  plus those of the others, so a count changes by what one table gains or loses;
- `FreshBlocks` and `AllocateDemand`, `AppendDemand`: popping n blocks is possible
  exactly under the guards of the code, and gives n distinct free blocks;
- `CeilingDivision`, `AllocateFits`, `AppendFits`: the arithmetic of block
  boundaries.

`BlockManagerProofs` composes them. `TypeOK`, `RefCountsExact`, `FreeListExact`
and `TablesFit` are inductive only together: a count that is exact is needed to
know that releasing a table frees only blocks nobody else holds, and the free
list must be exact for a popped block to be new. Their conjunction with the
domains is the inductive invariant `IInv`; the theorems `TypeCorrect`,
`RefCounting`, `FreeListCorrect`, `TablesFitAlways` and `TablesGrowOnly` follow,
from `KVAssumption` (positive sizes, a watermark below the pool) and
`BoundsAssumption` (the two bounds are natural numbers) only.

**Prefix cache.** `PoolProofs` also has the lemmas on lookup, insertion, eviction and on
what the blocks hold. `PrefixCacheProofs` proves `PinsExactAlways`,
`SharedBlocksAlwaysFinal` and `ReadsOwnKVAlways`: sharing is invisible for any
capacity, pool, set of prompts and number of sequences. That a sequence reads its
own KV is not inductive: a block could be written by a second reader. The inductive
invariant `IInv` joins `PoolInv` with the references the entries hold as pins,
`IndexInv` (the LRU order lists each entry once) and `ContentInv`: tables and entries
name blocks that hold their prefix, and a block that is not full has one place, in
one table, and no entry. The last part is the argument: a call writes into blocks
that are new or not full, which nobody else reads. Assumed: `KVAssumption`,
`CacheAssumption`, `PrefixCacheAssumption`.

**Sums.** The library defines `SumFunctionOnSet` by a function recursive over the subsets
of a set, in an order CHOOSE picks. `FoldProofs` proves that the order is immaterial:
the function exists, and the sum of a set is what any one element adds to the sum of
the rest. Strict inclusion is well-founded on the subsets of a finite set; the
induction is over a set of subsets, not over a predicate, which keeps it within
the prover's reach. The token budget, the token counter and the latencies below are
such sums. `FiniteHasMax` comes from the same induction.

**Scheduler, memory.** `SchedulerProofs` proves, for every configuration, arrival order and
use of `finish()` and `abort()`: `SchedulerTypes`, `MemoryAlwaysAccounted`,
`OwnKVAlways`, `SharedBlocksAlwaysFull` and `WatermarkAlwaysKept`, through every iteration
of the loops of `step()`. `IInv` has four parts: `MemoryInv` is the cache's
invariant over the streams of the running requests; `RequestsInv` the type;
`QueuesInv` says that the three queues share no id and have none twice, but not which
status their members have, since `finish()` can break that; `HoldingInv` says
that the running requests are those with a table, as long as what they computed,
that a swapped request has computed something, and a waiting one has generated
nothing. The watermark follows from `can_allocate` and from insertion, which
frees no block. Assumed: `KVAssumption`, `CacheAssumption`, `SchedulerAssumption`.

**Scheduler, order.** The second half of `SchedulerProofs` has what depends on the callers.

- For every configuration: `PrefillsAlwaysWhole`, and `ProgressAlwaysKept` for swap
  preemption, from `PrefillInv`.
- `InOrder` is clock arrivals and recompute preemption. Under it the line
  (running, then waiting) is in arrival order: the victim of a preemption is the newest
  running request and is requeued at the head, so it moves across the boundary
  only (`LineInv`); a partial prompt is the newest, because a chunk that does not
  complete its prompt uses up the budget (`ChunkInv`). Theorems
  `AlwaysInArrivalOrder`, `AlwaysOnePartialPrefill`.
- `Engine` adds that `finish()` is called for the last batch, or never. The decode loop
  meets the requests in the order of the line, so its victim, the newest, is never
  one it has scheduled already, and what a step schedules keeps running
  (`BatchInv`, theorem `BatchAlwaysKeepsItsBlocks`). So a stop of the last batch
  hits a running request, and queues keep matching statuses (`StatusInv`,
  theorems `QueuesAlwaysMatch`, `EndsAreFinal`; these two also hold with any
  arrivals and preemption when `finish()` is not called).
- For every configuration, `BatchAlwaysWithinBudget`. That a batch has no request twice
  is what needs an argument, since preempted requests come back into the queues the
  later loops of the same step read. `BudgetInv` says why they are not taken again: the
  decode and chunk loops meet a request once (`TurnsInv`), what was decoded has its
  prompt computed for as long as it holds tokens, and what was preempted to the waiting
  queue is at its head in `out.preempted`, where it stops the admissions.
- `OldestAlwaysKeepsRunning`: a running request is preempted only while an older one
  runs. Its hypotheses are those under which the code means it: times from the clock;
  each request fits the pool alone (`FitsAlone`), else it preempts itself; no
  prefix caching, since entries can hold the blocks a lone request needs; and
  prompts that come whole, or recompute preemption, under which a chunk in flight is the
  newest request. The argument is `AloneCanAppend`: when no older request runs and
  every younger one has been preempted, the pool is empty but for the request itself,
  and `FitsAlone` gives it its block. `AgeInv` supplies that its tokens are below what
  it may generate. `MCSchedulerSwap.cfg` is such a configuration.
- `EveryStepWorks`: no step is wasted (`NoStepIsWasted` as above), in any configuration that is `Orderly`: times from
  the clock; no prefix caching; recompute preemption, or prompts that come whole; and an
  empty pool that admits each request and holds it to its end (`ServesAny`, the four cases
  above). Callers may add, finish and abort as they like. `WorkInv` follows a step while
  its batch is empty. The loop over the decodes has the oldest running request before it,
  or has passed it because its prompt is not computed (`AnOlderOneRuns`: the preemptions
  do not reach it). So at the end of that loop nothing was preempted, and what runs is
  one prompt in flight or nothing (`DecodesEnd`). A prompt in flight uses the budget,
  which is whole (`EmptyBatch`); and when nothing runs, the pool is free (`NothingHeld`),
  so the requests swapped out come back and the head of the queue is admitted
  (`ResumesAlone`, `AdmitsAlone`).
- `EngineImplementsService`: the refinement of `FCFSService`. Every step maps to a step of
  the service or to none, from all of the above: the head of `waiting` is the
  oldest queued request, the victim is the newest running one, and the running list
  has no id twice, so its length bounds the slots in use.

The hypotheses are needed: the runs `swap_finish` and the instance
`MCSchedulerSwapBatch.cfg` break the conclusions without them.

**Serving path.** `ServingProofs` proves `TypeCorrect`, `SlotsAlwaysExact` (a slot of
the semaphore is held exactly by the requests being served, and waiters queue
once) and `BackendStateAlwaysExact` (a backend knows a request exactly while its
generator is alive), for any number of requests, any backend, any limit. The
second is not inductive alone: a generator is created by the request that holds
the slot, and closed by the event loop after that request has left. The
inductive invariant `IInv` joins what the backend keeps (`BackendInv`: types, the
tokens a generator has left, owned ids), what the semaphore keeps (`SlotInv`),
the types of the rest, and `PhaseOwned`: a generator is alive only in the phases
serving, left and closing. Assumed: `BackendsAssumption`, `ServingAssumption`.

On top of it:

- `StreamsAlwaysWellFormed`. `StreamInv` describes the text of a stream, sent and in
  flight, by its shape: role frames, as many texts as the accumulator has tokens, and
  an end that the phase determines (`EndsAt`): nothing while the generator runs, the
  final frame once it stands behind its last yield, an error frame while the handler
  fails, and [DONE] behind either. Each frame extends the shape by one; that a final
  frame is never followed by an error or by text is a fact of the generators
  (`GenerateEvents`: behind its last chunk one can only end).
- `MetricsAlwaysExact`: by the shape, a request starts to count in exactly the step that
  observes it, and never stops; so the counters and the sum of tokens grow by that one
  request. Requests that time out or leave change no text.
- `ServingImplementsService`: every step is one of `FCFSService` or none. The oldest
  queued request is the head of the line because arrivals are numbered in order
  (`Prefix`) and the line is ascending, also after a client left from its middle
  (`LineInv`); a free permit is a free slot by `SlotsExact`; and an answer ends a
  request that held a slot, by `StreamInv`. `ServingAssumption` asks for finitely many
  limits, so that there is a largest one.

**Load generator.** `LoadGenProofs` proves for every plan, concurrency and number of
items:

- `SamplerAlwaysStops`: the sampler does not outlive the run, by any way out of
  it, and NVML does not stay open when it sampled. `MonitorInv` relates where the run is
  to the thread, its stop flag and the NVML handle; a thread stuck in a driver call is
  the one exception, as in the property. What a start that failed leaves open is not
  claimed closed: `MCLoadGenUnusable.cfg` shows that it is not.
- `OneRecordEachAlways`: each issued request has one record, and a run that ended
  has issued all that it should have. `ItemsInv` says that the places an item can
  be in (next, queued, in flight, recorded) are disjoint and cover the items
  issued; that items issued are below `next`; and, for the closed loop, that
  while items are left and no deadline has passed some worker will take the next.
- `AlwaysMeasuredInWindow`: `TimeInv` adds the times of what is in flight, of what was
  issued and of what was recorded, each bounded by the clock: a stream's latencies
  account for the time since it began (`RunOnTime`), so its record fits between its
  start and now; the workers a closed loop has yet to start count towards its
  concurrency (`Capacity`), and no record is written after the window closed.

Assumed: `LoadGenAssumption`, `GPUMonitorAssumption`.

**Inputs.** `InputsProofs` proves, from `MetricsAssumption` only:

- `LastLayerAlwaysWins`, for any contents of the three layers. The invariant `ConfigInv`
  says of every layer applied so far what the property says of all (`Won`), and
  `CoerceWins` is the step: a value that was coerced to the type of what a lower layer
  left, and not to that of the default, still has its text, and the type of the default
  unless a null or a boolean came between.
- `SeriesAlwaysMatchHistory`, for any observations, ascending bounds, window and steps.
  `SeriesInv` has the counts, totals and the window; the rest is a fact about any
  samples. `OrderedRank`: each rank below the number of samples is the rank of one of
  them. `PercentileRank` and `PercentileGrows` hold for every whole q from 0 to 100: the
  percentile lies between the values of two neighbouring ranks, and interpolation keeps
  the order (`Between`). `QuantileInBucket`: the first bucket that counts as many
  samples as the rank asks for has the value of that rank between its bounds, or it is
  the +Inf bucket and that value exceeds the last bound. `HistogramTotal`: the counts by
  batch size are a partition, a sum over subsets of the sizes. `PushKeepsRecent`: a full
  window drops its oldest snapshot.
- `FailuresNeverFlatter`: a record that failed changes neither the set of good records nor
  what is computed from it (`FailedLeaves`), and only enlarges the denominator.
- `PromptAlwaysKeepsConversation`, for chats of any length. `Rendered` says of the parts
  made of the first messages what the property says of the whole prompt: which texts are
  in it, in which order, and how many marks stand before each. `RenderedStep` adds one
  message, by the number of its turn (`TurnPiece`), and `RenderIs` is the induction, over
  the number of messages, `FlattenSeq` being the repeated appending of `FlattenSteps`. In
  an accepted chat the turns alternate from the user (`UsersAlternate`), so the number of
  a turn gives the number of users before it. The system's texts are a part of the first
  turn (`SystemPartsAre`). `ChatInv` says that an answer of 200 was given to such a chat.

**Model-checked only.** `EveryRequestEnds`, `EveryRequestSettles` and `BenchmarkEnds`:
liveness under fairness and `ENABLED` are out of the prover's reach. Every other property
of a passing run is proved.

Each proof module is checked with `tlapm <module>.tla`.

## Not modelled

- `bench/report.py`, `bench/workload.py`, `server.py`, scripts, deployment files:
  formatting, random inputs, start-up. They keep no state that outlives a call.
- Counters behind `stats()`, gauges, the text format of `/metrics`, the layout of
  responses, YAML parsing, log output: nothing in the program reads them back.
- vLLM, TensorRT-LLM, Triton and Ray themselves, `asyncio.Semaphore`, NVML: modelled from
  how the code uses them.
- Retries, persistence, restarts: the code has none.

What was read, is not the subject of a run, and a maintainer should know:

- A template that rejects a chat raises `TemplateError`, and a `stop` that is a number
  a `TypeError`; both are answered by 500, not 400.
- `bench.duration_s` given on the command line stays a string, as the request rate
  does; `max_concurrent_requests` is not validated.
- The flag that `abort` sets after a timeout (`app.py:184`) has no generator left to
  clear it, and stays.
- The executor thread of a Triton stream (`triton_backend.py:136`) outlives a generator
  that is closed while the thread waits for an answer.
- The TTFT histogram starts its clock behind the semaphore (`app.py:58`), the time in
  the queue is not in it.
