------------------------------ MODULE LoadGen ------------------------------
(***************************************************************************)
(* run_benchmark(): warmup, the GPU sampler around the measured window,    *)
(* and the closed loop (workers that take the next item) or the open loop  *)
(* (a pacer that issues items on schedule, behind a limiter), with one     *)
(* record per request.  The backend is external: a stream yields tokens,   *)
(* ends or raises when it likes.  Time is a clock of MaxTime ticks.        *)
(***************************************************************************)
EXTENDS GPUMonitor, Integers, Sequences, FiniteSets, SequencesExt

CONSTANTS
  Plans,      \* runs to start: RunConfig, the workload, whether a GPU is visible
  MaxTime,    \* bound of the clock
  None        \* not set

ASSUME LoadGenAssumption ==
  /\ MaxTime \in Nat /\ None \notin Nat
  /\ \A p \in Plans : /\ p.open \in BOOLEAN /\ p.gpu \in BOOLEAN
                      /\ p.concurrency \in Nat /\ p.duration \in Nat \cup {None}
                      /\ p.arrivals \in Seq(Nat)
                      /\ p.open <=> p.rate \notin {None, 0}

VARIABLES
  plan,     \* the run; its items have an arrival offset and a number of output tokens
  stage,    \* where run_benchmark() is
  now,      \* time.monotonic()
  warming,  \* warmup requests in flight
  fresh,    \* closed loop: workers that have not had their first turn
  next,     \* the first item of the workload not yet taken or issued
  asleep,   \* open loop: the pacer sleeps until the next arrival
  limited,  \* open loop: tasks waiting for the limiter
  issued,   \* when an item was taken or its task created
  run,      \* run_one() in flight: item -> its measurements
  records,  \* what _closed_loop() or _open_loop() returns
  window    \* started and elapsed of the measured window

loadVars == <<plan, stage, now, warming, fresh, next, asleep, limited, issued, run, records, window>>
vars == <<monitorVars, loadVars>>

Items == DOMAIN plan.arrivals
Deadline == IF plan.duration = None THEN None ELSE window.started + plan.duration
PastDeadline == Deadline # None /\ now >= Deadline

\* f with one more argument.
With(f, i, value) == [j \in DOMAIN f \cup {i} |-> IF j = i THEN value ELSE f[j]]

Init ==
  /\ MonitorInit
  /\ plan \in Plans
  /\ stage = "called" /\ now = 0
  /\ warming = 0 /\ fresh = 0 /\ next = 1 /\ asleep = FALSE /\ limited = <<>>
  /\ issued = <<>> /\ run = <<>> /\ records = <<>>
  /\ window = [started |-> None, elapsed |-> None]

-----------------------------------------------------------------------------
(* Before the measured window *)

\* validate() and the empty workload.
Valid ==
  /\ plan.concurrency >= 1 /\ plan.duration # 0 /\ plan.warmup >= 0
  /\ plan.rate # None => plan.rate > 0
  /\ plan.arrivals # <<>>

\* Warmup requests are all sent at once, whatever the concurrency.
Begin ==
  /\ stage = "called"
  /\ \/ ~Valid /\ stage' = "raised" /\ UNCHANGED warming
     \/ Valid /\ stage' = "raised" /\ UNCHANGED warming  \* backend.start() raises
     \/ Valid /\ stage' = "warmup" /\ warming' = plan.warmup
  /\ UNCHANGED <<monitorVars, plan, now, fresh, next, asleep, limited, issued, run, records, window>>

WarmupEnds ==
  /\ warming > 0 /\ warming' = warming - 1
  /\ UNCHANGED <<monitorVars, plan, stage, now, fresh, next, asleep, limited, issued, run, records, window>>

EnterWindow ==
  /\ stage' = "driving"
  /\ fresh' = IF plan.open THEN 0 ELSE plan.concurrency
  /\ window' = [window EXCEPT !.started = now]

\* GPUMonitor() may refuse its interval, and start() may raise: both are outside of
\* the `try`, so nobody calls stop().
StartWindow ==
  /\ stage = "warmup" /\ warming = 0
  /\ \/ /\ plan.interval <= 0
        /\ stage' = "raised" /\ UNCHANGED <<monitorVars, fresh, window>>
     \/ /\ plan.interval > 0
        /\ \E outcome \in Outcomes(plan.gpu) :
             /\ StartMonitor(outcome)
             /\ \/ outcome = "no thread" /\ stage' = "raised" /\ UNCHANGED <<fresh, window>>
                \/ outcome # "no thread" /\ EnterWindow
  /\ UNCHANGED <<plan, now, warming, next, asleep, limited, issued, run, records>>

-----------------------------------------------------------------------------
(* run_one() *)

\* In flight; stop() blocks the event loop, where orphans of a cancel may be left.
InFlight(i) == i \in DOMAIN run /\ stage # "cancelled"

NewRun == [start |-> now, ttft |-> None, last |-> None, itls |-> <<>>, tokens |-> 0]

WithToken(m) ==
  [m EXCEPT !.tokens = m.tokens + 1,
            !.ttft = IF m.ttft = None THEN now - m.start ELSE m.ttft,
            !.itls = IF m.ttft = None THEN m.itls ELSE Append(m.itls, now - m.last),
            !.last = now]

Token(i) ==
  /\ InFlight(i) /\ run[i].tokens < plan.outputs[i]
  /\ run' = [run EXCEPT ![i] = WithToken(run[i])]
  /\ UNCHANGED <<monitorVars, plan, stage, now, warming, fresh, next, asleep, limited, issued, records, window>>

\* The stream ends, or raises and the error is kept in the record.
Recorded(i, failed) ==
  records' = Append(records, [index |-> i, tokens |-> run[i].tokens, start |-> run[i].start,
                              end |-> now, ttft |-> run[i].ttft, itls |-> run[i].itls,
                              failed |-> failed])

-----------------------------------------------------------------------------
(* The closed loop *)

\* Mutant: the deadline is not looked at.
TurnLate(rest) ==
  IF next > Len(plan.arrivals)
  THEN run' = rest /\ UNCHANGED <<next, issued>>
  ELSE /\ run' = With(rest, next, NewRun)
       /\ issued' = With(issued, next, now)
       /\ next' = next + 1

\* The head of a worker's loop, with `rest` in flight: return, or take the next item.
Turn(rest) ==
  IF PastDeadline \/ next > Len(plan.arrivals)
  THEN run' = rest /\ UNCHANGED <<next, issued>>
  ELSE /\ run' = With(rest, next, NewRun)
       /\ issued' = With(issued, next, now)
       /\ next' = next + 1

WorkerStarts ==
  /\ stage = "driving" /\ fresh > 0
  /\ fresh' = fresh - 1
  /\ Turn(run)
  /\ UNCHANGED <<monitorVars, plan, stage, now, warming, asleep, limited, records, window>>

Others(i) == [j \in DOMAIN run \ {i} |-> run[j]]

WorkerEnds(i, failed) ==
  /\ ~plan.open /\ InFlight(i)
  /\ Recorded(i, failed)
  /\ Turn(Others(i))
  /\ UNCHANGED <<monitorVars, plan, stage, now, warming, fresh, asleep, limited, window>>

-----------------------------------------------------------------------------
(* The open loop *)

Issue ==
  /\ issued' = With(issued, next, now)
  /\ limited' = Append(limited, next)
  /\ next' = next + 1

\* One turn of the pacer: stop at the deadline, sleep, or create the task.
Pace ==
  /\ stage = "driving" /\ plan.open /\ next <= Len(plan.arrivals)
  /\ LET due == window.started + plan.arrivals[next]
     IN \/ /\ ~asleep /\ PastDeadline
           /\ next' = Len(plan.arrivals) + 1
           /\ UNCHANGED <<asleep, limited, issued>>
        \/ /\ ~asleep /\ ~PastDeadline /\ due > now
           /\ asleep' = TRUE
           /\ UNCHANGED <<next, limited, issued>>
        \/ /\ now >= due /\ (asleep \/ ~PastDeadline)
           /\ Issue /\ asleep' = FALSE
  /\ UNCHANGED <<monitorVars, plan, stage, now, warming, fresh, run, records, window>>

TaskStarts ==
  /\ stage # "cancelled" /\ limited # <<>> /\ Cardinality(DOMAIN run) < plan.concurrency
  /\ limited' = Tail(limited)
  /\ run' = With(run, Head(limited), NewRun)
  /\ UNCHANGED <<monitorVars, plan, stage, now, warming, fresh, next, asleep, issued, records, window>>

TaskEnds(i, failed) ==
  /\ plan.open /\ InFlight(i)
  /\ Recorded(i, failed)
  /\ run' = Others(i)
  /\ UNCHANGED <<monitorVars, plan, stage, now, warming, fresh, next, asleep, limited, issued, window>>

-----------------------------------------------------------------------------
(* After the measured window *)

\* Mutant: tasks still behind the limiter are not waited for.
DrivenEarly ==
  /\ run = <<>> /\ fresh = 0
  /\ plan.open => next > Len(plan.arrivals)

\* Every worker returned, or the pacer ended and gather() has all its tasks.
Driven ==
  /\ run = <<>> /\ fresh = 0
  /\ plan.open => next > Len(plan.arrivals) /\ limited = <<>>

\* The `finally`: stop() blocks the event loop.
StopMonitor ==
  /\ stage = "driving" /\ Driven
  /\ SetStop /\ stage' = "stopping"
  /\ UNCHANGED <<plan, now, warming, fresh, next, asleep, limited, issued, run, records, window>>

Finish ==
  /\ stage \in {"stopping", "cancelled"} /\ CloseMonitor
  /\ \/ /\ stage = "stopping" /\ stage' = "done"
        /\ window' = [window EXCEPT !.elapsed = now - window.started]
     \/ stage' = "raised" /\ UNCHANGED window  \* after a cancel, or backend.stats() raises
  /\ UNCHANGED <<plan, now, warming, fresh, next, asleep, limited, issued, run, records>>

\* A cancel reaches the warmup, or the loop: gather() passes it on to what it
\* runs, but tasks the sleeping pacer created are not in a gather() yet.
Cancel ==
  /\ stage \in {"warmup", "driving"}
  /\ IF stage = "warmup"
     THEN /\ warming > 0 /\ warming' = 0 /\ stage' = "raised"
          /\ UNCHANGED <<monitorVars, fresh, limited, run>>
     ELSE /\ ~Driven /\ (plan.open => asleep \/ next > Len(plan.arrivals))
          /\ SetStop /\ stage' = "cancelled"
          /\ fresh' = 0
          /\ IF asleep THEN UNCHANGED <<limited, run>> ELSE limited' = <<>> /\ run' = <<>>
          /\ UNCHANGED warming
  /\ UNCHANGED <<plan, now, next, asleep, issued, records, window>>

\* Something the event loop runs before it waits again.
Ready ==
  \/ fresh > 0
  \/ limited # <<>> /\ Cardinality(DOMAIN run) < plan.concurrency
  \/ /\ plan.open /\ next <= Len(plan.arrivals)
     /\ ~asleep \/ now >= window.started + plan.arrivals[next]

\* Time matters in the measured window only, and callbacks take none of it.
Tick ==
  /\ stage \in {"driving", "stopping"} /\ ~Ready
  /\ now < MaxTime /\ now' = now + 1
  /\ UNCHANGED <<monitorVars, plan, stage, warming, fresh, next, asleep, limited, issued, run, records, window>>

-----------------------------------------------------------------------------

Sampler == (LoopCheck \/ LoopSample \/ LoopWait) /\ UNCHANGED loadVars

Ends == \E i \in Items, failed \in BOOLEAN : WorkerEnds(i, failed) \/ TaskEnds(i, failed)

Drive == WorkerStarts \/ Pace \/ TaskStarts

Over == stage \in {"done", "raised"}

Next ==
  \/ Begin \/ WarmupEnds \/ StartWindow \/ Drive \/ Ends
  \/ \E i \in Items : Token(i)
  \/ StopMonitor \/ Finish \/ Cancel \/ Tick \/ Sampler
  \/ Over /\ UNCHANGED vars

Spec == Init /\ [][Next]_vars

\* The event loop runs what can go on, the clock advances to the last arrival,
\* the backend ends every stream, a flagged thread leaves its wait.  An NVML
\* call need not return, and no cancel has to come.
FairSpec ==
  /\ Spec
  /\ WF_vars(Begin) /\ WF_vars(WarmupEnds) /\ WF_vars(StartWindow)
  /\ WF_vars(Drive) /\ WF_vars(Ends) /\ WF_vars(Tick)
  /\ WF_vars(StopMonitor) /\ WF_vars(Finish)
  /\ WF_vars((LoopCheck \/ LoopWait) /\ UNCHANGED loadVars)

-----------------------------------------------------------------------------
(* Properties *)

RecordOf == {records[k].index : k \in DOMAIN records}

\* No item is lost, repeated or measured twice between the queue, the limiter, the
\* requests in flight and the records, and a run that returns has a record of
\* each item it issued: all of them unless the deadline cut the workload short.
OneRecordEach ==
  /\ \A k, l \in DOMAIN records : records[k].index = records[l].index => k = l
  /\ RecordOf \cap DOMAIN run = {} /\ (RecordOf \cup DOMAIN run) \cap Range(limited) = {}
  /\ stage \in {"driving", "stopping", "done"} =>
       DOMAIN issued = RecordOf \cup DOMAIN run \cup Range(limited)
  /\ stage = "done" => /\ DOMAIN issued = RecordOf
                       /\ plan.duration = None => RecordOf = Items

\* A record is measured inside the window its throughput is divided by, never
\* before its item was issued, in a closed loop never from the deadline on, with
\* no more than `concurrency` in flight; its TTFT and gaps add up to its tokens
\* and stay within its latency.
MeasuredInWindow ==
  /\ stage = "driving" => Cardinality(DOMAIN run) <= plan.concurrency
  /\ \A k \in DOMAIN records :
       LET rec == records[k] IN
       /\ window.started <= issued[rec.index] /\ issued[rec.index] <= rec.start
       /\ plan.open => plan.arrivals[rec.index] <= rec.start - window.started
       /\ window.elapsed # None => rec.end <= window.started + window.elapsed
       /\ ~plan.open /\ Deadline # None => rec.start < Deadline
       /\ IF rec.ttft = None THEN rec.tokens = 0 /\ rec.itls = <<>>
          ELSE /\ rec.tokens = 1 + Len(rec.itls)
               /\ rec.ttft + SumFunction(rec.itls) <= rec.end - rec.start

\* On every way out of the measured window the sampler is stopped, NVML is closed
\* if start() got to sample, and the summary has all its samples; only a thread that
\* hangs in NVML for five seconds may add one after that.
SamplerStops ==
  /\ Over /\ window.started # None =>
       ~thread /\ ~nvml /\ summary.done /\ (loop # "none" => ~opened)
  /\ summary.done /\ ~summary.timedout =>
       loop \in {"none", "dead"} /\ summary.samples = samples

\* A benchmark returns or raises, whatever fails, is cancelled or hangs in NVML.
BenchmarkEnds == <>Over

\* The monitor is a no-op when NVML is unavailable: a start() that returned FALSE
\* leaves nothing open.
NoOpWithoutNVML == window.started # None /\ loop = "none" => ~opened

\* TTFT runs from the arrival of the request, so that it shows the queueing.
TTFTFromArrival ==
  \A k \in DOMAIN records :
    LET rec == records[k]
    IN rec.ttft # None => rec.ttft = rec.start + rec.ttft - issued[rec.index]
=============================================================================
