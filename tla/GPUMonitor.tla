----------------------------- MODULE GPUMonitor -----------------------------
(***************************************************************************)
(* The GPU sampler: a thread that polls NVML until a flag is set, and the  *)
(* stop() that sets the flag, waits five seconds for the thread, closes    *)
(* NVML and summarises.  NVML is external: a call may fail or hang.        *)
(***************************************************************************)
EXTENDS Naturals

CONSTANT MaxSamples  \* bound on the samples a run takes

ASSUME GPUMonitorAssumption == MaxSamples \in Nat

VARIABLES
  thread,   \* _thread is set
  nvml,     \* _nvml is set
  opened,   \* nvmlInit() succeeded and nvmlShutdown() was not called since
  flag,     \* the _stop event
  loop,     \* where the sampling thread is
  samples,  \* how many samples it took
  summary   \* samples summarised by stop(), and whether the join timed out

monitorVars == <<thread, nvml, opened, flag, loop, samples, summary>>

NotStopped == [samples |-> 0, timedout |-> FALSE, done |-> FALSE]

MonitorInit ==
  /\ thread = FALSE /\ nvml = FALSE /\ opened = FALSE /\ flag = FALSE
  /\ loop = "none" /\ samples = 0 /\ summary = NotStopped

\* What start() meets: no pynvml, or nvmlInit() raises; a later call of _init_nvml()
\* raises, with NVML open; Thread.start() raises; or nothing goes wrong.
Outcomes(visible) == IF visible THEN {"absent", "unusable", "no thread", "sampling"}
                                ELSE {"absent"}

\* start() keeps _nvml only when every call of _init_nvml() returned, and sets
\* _thread before it starts it.
StartMonitor(outcome) ==
  /\ ~thread
  /\ opened' = (outcome # "absent")
  /\ nvml' = (outcome \in {"no thread", "sampling"}) /\ thread' = nvml'
  /\ flag' = (flag /\ ~nvml')
  /\ loop' = IF outcome = "sampling" THEN "check" ELSE loop
  /\ UNCHANGED <<samples, summary>>

LoopCheck ==
  /\ loop = "check"
  /\ loop' = IF flag THEN "dead" ELSE "sample"
  /\ UNCHANGED <<thread, nvml, opened, flag, samples, summary>>

\* The calls of one round return, with a sample or an error that is swallowed.
LoopSample ==
  /\ loop = "sample"
  /\ \/ samples < MaxSamples /\ samples' = samples + 1
     \/ UNCHANGED samples
  /\ loop' = "wait"
  /\ UNCHANGED <<thread, nvml, opened, flag, summary>>

LoopWait ==
  /\ loop = "wait"
  /\ loop' = "check"
  /\ UNCHANGED <<thread, nvml, opened, flag, samples, summary>>

SetStop == flag' = TRUE /\ UNCHANGED <<thread, nvml, opened, loop, samples, summary>>

\* Mutant: no join.
JoinedNever == TRUE

\* Mutant: join() without a timeout.
JoinedForever == ~thread \/ loop = "dead"

\* join() returns: no thread, a thread that ended, or one that hangs in NVML.
Joined == ~thread \/ loop \in {"dead", "sample"}

\* The rest of stop(): NVML is shut down when _nvml is set.
CloseMonitor ==
  /\ flag /\ Joined
  /\ thread' = FALSE /\ nvml' = FALSE /\ opened' = (opened /\ ~nvml)
  /\ summary' = [samples |-> samples, timedout |-> loop = "sample", done |-> TRUE]
  /\ UNCHANGED <<flag, loop, samples>>
=============================================================================
