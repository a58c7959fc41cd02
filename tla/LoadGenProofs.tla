--------------------------- MODULE LoadGenProofs ---------------------------
(***************************************************************************)
(* Invariants of LoadGen for every set of plans, any length of the         *)
(* workload and any clock: one record of each request, and the end of the  *)
(* GPU sampler.                                                            *)
(***************************************************************************)
EXTENDS LoadGen, FoldProofs

Stages == {"called", "warmup", "driving", "stopping", "cancelled", "done", "raised"}

MonitorType ==
  /\ thread \in BOOLEAN /\ nvml \in BOOLEAN /\ opened \in BOOLEAN /\ flag \in BOOLEAN
  /\ loop \in {"none", "check", "sample", "wait", "dead"}
  /\ samples \in Nat
  /\ summary \in [samples : Nat, timedout : BOOLEAN, done : BOOLEAN]

\* The sampler runs from the start of the window; a summary ends the run.
MonitorPhase ==
  /\ stage \in {"called", "warmup"} => ~thread /\ ~nvml /\ loop = "none" /\ window.started = None
  /\ stage \in {"driving", "stopping", "cancelled"} => window.started \in Nat
  /\ ~summary.done => IF thread THEN nvml ELSE loop = "none" /\ ~nvml
  /\ summary.done => Over

MonitorInv ==
  /\ MonitorType /\ stage \in Stages /\ now \in Nat /\ plan \in Plans
  /\ window \in [started : Nat \cup {None}, elapsed : Int \cup {None}]
  /\ MonitorPhase /\ SamplerStops

\* The sampler has not been started.
LEMMA InitMonitor == Init => MonitorInv
<1> SUFFICES ASSUME Init
             PROVE  MonitorInv
  OBVIOUS
<1>1. MonitorType
  BY DEF Init, MonitorInit, NotStopped, MonitorType
<1>2. /\ stage = "called" /\ now = 0 /\ plan \in Plans
      /\ window = [started |-> None, elapsed |-> None]
      /\ ~thread /\ ~nvml /\ loop = "none" /\ ~summary.done
  BY DEF Init, MonitorInit, NotStopped
<1> QED
  BY <1>1, <1>2 DEF MonitorInv, MonitorPhase, Stages, SamplerStops, Over

\* What start() sets: thread and library together, or neither.
LEMMA StartSets ==
  ASSUME NEW outcome, flag \in BOOLEAN, StartMonitor(outcome)
  PROVE  /\ opened' \in BOOLEAN /\ flag' \in BOOLEAN /\ nvml' \in BOOLEAN /\ thread' \in BOOLEAN
         /\ thread' <=> nvml'
<1> DEFINE running == {"no thread", "sampling"}
<1>1. nvml' = (outcome \in running)
  BY DEF StartMonitor
<1>2. opened' = (outcome # "absent")
  BY DEF StartMonitor
<1> HIDE DEF running
<1>3. nvml' \in BOOLEAN /\ opened' \in BOOLEAN
  BY <1>1, <1>2
<1>4. thread' = nvml'
  BY DEF StartMonitor
<1>5. flag' = (flag /\ ~nvml')
  BY DEF StartMonitor
<1>6. flag' \in BOOLEAN
  BY <1>3, <1>5
<1>7. thread' \in BOOLEAN /\ (thread' <=> nvml')
  BY <1>3, <1>4
<1> QED
  BY <1>3, <1>6, <1>7

\* start() leaves a sampler that stop() can end, or none; where it raises, no window opens.
LEMMA StartKeepsMonitor ==
  ASSUME MonitorInv, StartWindow
  PROVE  MonitorInv'
<1>1. /\ stage = "warmup" /\ UNCHANGED <<plan, now>>
      /\ \/ stage' = "raised" /\ UNCHANGED <<monitorVars, window>>
         \/ \E outcome \in Outcomes(plan.gpu) :
              /\ StartMonitor(outcome)
              /\ \/ outcome = "no thread" /\ stage' = "raised" /\ UNCHANGED window
                 \/ outcome # "no thread" /\ stage' = "driving" /\ window' = [window EXCEPT !.started = now]
  BY DEF StartWindow, EnterWindow
<1>2. /\ MonitorType /\ now \in Nat /\ plan \in Plans /\ ~summary.done
      /\ ~thread /\ ~nvml /\ loop = "none" /\ window.started = None
      /\ window \in [started : Nat \cup {None}, elapsed : Int \cup {None}]
  BY <1>1 DEF MonitorInv, MonitorPhase, Over
<1>3. CASE stage' = "raised" /\ UNCHANGED <<monitorVars, window>>
  BY <1>1, <1>2, <1>3 DEF MonitorInv, MonitorType, MonitorPhase, Stages, SamplerStops, Over, monitorVars
<1>4. ASSUME NEW outcome \in Outcomes(plan.gpu), StartMonitor(outcome),
             \/ outcome = "no thread" /\ stage' = "raised" /\ UNCHANGED window
             \/ outcome # "no thread" /\ stage' = "driving" /\ window' = [window EXCEPT !.started = now]
      PROVE  MonitorInv'
  <2>1. /\ loop' = IF outcome = "sampling" THEN "check" ELSE "none"
        /\ UNCHANGED <<samples, summary>>
    BY <1>2, <1>4 DEF StartMonitor
  <2>2. flag \in BOOLEAN
    BY <1>2 DEF MonitorType
  <2>3. /\ opened' \in BOOLEAN /\ flag' \in BOOLEAN /\ nvml' \in BOOLEAN /\ thread' \in BOOLEAN
        /\ thread' <=> nvml'
    <3>1. StartMonitor(outcome)
      BY <1>4
    <3> QED
      BY ONLY <2>2, <3>1, StartSets
  <2>4. outcome = "sampling" => thread'
    BY <1>4 DEF StartMonitor
  <2>5. MonitorType'
    BY <1>2, <2>1, <2>3 DEF MonitorType
  <2>6. window' \in [started : Nat \cup {None}, elapsed : Int \cup {None}]
    BY <1>2, <1>4
  <2>7. stage' = "driving" => window'.started \in Nat
    BY <1>2, <1>4
  <2>8. stage' = "raised" => window'.started = None
    BY <1>2, <1>4
  <2>9. ~summary'.done /\ IF thread' THEN nvml' ELSE loop' = "none" /\ ~nvml'
    BY <1>2, <2>1, <2>3, <2>4
  <2>10. stage' \in {"driving", "raised"}
    BY <1>4
  <2>11. MonitorPhase' /\ SamplerStops'
    BY <2>7, <2>8, <2>9, <2>10 DEF MonitorPhase, SamplerStops, Over
  <2> QED
    BY <1>1, <1>2, <2>5, <2>6, <2>10, <2>11 DEF MonitorInv, Stages
<1> QED
  BY <1>1, <1>3, <1>4

\* Every step keeps the run and the sampler together.
LEMMA NextMonitor == MonitorInv /\ [Next]_vars => MonitorInv'
<1> SUFFICES ASSUME MonitorInv, [Next]_vars
             PROVE  MonitorInv'
  OBVIOUS
<1> USE LoadGenAssumption, GPUMonitorAssumption
    DEF MonitorInv, MonitorType, MonitorPhase, Stages, SamplerStops, Over, monitorVars
<1>1. CASE Begin
  BY <1>1 DEF Begin
<1>2. CASE WarmupEnds
  BY <1>2 DEF WarmupEnds
<1>3. CASE StartWindow
  BY ONLY MonitorInv, <1>3, StartKeepsMonitor
<1>4. CASE Drive
  <2>1. UNCHANGED <<monitorVars, plan, stage, now, window>>
    BY <1>4 DEF Drive, WorkerStarts, Pace, TaskStarts
  <2> QED
    BY <2>1
<1>5. CASE Ends
  <2>1. UNCHANGED <<monitorVars, plan, stage, now, window>>
    BY <1>5 DEF Ends, WorkerEnds, TaskEnds
  <2> QED
    BY <2>1
<1>6. CASE \E i \in Items : Token(i)
  <2>1. UNCHANGED <<monitorVars, plan, stage, now, window>>
    BY <1>6 DEF Token
  <2> QED
    BY <2>1
<1>7. CASE StopMonitor
  BY <1>7 DEF StopMonitor, SetStop
<1>8. CASE Finish
  <2>1. MonitorType' /\ summary'.done /\ ~thread' /\ ~nvml' /\ (loop' # "none" => ~opened')
    BY <1>8 DEF Finish, CloseMonitor
  <2>2. ~summary'.timedout => loop' \in {"none", "dead"} /\ summary'.samples = samples'
    BY <1>8 DEF Finish, CloseMonitor, Joined
  <2>3. /\ stage' \in {"done", "raised"} /\ UNCHANGED <<plan, now>>
        /\ window' \in [started : Nat \cup {None}, elapsed : Int \cup {None}]
    BY <1>8 DEF Finish
  <2> QED
    BY <2>1, <2>2, <2>3
<1>9. CASE Cancel
  BY <1>9 DEF Cancel, SetStop
<1>10. CASE Tick
  BY <1>10 DEF Tick
<1>11. CASE Sampler
  BY <1>11 DEF Sampler, LoopCheck, LoopSample, LoopWait, loadVars
<1>12. CASE UNCHANGED vars
  BY <1>12 DEF vars, loadVars
<1> QED
  BY <1>1, <1>2, <1>3, <1>4, <1>5, <1>6, <1>7, <1>8, <1>9, <1>10, <1>11, <1>12 DEF Next

\* However the measured window is left, stop() has joined the sampling thread unless
\* it hangs in NVML, has closed NVML if start() got to sample, and has summarised
\* every sample.
THEOREM SamplerAlwaysStops == Spec => []SamplerStops
<1>1. MonitorInv => SamplerStops
  BY DEF MonitorInv
<1> QED
  BY <1>1, InitMonitor, NextMonitor, PTL DEF Spec

-----------------------------------------------------------------------------
(* The requests *)

\* Measurements of a request in flight, and a record.
Measurements ==
  {m \in [start : Nat, ttft : Int \cup {None}, last : Nat \cup {None}, itls : Seq(Int), tokens : Nat] :
     m.ttft # None => m.last # None}

Record ==
  [index : Nat, tokens : Nat, start : Nat, end : Nat, ttft : Int \cup {None}, itls : Seq(Int),
   failed : BOOLEAN]

RunType == \A i \in DOMAIN run : run[i] \in Measurements

ItemsType ==
  /\ next \in Nat \ {0} /\ fresh \in Nat /\ asleep \in BOOLEAN
  /\ limited \in Seq(Nat) /\ records \in Seq(Record) /\ RunType

RecordedOnce == \A k, l \in DOMAIN records : records[k].index = records[l].index => k = l

QueuedOnce == \A k, l \in DOMAIN limited : limited[k] = limited[l] => k = l

\* An item is in one place at a time, and what was issued is an item before `next`.
Places ==
  /\ RecordOf \cap DOMAIN run = {} /\ (RecordOf \cup DOMAIN run) \cap Range(limited) = {}
  /\ RecordOf \cup DOMAIN run \cup Range(limited) \subseteq DOMAIN issued
  /\ \A i \in DOMAIN issued : i \in Items /\ i < next
  /\ stage \in {"driving", "stopping", "done"} =>
       DOMAIN issued \subseteq RecordOf \cup DOMAIN run \cup Range(limited)

\* Where the loops stand: without a deadline no item is passed over, and a closed
\* loop with items left has a worker that will take the next one.
Progress ==
  /\ stage \in {"called", "warmup"} => DOMAIN issued = {} /\ next = 1
  /\ stage \notin {"called", "raised"} => plan.concurrency >= 1
  /\ stage \in {"stopping", "done"} => DOMAIN run = {} /\ limited = <<>>
  /\ ~plan.open => limited = <<>>
  /\ plan.duration = None =>
       /\ DOMAIN issued = 1..(next - 1) /\ next <= Len(plan.arrivals) + 1
       /\ stage \in {"stopping", "done"} => next > Len(plan.arrivals)
       /\ stage = "driving" /\ ~plan.open /\ next <= Len(plan.arrivals) =>
            fresh > 0 \/ DOMAIN run # {}

PlanType == plan \in Plans /\ stage \in Stages /\ now \in Nat

ItemsInv == PlanType /\ ItemsType /\ RecordedOnce /\ QueuedOnce /\ Places /\ Progress

\* The types of an accepted plan.
LEMMA PlanFacts ==
  ASSUME plan \in Plans
  PROVE  /\ plan.open \in BOOLEAN /\ plan.concurrency \in Nat /\ plan.arrivals \in Seq(Nat)
         /\ Len(plan.arrivals) \in Nat /\ Items = 1..Len(plan.arrivals)
         /\ plan.duration = None => Deadline = None /\ ~PastDeadline
BY LoadGenAssumption DEF Items, Deadline, PastDeadline

\* What Recorded(i, failed) adds.
LEMMA RecordedStep ==
  ASSUME NEW i \in DOMAIN run, NEW failed \in BOOLEAN, RunType, now \in Nat, i \in Nat,
         records \in Seq(Record), RecordedOnce, i \notin RecordOf, Recorded(i, failed)
  PROVE  records' \in Seq(Record) /\ RecordedOnce' /\ RecordOf' = RecordOf \cup {i}
<1> DEFINE e == [index |-> i, tokens |-> run[i].tokens, start |-> run[i].start, end |-> now,
                 ttft |-> run[i].ttft, itls |-> run[i].itls, failed |-> failed]
<1>1. e \in Record /\ e.index = i
  BY DEF RunType, Measurements, Record
<1>2. records' = Append(records, e)
  BY DEF Recorded
<1> HIDE DEF e
<1>3. /\ records' \in Seq(Record) /\ DOMAIN records = 1..Len(records)
      /\ DOMAIN records' = 1..(Len(records) + 1) /\ Len(records) \in Nat
      /\ records'[Len(records) + 1] = e
      /\ \A k \in 1..Len(records) : records'[k] = records[k]
  BY <1>1, <1>2
<1>4. RecordOf' = RecordOf \cup {i}
  BY <1>1, <1>3 DEF RecordOf
<1>5. RecordedOnce'
  BY <1>1, <1>3 DEF RecordOf, RecordedOnce
<1> QED
  BY <1>3, <1>4, <1>5

\* A worker's turn: nothing more to do, or the next item.
LEMMA TurnStep ==
  ASSUME NEW rest, \A i \in DOMAIN rest : rest[i] \in Measurements,
         PlanType, next \in Nat \ {0}, Turn(rest)
  PROVE  /\ RunType'
         /\ \/ /\ plan.duration = None => next > Len(plan.arrivals)
               /\ DOMAIN run' = DOMAIN rest /\ DOMAIN issued' = DOMAIN issued /\ next' = next
            \/ /\ next \in Items /\ next' = next + 1
               /\ DOMAIN run' = DOMAIN rest \cup {next}
               /\ DOMAIN issued' = DOMAIN issued \cup {next}
<1>1. CASE PastDeadline \/ next > Len(plan.arrivals)
  BY <1>1, PlanFacts DEF Turn, RunType, PlanType
<1>2. CASE ~(PastDeadline \/ next > Len(plan.arrivals))
  <2>1. NewRun \in Measurements
    BY LoadGenAssumption DEF NewRun, Measurements, PlanType
  <2>2. /\ run' = With(rest, next, NewRun) /\ issued' = With(issued, next, now) /\ next' = next + 1
        /\ next \in Items
    BY <1>2, PlanFacts DEF Turn, PlanType
  <2>3. /\ DOMAIN run' = DOMAIN rest \cup {next} /\ DOMAIN issued' = DOMAIN issued \cup {next}
    BY <2>2 DEF With
  <2>4. RunType'
    BY <2>1, <2>2 DEF With, RunType
  <2> QED
    BY <2>2, <2>3, <2>4
<1> QED
  BY <1>1, <1>2

\* No item has been issued.
LEMMA InitItems == Init => ItemsInv
<1> SUFFICES ASSUME Init
             PROVE  ItemsInv
  OBVIOUS
<1>1. /\ plan \in Plans /\ stage = "called" /\ now = 0 /\ next = 1 /\ fresh = 0 /\ asleep = FALSE
      /\ limited = <<>> /\ records = <<>> /\ DOMAIN run = {} /\ DOMAIN issued = {}
  BY DEF Init
<1>2. RecordOf = {} /\ Range(limited) = {}
  BY <1>1 DEF RecordOf, Range
<1>3. PlanType /\ ItemsType
  <2>1. PlanType /\ RunType
    BY <1>1 DEF PlanType, Stages, RunType
  <2>2. limited \in Seq(Nat) /\ records \in Seq(Record)
    <3>1. <<>> \in Seq(Nat) /\ <<>> \in Seq(Record)
      OBVIOUS
    <3> QED
      BY <1>1, <3>1, Zenon
  <2>3. next = 1 /\ fresh = 0 /\ asleep \in BOOLEAN
    BY <1>1, Zenon
  <2> QED
    BY <2>1, <2>2, <2>3 DEF ItemsType
<1>4. RecordedOnce /\ QueuedOnce /\ Places
  BY <1>1, <1>2 DEF RecordedOnce, QueuedOnce, Places
<1>5. Progress
  BY <1>1, <1>3, PlanFacts DEF Progress
<1> QED
  BY <1>3, <1>4, <1>5 DEF ItemsInv

\* Steps that leave the requests alone.
LEMMA SameItems ==
  ASSUME ItemsInv, PlanType', fresh' \in Nat,
         UNCHANGED <<plan, next, asleep, limited, issued, records>>,
         run' = run,
         Progress',
         stage' \in {"driving", "stopping", "done"} =>
           DOMAIN issued \subseteq RecordOf \cup DOMAIN run \cup Range(limited)
  PROVE  ItemsInv'
<1>1. RecordOf' = RecordOf /\ Range(limited)' = Range(limited) /\ Items' = Items
  BY DEF RecordOf, Items
<1>2. ItemsType' /\ RecordedOnce' /\ QueuedOnce'
  BY DEF ItemsInv, ItemsType, RunType, RecordedOnce, QueuedOnce
<1>3. Places'
  BY <1>1 DEF ItemsInv, Places
<1> QED
  BY <1>2, <1>3 DEF ItemsInv

\* The limiter's line when a task joins it at the end or leaves it at the head.
LEMMA Joins ==
  ASSUME limited \in Seq(Nat), QueuedOnce, NEW i \in Nat, i \notin Range(limited),
         limited' = Append(limited, i)
  PROVE  limited' \in Seq(Nat) /\ QueuedOnce' /\ Range(limited') = Range(limited) \cup {i}
<1>1. /\ limited' \in Seq(Nat) /\ Len(limited) \in Nat /\ DOMAIN limited = 1..Len(limited)
      /\ DOMAIN limited' = 1..(Len(limited) + 1) /\ limited'[Len(limited) + 1] = i
      /\ \A k \in 1..Len(limited) : limited'[k] = limited[k]
  OBVIOUS
<1>2. Range(limited') = Range(limited) \cup {i}
  BY <1>1 DEF Range
<1>3. QueuedOnce'
  BY <1>1 DEF Range, QueuedOnce
<1> QED
  BY <1>1, <1>2, <1>3

\* The head of the limiter's line passes.
LEMMA Leaves ==
  ASSUME limited \in Seq(Nat), QueuedOnce, limited # <<>>, limited' = Tail(limited)
  PROVE  /\ limited' \in Seq(Nat) /\ QueuedOnce' /\ Head(limited) \in Range(limited)
         /\ Range(limited') = Range(limited) \ {Head(limited)}
<1>1. /\ limited' \in Seq(Nat) /\ Len(limited) \in Nat \ {0} /\ DOMAIN limited = 1..Len(limited)
      /\ DOMAIN limited' = 1..(Len(limited) - 1) /\ Head(limited) = limited[1]
      /\ \A k \in 1..(Len(limited) - 1) : limited'[k] = limited[k + 1]
  OBVIOUS
<1>2. QueuedOnce'
  BY <1>1 DEF QueuedOnce
<1>3. Head(limited) \in Range(limited)
  BY <1>1 DEF Range
<1>4. ASSUME NEW x
      PROVE  x \in Range(limited') <=> x \in Range(limited) \ {Head(limited)}
  <2>1. ASSUME x \in Range(limited')
        PROVE  x \in Range(limited) \ {Head(limited)}
    <3>1. PICK k \in 1..(Len(limited) - 1) : x = limited'[k]
      BY <1>1, <2>1 DEF Range
    <3>2. x = limited[k + 1] /\ k + 1 \in 1..Len(limited) /\ k + 1 # 1 /\ 1 \in 1..Len(limited)
      BY <1>1, <3>1
    <3> QED
      BY <1>1, <3>2 DEF Range, QueuedOnce
  <2>2. ASSUME x \in Range(limited), x # Head(limited)
        PROVE  x \in Range(limited')
    <3>1. PICK k \in 1..Len(limited) : x = limited[k]
      BY <1>1, <2>2 DEF Range
    <3>2. k - 1 \in 1..(Len(limited) - 1) /\ limited'[k - 1] = x
      BY <1>1, <2>2, <3>1
    <3> QED
      BY <1>1, <3>2 DEF Range
  <2> QED
    BY <2>1, <2>2
<1> QED
  BY <1>1, <1>2, <1>3, <1>4

\* A request ends: it moves from the requests in flight to the records.
LEMMA EndStep ==
  ASSUME ItemsInv, NEW i \in DOMAIN run, NEW failed \in BOOLEAN, Recorded(i, failed)
  PROVE  /\ i \in Nat /\ i \notin RecordOf
         /\ records' \in Seq(Record) /\ RecordedOnce' /\ RecordOf' = RecordOf \cup {i}
         /\ \A j \in DOMAIN Others(i) : Others(i)[j] \in Measurements
         /\ DOMAIN Others(i) = DOMAIN run \ {i}
<1>1. i \in Nat
  BY PlanFacts DEF ItemsInv, PlanType, Places
<1>2. i \notin RecordOf
  BY DEF ItemsInv, Places
<1>3. \A j \in DOMAIN Others(i) : Others(i)[j] \in Measurements
  BY DEF Others, ItemsInv, ItemsType, RunType
<1>4. DOMAIN Others(i) = DOMAIN run \ {i}
  BY DEF Others
<1> QED
  BY <1>1, <1>2, <1>3, <1>4, RecordedStep DEF ItemsInv, ItemsType, PlanType

\* A worker's request ends, and its record is written.
LEMMA WorkerEndsItems ==
  ASSUME ItemsInv, NEW i, NEW failed \in BOOLEAN, WorkerEnds(i, failed)
  PROVE  ItemsInv'
<1>1. /\ ~plan.open /\ i \in DOMAIN run /\ Recorded(i, failed) /\ Turn(Others(i))
      /\ UNCHANGED <<plan, stage, now, fresh, asleep, limited>>
  BY DEF WorkerEnds, InFlight
<1>2. /\ records' \in Seq(Record) /\ RecordedOnce' /\ RecordOf' = RecordOf \cup {i}
      /\ DOMAIN Others(i) = DOMAIN run \ {i} /\ i \notin RecordOf /\ i \in DOMAIN issued
  BY <1>1, EndStep DEF ItemsInv, Places
<1>3. RunType'
  BY <1>1, EndStep, TurnStep DEF ItemsInv, ItemsType
<1>4. \/ /\ plan.duration = None => next > Len(plan.arrivals)
         /\ DOMAIN run' = DOMAIN run \ {i} /\ DOMAIN issued' = DOMAIN issued /\ next' = next
      \/ /\ next \in Items /\ next' = next + 1
         /\ DOMAIN run' = (DOMAIN run \ {i}) \cup {next}
         /\ DOMAIN issued' = DOMAIN issued \cup {next}
  BY <1>1, <1>2, EndStep, TurnStep DEF ItemsInv, ItemsType
<1>5. ItemsType' /\ QueuedOnce' /\ PlanType'
  BY <1>1, <1>2, <1>3, <1>4 DEF ItemsInv, ItemsType, QueuedOnce, PlanType
<1>6. /\ Items' = Items /\ limited = <<>> /\ Range(limited) = {} /\ Range(limited') = {}
      /\ next \notin DOMAIN issued /\ next \in Nat
  BY <1>1 DEF ItemsInv, ItemsType, Places, Progress, Items, Range
<1>7. Places'
  BY <1>1, <1>2, <1>4, <1>6, PlanFacts DEF ItemsInv, Places, PlanType
<1>8. Progress'
  <2>1. stage' \notin {"called", "warmup", "stopping", "done"}
    BY <1>1, <1>2 DEF ItemsInv, Places, Progress
  <2>2. /\ stage' \notin {"called", "raised"} => plan'.concurrency >= 1
        /\ ~plan'.open => limited' = <<>>
    BY <1>1 DEF ItemsInv, Progress
  <2>3. ASSUME plan.duration = None
        PROVE  /\ DOMAIN issued' = 1..(next' - 1) /\ next' <= Len(plan.arrivals) + 1
               /\ next' <= Len(plan.arrivals) => DOMAIN run' # {}
    <3>1. DOMAIN issued = 1..(next - 1) /\ next <= Len(plan.arrivals) + 1
          /\ Len(plan.arrivals) \in Nat /\ Items = 1..Len(plan.arrivals)
      BY <2>3, PlanFacts DEF ItemsInv, PlanType, Progress
    <3>2. CASE next > Len(plan.arrivals) /\ DOMAIN issued' = DOMAIN issued /\ next' = next
      BY <3>1, <3>2, <1>6
    <3>3. CASE next \in Items /\ next' = next + 1 /\ next \in DOMAIN run'
               /\ DOMAIN issued' = DOMAIN issued \cup {next}
      BY <3>1, <3>3, <1>6
    <3> QED
      BY <2>3, <3>2, <3>3, <1>4
  <2> QED
    BY <1>1, <2>1, <2>2, <2>3 DEF Progress
<1> QED
  BY <1>2, <1>5, <1>7, <1>8 DEF ItemsInv

\* A task's request ends, and its record is written.
LEMMA TaskEndsItems ==
  ASSUME ItemsInv, NEW i, NEW failed \in BOOLEAN, TaskEnds(i, failed)
  PROVE  ItemsInv'
<1>1. /\ plan.open /\ i \in DOMAIN run /\ Recorded(i, failed) /\ run' = Others(i)
      /\ UNCHANGED <<plan, stage, now, fresh, next, asleep, limited, issued>>
  BY DEF TaskEnds, InFlight
<1>2. /\ records' \in Seq(Record) /\ RecordedOnce' /\ RecordOf' = RecordOf \cup {i}
      /\ DOMAIN run' = DOMAIN run \ {i} /\ i \notin RecordOf /\ RunType'
  BY <1>1, EndStep DEF RunType
<1>3. ItemsType' /\ QueuedOnce' /\ PlanType'
  BY <1>1, <1>2 DEF ItemsInv, ItemsType, QueuedOnce, PlanType
<1>4. Items' = Items /\ Range(limited') = Range(limited)
  BY <1>1 DEF Items
<1>5. Places'
  BY <1>1, <1>2, <1>4 DEF ItemsInv, Places
<1>6. Progress'
  BY <1>1, <1>2, PlanFacts DEF ItemsInv, Progress, PlanType
<1> QED
  BY <1>2, <1>3, <1>5, <1>6 DEF ItemsInv

\* A worker takes the next item.
LEMMA WorkerStartsItems == ItemsInv /\ WorkerStarts => ItemsInv'
<1> SUFFICES ASSUME ItemsInv, WorkerStarts
             PROVE  ItemsInv'
  OBVIOUS
<1>1. /\ stage = "driving" /\ fresh > 0 /\ fresh' = fresh - 1 /\ Turn(run)
      /\ UNCHANGED <<plan, stage, now, asleep, limited, records>>
  BY DEF WorkerStarts
<1>2. RunType'
  BY <1>1, TurnStep DEF ItemsInv, ItemsType, RunType
<1>3. \/ /\ plan.duration = None => next > Len(plan.arrivals)
         /\ DOMAIN run' = DOMAIN run /\ DOMAIN issued' = DOMAIN issued /\ next' = next
      \/ /\ next \in Items /\ next' = next + 1
         /\ DOMAIN run' = DOMAIN run \cup {next}
         /\ DOMAIN issued' = DOMAIN issued \cup {next}
  BY <1>1, TurnStep DEF ItemsInv, ItemsType, RunType
<1>4. ItemsType' /\ QueuedOnce' /\ RecordedOnce' /\ PlanType'
  BY <1>1, <1>2, <1>3 DEF ItemsInv, ItemsType, QueuedOnce, RecordedOnce, PlanType
<1>5. /\ Items' = Items /\ RecordOf' = RecordOf /\ Range(limited') = Range(limited)
      /\ next \notin DOMAIN issued /\ next \in Nat
  BY <1>1 DEF ItemsInv, ItemsType, Places, Items, RecordOf
<1>6. Places'
  BY <1>1, <1>3, <1>5, PlanFacts DEF ItemsInv, Places, PlanType
<1>7. Progress'
  <2>1. stage' \notin {"called", "warmup", "stopping", "done"}
    BY <1>1 DEF ItemsInv, Places, Progress
  <2>2. /\ stage' \notin {"called", "raised"} => plan'.concurrency >= 1
        /\ ~plan'.open => limited' = <<>>
    BY <1>1 DEF ItemsInv, Progress
  <2>3. ASSUME plan.duration = None
        PROVE  /\ DOMAIN issued' = 1..(next' - 1) /\ next' <= Len(plan.arrivals) + 1
               /\ next' <= Len(plan.arrivals) => DOMAIN run' # {}
    <3>1. DOMAIN issued = 1..(next - 1) /\ next <= Len(plan.arrivals) + 1
          /\ Len(plan.arrivals) \in Nat /\ Items = 1..Len(plan.arrivals)
      BY <2>3, PlanFacts DEF ItemsInv, PlanType, Progress
    <3>2. CASE next > Len(plan.arrivals) /\ DOMAIN issued' = DOMAIN issued /\ next' = next
      BY <3>1, <3>2, <1>5
    <3>3. CASE next \in Items /\ next' = next + 1 /\ next \in DOMAIN run'
               /\ DOMAIN issued' = DOMAIN issued \cup {next}
      BY <3>1, <3>3, <1>5
    <3> QED
      BY <2>3, <3>2, <3>3, <1>3
  <2> QED
    BY <1>1, <2>1, <2>2, <2>3 DEF Progress
<1> QED
  BY <1>4, <1>6, <1>7 DEF ItemsInv

\* The pacer issues the next item.
LEMMA PaceItems == ItemsInv /\ Pace => ItemsInv'
<1> SUFFICES ASSUME ItemsInv, Pace
             PROVE  ItemsInv'
  OBVIOUS
<1>1. /\ stage = "driving" /\ plan.open /\ next <= Len(plan.arrivals) /\ next \in Nat \ {0}
      /\ UNCHANGED <<plan, stage, now, fresh, run, records>>
  BY DEF Pace, ItemsInv, ItemsType
<1>2. /\ RecordOf' = RecordOf /\ Items' = Items /\ next \in Items /\ next \notin DOMAIN issued
      /\ plan.duration = None => ~PastDeadline
  BY <1>1, PlanFacts DEF RecordOf, Items, ItemsInv, Places, PlanType
<1>3. CASE PastDeadline /\ next' = Len(plan.arrivals) + 1 /\ UNCHANGED <<asleep, limited, issued>>
  <2>1. ItemsType' /\ RecordedOnce' /\ QueuedOnce' /\ PlanType'
    BY <1>1, <1>3, PlanFacts DEF ItemsInv, ItemsType, RunType, RecordedOnce, QueuedOnce, PlanType
  <2>2. Places'
    BY <1>1, <1>2, <1>3, PlanFacts DEF ItemsInv, Places, PlanType
  <2>3. Progress'
    BY <1>1, <1>2, <1>3 DEF ItemsInv, Progress
  <2> QED
    BY <2>1, <2>2, <2>3 DEF ItemsInv
<1>4. CASE asleep' = TRUE /\ UNCHANGED <<next, limited, issued>>
  <2>1. ItemsType' /\ RecordedOnce' /\ QueuedOnce' /\ PlanType'
    BY <1>1, <1>4 DEF ItemsInv, ItemsType, RunType, RecordedOnce, QueuedOnce, PlanType
  <2>2. Places' /\ Progress'
    BY <1>1, <1>2, <1>4 DEF ItemsInv, Places, Progress
  <2> QED
    BY <2>1, <2>2 DEF ItemsInv
<1>5. CASE Issue /\ asleep' = FALSE
  <2>1. /\ next' = next + 1 /\ limited' = Append(limited, next)
        /\ DOMAIN issued' = DOMAIN issued \cup {next}
    BY <1>5 DEF Issue, With
  <2>2. /\ limited' \in Seq(Nat) /\ QueuedOnce' /\ Range(limited') = Range(limited) \cup {next}
        /\ next \notin Range(limited)
    BY <1>1, <1>2, <2>1, Joins DEF ItemsInv, ItemsType, Places
  <2>3. ItemsType' /\ RecordedOnce' /\ PlanType'
    <3>1. asleep' \in BOOLEAN
      BY <1>5, Zenon
    <3> QED
      BY <1>1, <2>1, <2>2, <3>1 DEF ItemsInv, ItemsType, RunType, RecordedOnce, PlanType
  <2>4. Places'
    BY <1>1, <1>2, <2>1, <2>2, PlanFacts DEF ItemsInv, Places, PlanType
  <2>5. ASSUME plan.duration = None
        PROVE  DOMAIN issued' = 1..(next' - 1) /\ next' <= Len(plan.arrivals) + 1
    BY <1>1, <2>1, <2>5, PlanFacts DEF ItemsInv, Progress, PlanType
  <2>6. Progress'
    BY <1>1, <1>2, <2>1, <2>5 DEF ItemsInv, Progress
  <2> QED
    BY <2>2, <2>3, <2>4, <2>6 DEF ItemsInv
<1> QED
  BY <1>3, <1>4, <1>5 DEF Pace

\* A task passes the limiter.
LEMMA TaskStartsItems == ItemsInv /\ TaskStarts => ItemsInv'
<1> SUFFICES ASSUME ItemsInv, TaskStarts
             PROVE  ItemsInv'
  OBVIOUS
<1> DEFINE h == Head(limited)
<1>1. /\ stage # "cancelled" /\ limited # <<>> /\ limited' = Tail(limited)
      /\ run' = With(run, h, NewRun)
      /\ UNCHANGED <<plan, stage, now, fresh, next, asleep, issued, records>>
  BY DEF TaskStarts
<1>2. /\ limited' \in Seq(Nat) /\ QueuedOnce' /\ h \in Range(limited)
      /\ Range(limited') = Range(limited) \ {h}
  BY <1>1, Leaves DEF ItemsInv, ItemsType
<1>3. DOMAIN run' = DOMAIN run \cup {h} /\ RunType'
  <2>1. NewRun \in Measurements
    BY LoadGenAssumption DEF NewRun, Measurements, ItemsInv, PlanType
  <2> HIDE DEF h
  <2> QED
    BY <1>1, <2>1 DEF With, RunType, ItemsInv, ItemsType
<1> HIDE DEF h
<1>4. ItemsType' /\ RecordedOnce' /\ PlanType'
  BY <1>1, <1>2, <1>3 DEF ItemsInv, ItemsType, RecordedOnce, PlanType
<1>5. RecordOf' = RecordOf /\ Items' = Items
  BY <1>1 DEF RecordOf, Items
<1>6. Places'
  BY <1>1, <1>2, <1>3, <1>5 DEF ItemsInv, Places
<1>7. Progress'
  BY <1>1, <1>3 DEF ItemsInv, Progress
<1> QED
  BY <1>2, <1>4, <1>6, <1>7 DEF ItemsInv

\* A token of a stream in flight.
LEMMA TokenStep ==
  ASSUME NEW i, Token(i), RunType, now \in Nat
  PROVE  DOMAIN run' = DOMAIN run /\ RunType'
<1> DEFINE old == run[i]
           m   == WithToken(old)
<1>1. i \in DOMAIN run /\ run' = [run EXCEPT ![i] = m]
  BY DEF Token, InFlight
<1>2. old \in Measurements
  BY <1>1 DEF RunType
<1>3. m \in Measurements
  <2> HIDE DEF old
  <2>1. old.ttft # None => now - old.last \in Int
    BY <1>2 DEF Measurements
  <2>2. (IF old.ttft = None THEN old.itls ELSE Append(old.itls, now - old.last)) \in Seq(Int)
    BY <1>2, <2>1 DEF Measurements
  <2>3. now # None
    BY LoadGenAssumption
  <2>4. /\ (IF old.ttft = None THEN now - old.start ELSE old.ttft) \in Int \cup {None}
        /\ old.tokens + 1 \in Nat
    BY <1>2 DEF Measurements
  <2> QED
    BY <1>2, <2>2, <2>3, <2>4 DEF Measurements, WithToken
<1> HIDE DEF m
<1> QED
  BY <1>1, <1>3 DEF RunType

\* Every step keeps the places of the items.
LEMMA NextItems == ItemsInv /\ [Next]_vars => ItemsInv'
<1> SUFFICES ASSUME ItemsInv, [Next]_vars
             PROVE  ItemsInv'
  OBVIOUS
<1> USE DEF Stages
<1>1. CASE Begin
  <2>1. /\ stage = "called" /\ stage' \in {"raised", "warmup"} /\ (stage' = "warmup" => Valid)
        /\ UNCHANGED <<plan, now, fresh, next, asleep, limited, issued, run, records>>
    BY <1>1 DEF Begin
  <2>2. Progress' /\ PlanType' /\ fresh' \in Nat
    BY <2>1, PlanFacts DEF ItemsInv, ItemsType, Progress, PlanType, Valid
  <2> QED
    BY <2>1, <2>2, SameItems
<1>2. CASE WarmupEnds
  <2>1. UNCHANGED <<plan, stage, now, fresh, next, asleep, limited, issued, run, records>>
    BY <1>2 DEF WarmupEnds
  <2>2. Progress' /\ PlanType' /\ fresh' \in Nat
    BY <2>1 DEF ItemsInv, ItemsType, Progress, PlanType
  <2> QED
    BY <2>1, <2>2, SameItems DEF ItemsInv, Places
<1>3. CASE StartWindow
  <2>1. /\ stage = "warmup" /\ UNCHANGED <<plan, now, next, asleep, limited, issued, run, records>>
        /\ \/ stage' = "raised" /\ fresh' = fresh
           \/ stage' = "driving" /\ fresh' = IF plan.open THEN 0 ELSE plan.concurrency
    BY <1>3 DEF StartWindow, EnterWindow
  <2>2. Progress' /\ PlanType' /\ fresh' \in Nat /\ DOMAIN issued = {}
    BY <2>1, PlanFacts DEF ItemsInv, ItemsType, Progress, PlanType
  <2> QED
    BY <2>1, <2>2, SameItems
<1>4. CASE Drive
  BY <1>4, WorkerStartsItems, PaceItems, TaskStartsItems DEF Drive
<1>5. CASE Ends
  BY <1>5, WorkerEndsItems, TaskEndsItems DEF Ends
<1>6. CASE \E i \in Items : Token(i)
  <2>1. PICK i \in Items : Token(i)
    BY <1>6
  <2>2. /\ i \in DOMAIN run /\ UNCHANGED <<plan, stage, now, fresh, next, asleep, limited, issued, records>>
    BY <2>1 DEF Token, InFlight
  <2>3. DOMAIN run' = DOMAIN run /\ RunType'
    BY <2>1, TokenStep DEF ItemsInv, ItemsType, PlanType
  <2>4. RecordOf' = RecordOf /\ Items' = Items
    BY <2>2 DEF RecordOf, Items
  <2>5. ItemsType' /\ RecordedOnce' /\ QueuedOnce' /\ PlanType'
    BY <2>2, <2>3 DEF ItemsInv, ItemsType, RecordedOnce, QueuedOnce, PlanType
  <2>6. Places' /\ Progress'
    BY <2>2, <2>3, <2>4 DEF ItemsInv, Places, Progress
  <2> QED
    BY <2>5, <2>6 DEF ItemsInv
<1>7. CASE StopMonitor
  <2>1. /\ stage = "driving" /\ stage' = "stopping" /\ Driven
        /\ UNCHANGED <<plan, now, fresh, next, asleep, limited, issued, run, records>>
    BY <1>7 DEF StopMonitor
  <2>2. DOMAIN run = {} /\ fresh = 0 /\ (plan.open => next > Len(plan.arrivals) /\ limited = <<>>)
    BY <2>1 DEF Driven
  <2>3. Progress' /\ PlanType' /\ fresh' \in Nat
    BY <2>1, <2>2, PlanFacts DEF ItemsInv, ItemsType, Progress, PlanType
  <2> QED
    BY <2>1, <2>3, SameItems DEF ItemsInv, Places
<1>8. CASE Finish
  <2>1. /\ stage \in {"stopping", "cancelled"} /\ stage' \in {"done", "raised"}
        /\ stage' = "done" => stage = "stopping"
        /\ UNCHANGED <<plan, now, fresh, next, asleep, limited, issued, run, records>>
    BY <1>8 DEF Finish
  <2>2. Progress' /\ PlanType' /\ fresh' \in Nat
    BY <2>1 DEF ItemsInv, ItemsType, Progress, PlanType
  <2> QED
    BY <2>1, <2>2, SameItems DEF ItemsInv, Places
<1>9. CASE Cancel
  <2>1. /\ stage \in {"warmup", "driving"} /\ stage' \in {"raised", "cancelled"}
        /\ stage' = "cancelled" => stage = "driving"
        /\ UNCHANGED <<plan, now, next, asleep, issued, records>>
        /\ fresh' \in {0, fresh}
        /\ (limited' = limited /\ run' = run) \/ (limited' = <<>> /\ run' = <<>>)
    <3>1. stage \in {"warmup", "driving"} /\ UNCHANGED <<plan, now, next, asleep, issued, records>>
      BY <1>9 DEF Cancel
    <3>2. CASE stage = "warmup"
      <4>1. stage' = "raised" /\ fresh' = fresh /\ limited' = limited /\ run' = run
        BY <1>9, <3>2 DEF Cancel
      <4> QED
        BY <3>1, <3>2, <4>1
    <3>3. CASE stage = "driving"
      <4>1. /\ stage' = "cancelled" /\ fresh' = 0
            /\ asleep => limited' = limited /\ run' = run
            /\ ~asleep => limited' = <<>> /\ run' = <<>>
        BY <1>9, <3>3 DEF Cancel
      <4>2. (limited' = limited /\ run' = run) \/ (limited' = <<>> /\ run' = <<>>)
        BY <4>1, Zenon
      <4> QED
        BY <3>1, <3>3, <4>1, <4>2
    <3> QED
      BY <3>1, <3>2, <3>3
  <2>2. /\ RecordOf' = RecordOf /\ Items' = Items /\ RunType'
        /\ DOMAIN run' \subseteq DOMAIN run /\ Range(limited') \subseteq Range(limited)
    BY <2>1 DEF RecordOf, Items, ItemsInv, ItemsType, RunType, Range
  <2>3. limited' \in Seq(Nat) /\ QueuedOnce' /\ (~plan.open => limited' = <<>>)
    <3>1. CASE limited' = limited
      BY <2>1, <3>1 DEF ItemsInv, ItemsType, QueuedOnce, Progress
    <3>2. CASE limited' = <<>>
      BY <3>2 DEF QueuedOnce
    <3> QED
      BY <2>1, <3>1, <3>2
  <2>4. ItemsType' /\ RecordedOnce' /\ PlanType'
    BY <2>1, <2>2, <2>3 DEF ItemsInv, ItemsType, RecordedOnce, PlanType
  <2>5. Places'
    BY <2>1, <2>2 DEF ItemsInv, Places
  <2>6. Progress'
    BY <2>1, <2>3 DEF ItemsInv, Progress
  <2> QED
    BY <2>3, <2>4, <2>5, <2>6 DEF ItemsInv
<1>10. CASE Tick
  <2>1. UNCHANGED <<plan, stage, fresh, next, asleep, limited, issued, run, records>> /\ now' = now + 1
    BY <1>10 DEF Tick
  <2>2. Progress' /\ PlanType' /\ fresh' \in Nat
    BY <2>1 DEF ItemsInv, ItemsType, Progress, PlanType
  <2> QED
    BY <2>1, <2>2, SameItems DEF ItemsInv, Places
<1>11. CASE Sampler \/ UNCHANGED vars
  <2>1. UNCHANGED <<plan, stage, now, fresh, next, asleep, limited, issued, run, records>>
    BY <1>11 DEF Sampler, loadVars, vars
  <2>2. Progress' /\ PlanType' /\ fresh' \in Nat
    BY <2>1 DEF ItemsInv, ItemsType, Progress, PlanType
  <2> QED
    BY <2>1, <2>2, SameItems DEF ItemsInv, Places
<1> QED
  BY <1>1, <1>2, <1>3, <1>4, <1>5, <1>6, <1>7, <1>8, <1>9, <1>10, <1>11 DEF Next

\* Whatever the workload, the concurrency and the deadline, no request is lost,
\* repeated or recorded twice, and a benchmark without a deadline records them all.
THEOREM OneRecordEachAlways == Spec => []OneRecordEach
<1>1. ItemsInv => OneRecordEach
  <2> SUFFICES ASSUME ItemsInv
               PROVE  OneRecordEach
    OBVIOUS
  <2>1. stage \in {"driving", "stopping", "done"} =>
          DOMAIN issued = RecordOf \cup DOMAIN run \cup Range(limited)
    BY DEF ItemsInv, Places
  <2>2. stage = "done" => DOMAIN run = {} /\ Range(limited) = {}
    BY DEF ItemsInv, Progress, Range
  <2>3. ASSUME stage = "done", plan.duration = None
        PROVE  DOMAIN issued = Items
    BY <2>3, PlanFacts DEF ItemsInv, ItemsType, Progress, PlanType
  <2> QED
    BY <2>1, <2>2, <2>3 DEF OneRecordEach, ItemsInv, RecordedOnce, Places
<1> QED
  BY <1>1, InitItems, NextItems, PTL DEF Spec

-----------------------------------------------------------------------------
(* The measurements *)

\* The tokens and times of a request that is in flight at `t`.
Timed(m, t) ==
  IF m.ttft = None THEN m.tokens = 0 /\ m.itls = <<>>
  ELSE /\ m.tokens = 1 + Len(m.itls) /\ m.last \in Nat /\ m.last <= t
       /\ m.start + m.ttft + SumFunction(m.itls) = m.last

\* A request in flight starts when its item is taken, or after its task was created.
RunOnTime(i) ==
  /\ issued[i] <= run[i].start /\ run[i].start <= now
  /\ ~plan.open => run[i].start = issued[i]
  /\ Timed(run[i], now)

RunTimed == \A i \in DOMAIN run : RunOnTime(i)

\* Item i may be issued at `t`.
OnTime(i, t) ==
  /\ t \in Nat /\ t <= now /\ window.started \in Nat /\ window.started <= t
  /\ plan.open => window.started + plan.arrivals[i] <= t
  /\ ~plan.open /\ plan.duration # None => t < window.started + plan.duration

IssuedTimed == \A i \in DOMAIN issued : OnTime(i, issued[i])

\* The times of a record.
RecordTimed(rec) ==
  /\ issued[rec.index] <= rec.start /\ rec.end <= now
  /\ ~plan.open => rec.start = issued[rec.index]
  /\ window.elapsed # None => rec.end <= window.started + window.elapsed
  /\ IF rec.ttft = None THEN rec.tokens = 0 /\ rec.itls = <<>>
     ELSE /\ rec.tokens = 1 + Len(rec.itls)
          /\ rec.ttft + SumFunction(rec.itls) <= rec.end - rec.start

RecordsTimed == \A k \in DOMAIN records : RecordTimed(records[k])

\* Requests in flight, with the workers of a closed loop that have yet to start.
Capacity ==
  /\ stage = "driving" => fresh + Cardinality(DOMAIN run) <= plan.concurrency
  /\ plan.open => fresh = 0
  /\ window.elapsed # None => stage = "done"

\* The window began in the past.
Opened == window.started # None => window.started <= now

TimeInv == RunTimed /\ IssuedTimed /\ RecordsTimed /\ Capacity /\ Opened

Known == ItemsInv /\ MonitorInv

\* The types the arithmetic needs.
LEMMA TimeTypes ==
  ASSUME Known
  PROVE  /\ now \in Nat /\ None \notin Nat /\ plan.open \in BOOLEAN /\ plan.concurrency \in Nat
         /\ plan.duration \in Nat \cup {None} /\ (\A i \in Items : plan.arrivals[i] \in Nat)
         /\ window.started \in Nat \cup {None} /\ window.elapsed \in Int \cup {None}
         /\ IsFiniteSet(DOMAIN run) /\ Cardinality(DOMAIN run) \in Nat
         /\ DOMAIN run \subseteq DOMAIN issued
         /\ \A k \in DOMAIN records : records[k] \in Record /\ records[k].index \in DOMAIN issued
<1>1. /\ now \in Nat /\ None \notin Nat /\ plan.open \in BOOLEAN /\ plan.concurrency \in Nat
      /\ plan.duration \in Nat \cup {None} /\ (\A i \in Items : plan.arrivals[i] \in Nat)
  BY LoadGenAssumption DEF Known, ItemsInv, PlanType, Items
<1>2. window.started \in Nat \cup {None} /\ window.elapsed \in Int \cup {None}
  BY DEF Known, MonitorInv
<1>3. DOMAIN run \subseteq DOMAIN issued /\ DOMAIN run \subseteq Items
  BY DEF Known, ItemsInv, Places
<1>4. Items = 1..Len(plan.arrivals) /\ Len(plan.arrivals) \in Nat
  BY PlanFacts DEF Known, ItemsInv, PlanType
<1>5. IsFiniteSet(DOMAIN run) /\ Cardinality(DOMAIN run) \in Nat
  <2>1. IsFiniteSet(1..Len(plan.arrivals))
    BY <1>4, FS_Interval
  <2>2. IsFiniteSet(DOMAIN run)
    BY <1>3, <1>4, <2>1, FS_Subset
  <2> QED
    BY <2>2, FS_CardinalityType
<1>6. \A k \in DOMAIN records : records[k] \in Record /\ records[k].index \in DOMAIN issued
  BY DEF Known, ItemsInv, ItemsType, Places, RecordOf
<1> QED
  BY <1>1, <1>2, <1>3, <1>5, <1>6

\* Nothing has been measured.
LEMMA InitTime == Init => TimeInv
<1> SUFFICES ASSUME Init
             PROVE  TimeInv
  OBVIOUS
<1>1. /\ DOMAIN run = {} /\ DOMAIN issued = {} /\ DOMAIN records = {} /\ stage = "called"
      /\ window.elapsed = None /\ window.started = None /\ fresh = 0
  BY DEF Init
<1> QED
  BY <1>1 DEF TimeInv, RunTimed, IssuedTimed, RecordsTimed, Capacity, Opened

\* Steps that neither issue, measure nor record a request: time may go on, and the
\* window may begin or end.
LEMMA QuietTime ==
  ASSUME Known, TimeInv, now' \in Nat, now <= now',
         UNCHANGED <<plan, issued, records>>,
         DOMAIN run' \subseteq DOMAIN run, \A i \in DOMAIN run' : run'[i] = run[i],
         window'.started = window.started \/ (DOMAIN issued = {} /\ window'.started = now),
         window'.elapsed = window.elapsed
           \/ (window.started \in Nat /\ window'.elapsed = now - window.started),
         Capacity'
  PROVE  TimeInv'
<1>1. RunTimed'
  <2> SUFFICES ASSUME NEW i \in DOMAIN run'
               PROVE  RunOnTime(i)'
    BY DEF RunTimed
  <2>1. i \in DOMAIN run /\ run'[i] = run[i] /\ RunOnTime(i) /\ run[i] \in Measurements
    BY DEF TimeInv, RunTimed, Known, ItemsInv, ItemsType, RunType
  <2> QED
    BY <2>1, TimeTypes DEF RunOnTime, Timed, Measurements
<1>2. IssuedTimed'
  <2> SUFFICES ASSUME NEW i \in DOMAIN issued
               PROVE  OnTime(i, issued[i])'
    BY DEF IssuedTimed
  <2>1. OnTime(i, issued[i]) /\ window'.started = window.started
    BY DEF TimeInv, IssuedTimed
  <2> QED
    BY <2>1, TimeTypes DEF OnTime
<1>3. RecordsTimed'
  <2> SUFFICES ASSUME NEW k \in DOMAIN records
               PROVE  RecordTimed(records[k])'
    BY DEF RecordsTimed
  <2>1. RecordTimed(records[k]) /\ records[k] \in Record /\ records[k].index \in DOMAIN issued
    BY TimeTypes DEF TimeInv, RecordsTimed
  <2>2. window'.started = window.started
    BY <2>1
  <2>3. records'[k] = records[k] /\ records[k].end \in Nat
    BY <2>1 DEF Record
  <2>4. window'.elapsed # None => records[k].end <= window'.started + window'.elapsed
    BY <2>1, <2>2, <2>3, TimeTypes DEF RecordTimed
  <2>5. records[k].end <= now'
    BY <2>1, <2>3, TimeTypes DEF RecordTimed
  <2> QED
    BY <2>1, <2>3, <2>4, <2>5 DEF RecordTimed
<1>4. Opened'
  BY TimeTypes DEF TimeInv, Opened
<1> QED
  BY <1>1, <1>2, <1>3, <1>4 DEF TimeInv

\* Steps that issue, start, measure or record a request take no time.
LEMMA BusyTime ==
  ASSUME Known, TimeInv, UNCHANGED <<plan, now, window>>,
         \A i \in DOMAIN issued : i \in DOMAIN issued' /\ issued'[i] = issued[i],
         \A i \in DOMAIN issued' : i \in DOMAIN issued \/ (issued'[i] = now /\ OnTime(i, now)),
         \A i \in DOMAIN run' : (i \in DOMAIN run /\ run'[i] = run[i]) \/ RunOnTime(i)',
         records' = records
           \/ \E i \in DOMAIN run, failed \in BOOLEAN : Recorded(i, failed) /\ window.elapsed = None,
         Capacity'
  PROVE  TimeInv'
<1>1. RunTimed'
  <2> SUFFICES ASSUME NEW i \in DOMAIN run', i \in DOMAIN run, run'[i] = run[i]
               PROVE  RunOnTime(i)'
    BY DEF RunTimed
  <2>1. RunOnTime(i) /\ issued'[i] = issued[i]
    BY TimeTypes DEF TimeInv, RunTimed
  <2> QED
    BY <2>1 DEF RunOnTime
<1>2. IssuedTimed'
  <2> SUFFICES ASSUME NEW i \in DOMAIN issued'
               PROVE  OnTime(i, issued[i])'
    BY DEF IssuedTimed
  <2>1. OnTime(i, issued'[i])
    BY DEF TimeInv, IssuedTimed
  <2> QED
    BY <2>1 DEF OnTime
<1>3. \A k \in DOMAIN records : RecordTimed(records[k])'
  <2> SUFFICES ASSUME NEW k \in DOMAIN records, records'[k] = records[k]
               PROVE  RecordTimed(records[k])'
    <3>1. ASSUME NEW k \in DOMAIN records
          PROVE  records'[k] = records[k]
      <4>1. ASSUME NEW i \in DOMAIN run, NEW failed \in BOOLEAN, Recorded(i, failed)
            PROVE  records'[k] = records[k]
        <5>1. PICK e : records' = Append(records, e)
          BY <4>1 DEF Recorded
        <5> QED
          BY <5>1 DEF Known, ItemsInv, ItemsType
      <4> QED
        BY <4>1
    <3> QED
      BY <3>1
  <2>1. RecordTimed(records[k]) /\ issued'[records[k].index] = issued[records[k].index]
    BY TimeTypes DEF TimeInv, RecordsTimed
  <2> QED
    BY <2>1 DEF RecordTimed
<1>4. ASSUME NEW i \in DOMAIN run, NEW failed \in BOOLEAN, Recorded(i, failed), window.elapsed = None
      PROVE  RecordsTimed'
  <2> DEFINE e == [index |-> i, tokens |-> run[i].tokens, start |-> run[i].start, end |-> now,
                   ttft |-> run[i].ttft, itls |-> run[i].itls, failed |-> failed]
  <2>1. /\ e.index = i /\ e.tokens = run[i].tokens /\ e.start = run[i].start /\ e.end = now
        /\ e.ttft = run[i].ttft /\ e.itls = run[i].itls
    OBVIOUS
  <2>2. records' = Append(records, e)
    BY <1>4 DEF Recorded
  <2> HIDE DEF e
  <2>3. /\ DOMAIN records' = DOMAIN records \cup {Len(records) + 1}
        /\ records'[Len(records) + 1] = e
    BY <2>2 DEF Known, ItemsInv, ItemsType
  <2>4. RunOnTime(i) /\ run[i] \in Measurements /\ issued'[i] = issued[i]
    BY TimeTypes DEF TimeInv, RunTimed, Known, ItemsInv, ItemsType, RunType
  <2>5. CASE run[i].ttft = None
    <3>1. e.ttft = None /\ e.tokens = 0 /\ e.itls = <<>>
      BY <2>1, <2>4, <2>5 DEF RunOnTime, Timed
    <3> QED
      BY <1>3, <1>4, <2>1, <2>3, <2>4, <3>1, TimeTypes DEF RecordsTimed, RecordTimed, RunOnTime
  <2>6. CASE run[i].ttft # None
    <3> DEFINE sum == SumFunction(run[i].itls)
    <3>1. /\ run[i].tokens = 1 + Len(run[i].itls) /\ run[i].last \in Nat /\ run[i].last <= now
          /\ run[i].start + run[i].ttft + sum = run[i].last
      BY <2>4, <2>6 DEF RunOnTime, Timed
    <3>2. run[i].start \in Nat /\ run[i].ttft \in Int /\ sum \in Int
      BY <2>4, <2>6, SumSeqAppend DEF Measurements
    <3>3. e.ttft + SumFunction(e.itls) <= e.end - e.start
      <4> HIDE DEF sum
      <4>1. run[i].ttft + sum <= now - run[i].start
        BY <3>1, <3>2, TimeTypes
      <4> QED
        BY <4>1, <2>1 DEF sum
    <3> QED
      BY <1>3, <1>4, <2>1, <2>3, <2>4, <2>6, <3>1, <3>3, TimeTypes
      DEF RecordsTimed, RecordTimed, RunOnTime
  <2> QED
    BY <2>5, <2>6
<1>5. RecordsTimed'
  BY <1>3, <1>4 DEF RecordsTimed
<1> QED
  BY <1>1, <1>2, <1>5 DEF TimeInv, Opened

\* A request that starts now.
LEMMA NewOnTime ==
  ASSUME NEW i, now' = now, now \in Nat, run'[i] = NewRun, issued'[i] \in Nat, issued'[i] <= now,
         ~plan'.open => issued'[i] = now
  PROVE  RunOnTime(i)'
BY DEF NewRun, RunOnTime, Timed

\* A token arrives: the first sets the TTFT, a later one adds a gap.
LEMMA TokenTime ==
  ASSUME Known, TimeInv, NEW i, Token(i)
  PROVE  TimeInv'
<1> DEFINE m == run[i]
           w == WithToken(m)
<1>1. /\ i \in DOMAIN run /\ run' = [run EXCEPT ![i] = w]
      /\ UNCHANGED <<plan, stage, now, fresh, issued, records, window>>
  BY DEF Token, InFlight
<1>2. m \in Measurements /\ RunOnTime(i)
  BY <1>1 DEF Known, ItemsInv, ItemsType, RunType, TimeInv, RunTimed
<1>3. w.start = m.start /\ w.tokens = m.tokens + 1 /\ w.last = now
      /\ w.ttft = (IF m.ttft = None THEN now - m.start ELSE m.ttft)
      /\ w.itls = (IF m.ttft = None THEN m.itls ELSE Append(m.itls, now - m.last))
  <2> HIDE DEF m
  <2> QED
    BY <1>2 DEF WithToken, Measurements
<1>4. run'[i] = w /\ DOMAIN run' = DOMAIN run /\ \A j \in DOMAIN run \ {i} : run'[j] = run[j]
  BY <1>1
<1> HIDE DEF w
<1>5. m.start \in Nat /\ m.tokens \in Nat /\ m.itls \in Seq(Int) /\ m.start <= now
      /\ m.ttft \in Int \cup {None} /\ now \in Nat /\ None \notin Nat
  BY <1>2, TimeTypes DEF Measurements, RunOnTime
<1>6. m.ttft # None =>
        /\ m.tokens = 1 + Len(m.itls) /\ m.last \in Nat /\ m.last <= now
        /\ m.start + m.ttft + SumFunction(m.itls) = m.last
  BY <1>2 DEF RunOnTime, Timed
<1>7. m.ttft = None => m.tokens = 0 /\ m.itls = <<>>
  BY <1>2 DEF RunOnTime, Timed
<1>8. issued[i] <= m.start /\ (~plan.open => m.start = issued[i])
  BY <1>2 DEF RunOnTime
<1> HIDE DEF m
<1>9. Timed(w, now)
  <2>1. CASE m.ttft = None
    <3>1. m.tokens = 0 /\ m.itls = <<>>
      BY <1>7, <2>1
    <3>2. w.ttft = now - m.start /\ w.ttft \in Nat /\ w.ttft # None /\ w.itls = <<>>
      BY <1>3, <1>5, <2>1, <3>1
    <3>3. w.tokens = 1 + Len(w.itls) /\ w.start = m.start /\ w.last = now
      <4>1. m.tokens + 1 = 1 + Len(<<>>)
        BY <3>1
      <4> QED
        BY <1>3, <3>2, <4>1
    <3>4. m.start + (now - m.start) + 0 = now
      BY <1>5
    <3>5. w.start + w.ttft + SumFunction(w.itls) = w.last
      BY <3>2, <3>3, <3>4, SumSeqEmpty
    <3> QED
      BY <1>5, <3>2, <3>3, <3>5 DEF Timed
  <2>2. CASE m.ttft # None
    <3> DEFINE gap == now - m.last
               sum == SumFunction(m.itls)
    <3>1. /\ m.tokens = 1 + Len(m.itls) /\ m.last \in Nat /\ m.last <= now
          /\ m.start + m.ttft + sum = m.last
      BY <1>6, <2>2
    <3>2. /\ w.itls = Append(m.itls, gap) /\ w.ttft = m.ttft /\ w.start = m.start /\ w.last = now
          /\ gap \in Int
      BY <1>3, <1>5, <2>2, <3>1
    <3>3. m.last + gap = now
      BY <1>5, <3>1
    <3> HIDE DEF gap
    <3>4. sum \in Int /\ SumFunction(Append(m.itls, gap)) = sum + gap
      BY <1>5, <3>2, SumSeqAppend
    <3>5. Len(Append(m.itls, gap)) = Len(m.itls) + 1 /\ Len(m.itls) \in Nat
      BY <1>5, <3>2
    <3> HIDE DEF sum
    <3>6. m.start + m.ttft + (sum + gap) = now
      BY <1>5, <2>2, <3>1, <3>2, <3>3, <3>4
    <3>7. w.start + w.ttft + SumFunction(w.itls) = w.last
      BY <3>2, <3>4, <3>6
    <3>8. w.tokens = 1 + Len(w.itls)
      <4>1. m.tokens + 1 = 1 + (Len(m.itls) + 1)
        BY <1>5, <3>1, <3>5
      <4> QED
        BY <1>3, <3>2, <3>5, <4>1
    <3> QED
      BY <1>5, <2>2, <3>2, <3>7, <3>8 DEF Timed
  <2> QED
    BY <2>1, <2>2
<1>10. RunOnTime(i)'
  BY <1>1, <1>3, <1>4, <1>5, <1>9, <1>8 DEF RunOnTime
<1>11. Capacity'
  BY <1>1, <1>4 DEF TimeInv, Capacity
<1> QED
  BY <1>1, <1>4, <1>10, <1>11, BusyTime

\* One turn of a worker starts at most one request.
LEMMA TurnTime ==
  ASSUME Known, TimeInv, ~plan.open, window.started \in Nat, NEW rest, Turn(rest),
         UNCHANGED <<plan, now, window>>,
         DOMAIN rest \subseteq DOMAIN run, \A i \in DOMAIN rest : rest[i] = run[i]
  PROVE  /\ \A i \in DOMAIN issued : i \in DOMAIN issued' /\ issued'[i] = issued[i]
         /\ \A i \in DOMAIN issued' : i \in DOMAIN issued \/ (issued'[i] = now /\ OnTime(i, now))
         /\ \A i \in DOMAIN run' : (i \in DOMAIN run /\ run'[i] = run[i]) \/ RunOnTime(i)'
         /\ Cardinality(DOMAIN run') \in Nat
         /\ Cardinality(DOMAIN run') <= Cardinality(DOMAIN rest) + 1
<1>0. IsFiniteSet(DOMAIN rest) /\ Cardinality(DOMAIN rest) \in Nat
  BY TimeTypes, FS_Subset, FS_CardinalityType
<1>1. CASE PastDeadline \/ next > Len(plan.arrivals)
  <2>1. run' = rest /\ issued' = issued
    BY <1>1 DEF Turn
  <2> QED
    BY <1>0, <2>1
<1>2. CASE ~(PastDeadline \/ next > Len(plan.arrivals))
  <2>1. /\ run' = With(rest, next, NewRun) /\ issued' = With(issued, next, now)
        /\ next \notin DOMAIN issued /\ ~PastDeadline
    <3>1. next \notin DOMAIN issued
      BY DEF Known, ItemsInv, ItemsType, Places
    <3> QED
      BY <1>2, <3>1 DEF Turn
  <2>2. /\ DOMAIN run' = DOMAIN rest \cup {next} /\ run'[next] = NewRun
        /\ DOMAIN issued' = DOMAIN issued \cup {next} /\ issued'[next] = now
        /\ \A i \in DOMAIN issued : issued'[i] = issued[i]
        /\ \A i \in DOMAIN rest : i # next => run'[i] = run[i]
    BY <2>1 DEF With
  <2>3. next \notin DOMAIN rest
    BY <2>1, TimeTypes
  <2>4. Cardinality(DOMAIN run') = Cardinality(DOMAIN rest) + 1
    BY <1>0, <2>2, <2>3, FS_AddElement
  <2>5. window.started <= now
    BY TimeTypes DEF TimeInv, Opened
  <2>6. OnTime(next, now)
    BY <2>1, <2>5, TimeTypes DEF OnTime, PastDeadline, Deadline
  <2>8. \A i \in DOMAIN issued' : i \in DOMAIN issued \/ (issued'[i] = now /\ OnTime(i, now))
    BY <2>2, <2>6
  <2>9. \A i \in DOMAIN run' : (i \in DOMAIN run /\ run'[i] = run[i]) \/ RunOnTime(i)'
    <3> SUFFICES ASSUME NEW i \in DOMAIN run', i = next
                 PROVE  RunOnTime(i)'
      BY <2>2
    <3>1. run'[i] = NewRun /\ issued'[i] \in Nat /\ issued'[i] <= now /\ issued'[i] = now /\ now' = now
      BY <2>2, TimeTypes
    <3> QED
      BY <3>1, NewOnTime
  <2> QED
    BY <1>0, <2>2, <2>4, <2>8, <2>9
<1> QED
  BY <1>1, <1>2

\* A worker's first turn.
LEMMA WorkerStartsTime ==
  ASSUME Known, TimeInv, WorkerStarts
  PROVE  TimeInv'
<1>1. /\ stage = "driving" /\ fresh > 0 /\ fresh' = fresh - 1 /\ Turn(run)
      /\ UNCHANGED <<plan, stage, now, records, window>>
  BY DEF WorkerStarts
<1>2. ~plan.open /\ window.started \in Nat /\ fresh \in Nat
  BY <1>1 DEF Known, MonitorInv, MonitorPhase, ItemsInv, ItemsType, TimeInv, Capacity
<1>3. /\ \A i \in DOMAIN issued : i \in DOMAIN issued' /\ issued'[i] = issued[i]
      /\ \A i \in DOMAIN issued' : i \in DOMAIN issued \/ (issued'[i] = now /\ OnTime(i, now))
      /\ \A i \in DOMAIN run' : (i \in DOMAIN run /\ run'[i] = run[i]) \/ RunOnTime(i)'
      /\ Cardinality(DOMAIN run') \in Nat
      /\ Cardinality(DOMAIN run') <= Cardinality(DOMAIN run) + 1
  BY <1>1, <1>2, TurnTime
<1>4. fresh' + Cardinality(DOMAIN run') <= plan.concurrency
  BY <1>1, <1>2, <1>3, TimeTypes DEF TimeInv, Capacity
<1>5. Capacity'
  BY <1>1, <1>2, <1>4 DEF TimeInv, Capacity
<1> QED
  BY <1>1, <1>3, <1>5, BusyTime

\* What is left in flight when request i ends.
LEMMA OthersLeft ==
  ASSUME Known, NEW i \in DOMAIN run
  PROVE  /\ DOMAIN Others(i) = DOMAIN run \ {i} /\ \A j \in DOMAIN Others(i) : Others(i)[j] = run[j]
         /\ Cardinality(DOMAIN Others(i)) \in Nat
         /\ Cardinality(DOMAIN Others(i)) + 1 = Cardinality(DOMAIN run)
<1>1. DOMAIN Others(i) = DOMAIN run \ {i} /\ \A j \in DOMAIN Others(i) : Others(i)[j] = run[j]
  BY DEF Others
<1>2. IsFiniteSet(DOMAIN run \ {i}) /\ Cardinality(DOMAIN run \ {i}) = Cardinality(DOMAIN run) - 1
  BY TimeTypes, FS_RemoveElement
<1>3. Cardinality(DOMAIN run \ {i}) \in Nat /\ Cardinality(DOMAIN run) \in Nat
  BY <1>2, TimeTypes, FS_CardinalityType
<1> QED
  BY <1>1, <1>2, <1>3

\* A request that is in flight has no window around it that has ended.
LEMMA EndInWindow ==
  ASSUME Known, TimeInv, NEW i \in DOMAIN run
  PROVE  window.elapsed = None
BY DEF Known, ItemsInv, Progress, TimeInv, Capacity

\* A worker's request ends, and the worker takes its next turn.
LEMMA WorkerEndsTime ==
  ASSUME Known, TimeInv, NEW i, NEW failed \in BOOLEAN, WorkerEnds(i, failed)
  PROVE  TimeInv'
<1>1. /\ ~plan.open /\ i \in DOMAIN run /\ Recorded(i, failed) /\ Turn(Others(i))
      /\ UNCHANGED <<plan, stage, now, fresh, window>>
  BY DEF WorkerEnds, InFlight
<1>2. window.elapsed = None
  BY <1>1, EndInWindow
<1>3. window.started \in Nat
  BY <1>1, TimeTypes DEF TimeInv, IssuedTimed, OnTime
<1>4. /\ \A j \in DOMAIN issued : j \in DOMAIN issued' /\ issued'[j] = issued[j]
      /\ \A j \in DOMAIN issued' : j \in DOMAIN issued \/ (issued'[j] = now /\ OnTime(j, now))
      /\ \A j \in DOMAIN run' : (j \in DOMAIN run /\ run'[j] = run[j]) \/ RunOnTime(j)'
      /\ Cardinality(DOMAIN run') \in Nat
      /\ Cardinality(DOMAIN run') <= Cardinality(DOMAIN Others(i)) + 1
  BY <1>1, <1>3, OthersLeft, TurnTime
<1>5. Cardinality(DOMAIN run') <= Cardinality(DOMAIN run)
  BY <1>1, <1>4, OthersLeft
<1>6. Capacity'
  BY <1>1, <1>4, <1>5, TimeTypes DEF TimeInv, Capacity, Known, ItemsInv, ItemsType
<1> QED
  BY <1>1, <1>2, <1>4, <1>6, BusyTime

\* A task's request ends.
LEMMA TaskEndsTime ==
  ASSUME Known, TimeInv, NEW i, NEW failed \in BOOLEAN, TaskEnds(i, failed)
  PROVE  TimeInv'
<1>1. /\ plan.open /\ i \in DOMAIN run /\ Recorded(i, failed) /\ run' = Others(i)
      /\ UNCHANGED <<plan, stage, now, fresh, issued, window>>
  BY DEF TaskEnds, InFlight
<1>2. window.elapsed = None
  BY <1>1, EndInWindow
<1>3. Capacity'
  <2>1. /\ Cardinality(DOMAIN run') \in Nat /\ Cardinality(DOMAIN run') + 1 = Cardinality(DOMAIN run)
        /\ fresh = 0
    BY <1>1, OthersLeft DEF TimeInv, Capacity
  <2>2. 0 + Cardinality(DOMAIN run') <= 0 + Cardinality(DOMAIN run)
    BY <2>1
  <2> QED
    BY <1>1, <2>1, <2>2, TimeTypes DEF TimeInv, Capacity
<1>4. \A j \in DOMAIN run' : j \in DOMAIN run /\ run'[j] = run[j]
  BY <1>1, OthersLeft
<1> QED
  BY <1>1, <1>2, <1>3, <1>4, BusyTime

\* A turn of the pacer.
LEMMA PaceTime ==
  ASSUME Known, TimeInv, Pace
  PROVE  TimeInv'
<1>1. /\ stage = "driving" /\ plan.open /\ next <= Len(plan.arrivals)
      /\ UNCHANGED <<plan, stage, now, fresh, run, records, window>>
      /\ issued' = issued \/ (now >= window.started + plan.arrivals[next] /\ Issue)
  BY DEF Pace
<1>2. Capacity'
  BY <1>1 DEF TimeInv, Capacity
<1>3. CASE issued' = issued
  BY <1>1, <1>2, <1>3, BusyTime
<1>4. CASE now >= window.started + plan.arrivals[next] /\ Issue
  <2>1. /\ DOMAIN issued' = DOMAIN issued \cup {next} /\ issued'[next] = now
        /\ \A i \in DOMAIN issued : i # next => issued'[i] = issued[i]
    BY <1>4 DEF Issue, With
  <2>2. next \notin DOMAIN issued /\ next \in Items
    BY <1>1, PlanFacts DEF Known, ItemsInv, ItemsType, Places, PlanType
  <2>3. window.started \in Nat /\ window.started <= now
    BY <1>1, TimeTypes DEF Known, MonitorInv, MonitorPhase, TimeInv, Opened
  <2>4. OnTime(next, now)
    BY <1>1, <1>4, <2>2, <2>3, TimeTypes DEF OnTime
  <2> QED
    BY <1>1, <1>2, <2>1, <2>2, <2>4, BusyTime
<1> QED
  BY <1>1, <1>3, <1>4

\* A task passes the limiter.
LEMMA TaskStartsTime ==
  ASSUME Known, TimeInv, TaskStarts
  PROVE  TimeInv'
<1> DEFINE h == Head(limited)
<1>1. /\ limited # <<>> /\ Cardinality(DOMAIN run) < plan.concurrency
      /\ run' = With(run, h, NewRun)
      /\ UNCHANGED <<plan, stage, now, fresh, issued, records, window>>
  BY DEF TaskStarts
<1>2. h \in Range(limited) /\ plan.open
  BY <1>1, Leaves DEF TaskStarts, Known, ItemsInv, ItemsType, Progress
<1> HIDE DEF h
<1>3. h \in DOMAIN issued /\ h \notin DOMAIN run
  BY <1>2 DEF Known, ItemsInv, Places
<1>4. /\ DOMAIN run' = DOMAIN run \cup {h} /\ run'[h] = NewRun
      /\ \A i \in DOMAIN run : i # h => run'[i] = run[i]
  BY <1>1 DEF With
<1>5. Cardinality(DOMAIN run') = Cardinality(DOMAIN run) + 1
  BY <1>3, <1>4, FS_AddElement, TimeTypes
<1>6. Capacity'
  BY <1>1, <1>2, <1>5, TimeTypes DEF TimeInv, Capacity
<1>7. \A i \in DOMAIN run' : (i \in DOMAIN run /\ run'[i] = run[i]) \/ RunOnTime(i)'
  <2> SUFFICES ASSUME NEW i \in DOMAIN run', i = h
               PROVE  RunOnTime(i)'
    BY <1>3, <1>4
  <2>1. OnTime(i, issued[i])
    BY <1>3 DEF TimeInv, IssuedTimed
  <2>2. run'[i] = NewRun /\ issued'[i] \in Nat /\ issued'[i] <= now /\ now' = now /\ plan'.open
    BY <1>1, <1>2, <1>4, <2>1 DEF OnTime
  <2> QED
    BY <2>2, NewOnTime, TimeTypes
<1> QED
  BY <1>1, <1>6, <1>7, BusyTime

\* Every step keeps the measurements within the window.
LEMMA NextTime == Known /\ TimeInv /\ [Next]_vars => TimeInv'
<1> SUFFICES ASSUME Known, TimeInv, [Next]_vars
             PROVE  TimeInv'
  OBVIOUS
<1>0. now \in Nat /\ now + 1 \in Nat /\ now <= now /\ now <= now + 1
  BY TimeTypes
<1>1. CASE Begin \/ StopMonitor
  <2>1. /\ stage # "driving" => stage' # "driving"
        /\ stage # "done"
        /\ UNCHANGED <<plan, now, fresh, issued, run, records, window>>
    BY <1>1 DEF Begin, StopMonitor
  <2>2. Capacity'
    BY <2>1 DEF TimeInv, Capacity
  <2> QED
    BY <1>0, <2>1, <2>2, QuietTime
<1>2. CASE StartWindow
  <2>1. /\ stage = "warmup" /\ UNCHANGED <<plan, now, issued, run, records>>
        /\ \/ stage' = "raised" /\ UNCHANGED <<fresh, window>>
           \/ /\ stage' = "driving" /\ fresh' = IF plan.open THEN 0 ELSE plan.concurrency
              /\ window'.started = now /\ window'.elapsed = window.elapsed
    BY <1>2 DEF StartWindow, EnterWindow, Known, MonitorInv
  <2>2. DOMAIN issued = {} /\ DOMAIN run = {}
    BY <2>1, TimeTypes DEF Known, ItemsInv, Progress
  <2>3. Capacity'
    BY <2>1, <2>2, TimeTypes, FS_EmptySet DEF TimeInv, Capacity
  <2> QED
    BY <1>0, <2>1, <2>2, <2>3, QuietTime
<1>3. CASE Drive
  BY <1>3, WorkerStartsTime, PaceTime, TaskStartsTime DEF Drive
<1>4. CASE Ends
  BY <1>4, WorkerEndsTime, TaskEndsTime DEF Ends
<1>5. CASE \E i \in Items : Token(i)
  BY <1>5, TokenTime
<1>6. CASE Finish
  <2>1. /\ stage \in {"stopping", "cancelled"} /\ stage' \in {"done", "raised"}
        /\ UNCHANGED <<plan, now, fresh, issued, run, records>>
        /\ window'.started = window.started
        /\ \/ stage' = "done" /\ window'.elapsed = now - window.started
           \/ window'.elapsed = window.elapsed
    BY <1>6 DEF Finish, Known, MonitorInv
  <2>2. window.started \in Nat
    BY <2>1 DEF Known, MonitorInv, MonitorPhase
  <2>3. Capacity'
    BY <2>1 DEF TimeInv, Capacity
  <2> QED
    BY <1>0, <2>1, <2>2, <2>3, QuietTime
<1>7. CASE Cancel
  <2>1. /\ stage \in {"warmup", "driving"} /\ stage' \in {"raised", "cancelled"}
        /\ UNCHANGED <<plan, now, issued, records, window>>
        /\ fresh' \in {0, fresh} /\ (run' = run \/ run' = <<>>)
    <3>1. stage \in {"warmup", "driving"} /\ UNCHANGED <<plan, now, issued, records, window>>
      BY <1>7 DEF Cancel
    <3>2. CASE stage = "warmup"
      BY <1>7, <3>1, <3>2 DEF Cancel
    <3>3. CASE stage # "warmup"
      <4>1. stage' = "cancelled" /\ fresh' = 0 /\ (asleep => run' = run) /\ (~asleep => run' = <<>>)
        BY <1>7, <3>3 DEF Cancel
      <4>2. run' = run \/ run' = <<>>
        BY <4>1, Zenon
      <4> QED
        BY <3>1, <4>1, <4>2
    <3> QED
      BY <3>2, <3>3
  <2>2. Capacity'
    BY <2>1 DEF TimeInv, Capacity
  <2>3. DOMAIN run' \subseteq DOMAIN run /\ \A i \in DOMAIN run' : run'[i] = run[i]
    BY <2>1
  <2> QED
    BY <1>0, <2>1, <2>2, <2>3, QuietTime
<1>8. CASE WarmupEnds \/ Tick \/ Sampler \/ UNCHANGED vars
  <2>1. UNCHANGED <<plan, stage, fresh, issued, run, records, window>> /\ now' \in {now, now + 1}
    BY <1>8 DEF WarmupEnds, Tick, Sampler, loadVars, vars
  <2>2. Capacity'
    BY <2>1 DEF TimeInv, Capacity
  <2> QED
    BY <1>0, <2>1, <2>2, QuietTime
<1> QED
  BY <1>1, <1>2, <1>3, <1>4, <1>5, <1>6, <1>7, <1>8 DEF Next

\* Every record lies in the measured window and after the issue of its item, in a
\* closed loop before the deadline, and accounts for all its tokens, whatever the
\* workload, the concurrency, the deadline and the failures of run_one().
THEOREM AlwaysMeasuredInWindow == Spec => []MeasuredInWindow
<1>1. Known /\ TimeInv => MeasuredInWindow
  <2> SUFFICES ASSUME Known, TimeInv
               PROVE  MeasuredInWindow
    OBVIOUS
  <2>1. stage = "driving" => Cardinality(DOMAIN run) <= plan.concurrency
    BY TimeTypes DEF TimeInv, Capacity, Known, ItemsInv, ItemsType
  <2>2. ASSUME NEW k \in DOMAIN records
        PROVE  LET rec == records[k] IN
               /\ window.started <= issued[rec.index] /\ issued[rec.index] <= rec.start
               /\ plan.open => plan.arrivals[rec.index] <= rec.start - window.started
               /\ window.elapsed # None => rec.end <= window.started + window.elapsed
               /\ ~plan.open /\ Deadline # None => rec.start < Deadline
               /\ IF rec.ttft = None THEN rec.tokens = 0 /\ rec.itls = <<>>
                  ELSE /\ rec.tokens = 1 + Len(rec.itls)
                       /\ rec.ttft + SumFunction(rec.itls) <= rec.end - rec.start
    <3> DEFINE rec == records[k]
               t   == issued[rec.index]
    <3>1. rec \in Record /\ OnTime(rec.index, t) /\ RecordTimed(rec) /\ rec.index \in Items
      BY TimeTypes DEF TimeInv, RecordsTimed, IssuedTimed, Known, ItemsInv, Places
    <3>2. rec.start \in Nat /\ t <= rec.start /\ (~plan.open => rec.start = t)
      BY <3>1 DEF RecordTimed, Record
    <3> HIDE DEF rec
    <3>3. /\ window.started \in Nat /\ window.started <= t /\ t \in Nat
          /\ plan.open => window.started + plan.arrivals[rec.index] <= t
          /\ ~plan.open /\ plan.duration # None => t < window.started + plan.duration
      BY <3>1 DEF OnTime
    <3>4. plan.arrivals[rec.index] \in Nat
      BY <3>1, TimeTypes
    <3> HIDE DEF t
    <3>5. plan.open => plan.arrivals[rec.index] <= rec.start - window.started
      BY <3>2, <3>3, <3>4
    <3>6. ~plan.open /\ Deadline # None => rec.start < Deadline
      BY <3>2, <3>3 DEF Deadline
    <3>7. window.started <= t /\ t <= rec.start
      BY <3>2, <3>3
    <3> QED
      BY <3>1, <3>5, <3>6, <3>7 DEF RecordTimed, rec, t
  <2> QED
    BY <2>1, <2>2 DEF MeasuredInWindow
<1>2. Spec => []ItemsInv
  BY InitItems, NextItems, PTL DEF Spec
<1>3. Spec => []MonitorInv
  BY InitMonitor, NextMonitor, PTL DEF Spec
<1>4. ItemsInv /\ MonitorInv => Known
  BY DEF Known
<1> QED
  BY <1>1, <1>2, <1>3, <1>4, InitTime, NextTime, PTL DEF Spec
=============================================================================
