--------------------------- MODULE SchedulerProofs ---------------------------
(***************************************************************************)
(* Memory under the scheduler: for every configuration, arrival order and  *)
(* pattern of finish() and abort(), through every iteration of the loops   *)
(* of step().                                                              *)
(*                                                                         *)
(* The invariant has four parts.  MemoryInv says who refers to each block, *)
(* what was computed into it and who may still write it.  RequestsInv is   *)
(* the type of the requests.  QueuesInv says that the three queues have no *)
(* id twice: it does not say which status their members have, because      *)
(* finish() leaves a queued request in its queue.  HoldingInv ties the two *)
(* sides: the running requests are the ones with a table, and what a       *)
(* queued request has computed is what its admission or resumption needs.  *)
(*                                                                         *)
(* The second half, from "Order" on, is about the queues and the batches.  *)
(***************************************************************************)
EXTENDS Scheduler, PoolProofs, FoldProofs

-----------------------------------------------------------------------------
(* Queues *)

\* A list of some of the ids, none of them twice.
Queue(q, ids) == q \in Seq(ids) /\ IsInjective(q)

\* The same list over more ids.
LEMMA WiderQueue ==
  ASSUME NEW ids, NEW more, ids \subseteq more, NEW q, Queue(q, ids)
  PROVE  Queue(q, more)
<1>1. q \in Seq(more)
  BY SeqMonotonic DEF Queue
<1> QED
  BY <1>1 DEF Queue

\* A new id at the end of a queue.
LEMMA QueueAtEnd ==
  ASSUME NEW ids, NEW q, Queue(q, ids), NEW v \in ids, v \notin Range(q)
  PROVE  Queue(Append(q, v), ids) /\ Range(Append(q, v)) = Range(q) \cup {v}
<1> DEFINE n == Len(q)
           a == Append(q, v)
<1>1. q \in Seq(ids) /\ n \in Nat /\ DOMAIN q = 1..n
  BY DEF Queue
<1>2. \A i, j \in 1..n : q[i] = q[j] => i = j
  BY <1>1 DEF Queue, IsInjective
<1>3. \A i \in 1..n : q[i] # v
  BY <1>1 DEF Range
<1>4. /\ a \in Seq(ids) /\ DOMAIN a = 1..(n + 1) /\ a[n + 1] = v
      /\ \A i \in 1..n : a[i] = q[i]
  BY <1>1
<1> HIDE DEF a
<1>5. \A i \in 1..(n + 1) : i \in 1..n \/ i = n + 1
  BY <1>1
<1>6. n + 1 \in 1..(n + 1) /\ \A i \in 1..n : i \in 1..(n + 1)
  BY <1>1
<1>7. IsInjective(a)
  BY <1>2, <1>3, <1>4, <1>5 DEF IsInjective
<1>8. Range(a) = Range(q) \cup {v}
  BY <1>1, <1>4, <1>5, <1>6 DEF Range
<1> QED
  BY <1>4, <1>7, <1>8 DEF Queue, a

\* The list q with v before everyone else.
Requeued(v, q) == <<v>> \o q

\* A new id at the head of a queue.
LEMMA QueueAtHead ==
  ASSUME NEW ids, NEW q, Queue(q, ids), NEW v \in ids, v \notin Range(q)
  PROVE  Queue(Requeued(v, q), ids) /\ Range(Requeued(v, q)) = Range(q) \cup {v}
<1> DEFINE n == Len(q)
           p == <<v>> \o q
<1>1. q \in Seq(ids) /\ n \in Nat /\ DOMAIN q = 1..n
  BY DEF Queue
<1>2. \A i, j \in 1..n : q[i] = q[j] => i = j
  BY <1>1 DEF Queue, IsInjective
<1>3. \A i \in 1..n : q[i] # v
  BY <1>1 DEF Range
<1>4. /\ p \in Seq(ids) /\ DOMAIN p = 1..(n + 1) /\ p[1] = v
      /\ \A i \in 1..n : p[i + 1] = q[i]
  <2>1. <<v>> \in Seq(ids) /\ Len(<<v>>) = 1
    OBVIOUS
  <2>2. p \in Seq(ids) /\ Len(p) = 1 + n
    BY <1>1, <2>1, ConcatProperties
  <2>3. DOMAIN p = 1..(n + 1)
    BY <1>1, <2>2
  <2>4. p[1] = v
    BY <1>1
  <2>5. \A i \in 1..n : p[i + 1] = q[i]
    BY <1>1
  <2> QED
    BY <2>2, <2>3, <2>4, <2>5
<1>5. \A i \in 1..(n + 1) : i = 1 \/ \E j \in 1..n : i = j + 1
  <2> SUFFICES ASSUME NEW i \in 1..(n + 1), i # 1 PROVE \E j \in 1..n : i = j + 1
    OBVIOUS
  <2>1. i - 1 \in 1..n /\ i = (i - 1) + 1
    BY <1>1
  <2> QED
    BY <2>1
<1>6. 1 \in 1..(n + 1) /\ \A i \in 1..n : i + 1 \in 1..(n + 1)
  BY <1>1
<1> DEFINE r == p
<1>7. /\ r \in Seq(ids) /\ DOMAIN r = 1..(n + 1) /\ r[1] = v
      /\ \A i \in 1..n : r[i + 1] = q[i]
  BY <1>4
<1> HIDE DEF r
<1>8. \A i \in 1..(n + 1) : \/ i = 1 /\ r[i] = v
                            \/ \E j \in 1..n : i = j + 1 /\ r[i] = q[j]
  <2> SUFFICES ASSUME NEW i \in 1..(n + 1), i # 1
               PROVE  \E j \in 1..n : i = j + 1 /\ r[i] = q[j]
    BY <1>7
  <2>1. PICK j \in 1..n : i = j + 1
    BY <1>5
  <2> QED
    BY <1>7, <2>1
<1>9. IsInjective(r)
  BY <1>2, <1>3, <1>7, <1>8 DEF IsInjective
<1>10. Range(r) = Range(q) \cup {v}
  <2>1. \A i \in 1..(n + 1) : r[i] = v \/ r[i] \in Range(q)
    BY <1>1, <1>8 DEF Range
  <2>2. v \in Range(r) /\ \A i \in 1..n : q[i] \in Range(r)
    BY <1>6, <1>7 DEF Range
  <2> QED
    BY <1>1, <1>7, <2>1, <2>2 DEF Range
<1> QED
  BY <1>4, <1>9, <1>10 DEF Queue, r, Requeued

\* The head of a queue is taken off.
LEMMA QueueHead ==
  ASSUME NEW ids, NEW q, Queue(q, ids), q # <<>>
  PROVE  /\ Head(q) \in ids /\ Head(q) \in Range(q)
         /\ Queue(Tail(q), ids) /\ Range(Tail(q)) = Range(q) \ {Head(q)}
<1> DEFINE n == Len(q)
           t == Tail(q)
<1>1. q \in Seq(ids) /\ n \in Nat \ {0} /\ DOMAIN q = 1..n
  BY EmptySeq DEF Queue
<1>2. \A i, j \in 1..n : q[i] = q[j] => i = j
  BY <1>1 DEF Queue, IsInjective
<1>3. Head(q) = q[1] /\ 1 \in 1..n
  BY <1>1
<1>4. t \in Seq(ids) /\ DOMAIN t = 1..(n - 1) /\ \A i \in 1..(n - 1) : t[i] = q[i + 1]
  BY <1>1, HeadTailProperties
<1> HIDE DEF t
<1>5. \A i \in 1..(n - 1) : i + 1 \in 1..n /\ i + 1 # 1
  BY <1>1
<1>6. \A i \in 1..n : i = 1 \/ \E j \in 1..(n - 1) : i = j + 1
  <2> SUFFICES ASSUME NEW i \in 1..n, i # 1 PROVE \E j \in 1..(n - 1) : i = j + 1
    OBVIOUS
  <2>1. i - 1 \in 1..(n - 1) /\ i = (i - 1) + 1
    BY <1>1
  <2> QED
    BY <2>1
<1>7. IsInjective(t)
  <2> SUFFICES ASSUME NEW i \in 1..(n - 1), NEW j \in 1..(n - 1), t[i] = t[j] PROVE i = j
    BY <1>4 DEF IsInjective
  <2>1. i + 1 = j + 1
    BY <1>2, <1>4, <1>5
  <2> QED
    BY <2>1
<1>8. Range(t) = Range(q) \ {q[1]}
  <2>1. ASSUME NEW i \in 1..(n - 1) PROVE t[i] \in Range(q) /\ t[i] # q[1]
    <3>1. t[i] = q[i + 1] /\ i + 1 \in 1..n /\ i + 1 # 1
      BY <1>4, <1>5
    <3> QED
      BY <1>1, <1>2, <1>3, <3>1 DEF Range
  <2>2. ASSUME NEW i \in 1..n, q[i] # q[1] PROVE q[i] \in Range(t)
    <3>1. PICK j \in 1..(n - 1) : i = j + 1
      BY <1>6, <2>2
    <3> QED
      BY <1>4, <3>1 DEF Range
  <2> QED
    BY <1>1, <1>4, <2>1, <2>2 DEF Range
<1>9. Head(q) \in Range(q) /\ Head(q) \in ids
  BY <1>1, <1>3 DEF Range
<1> QED
  BY <1>3, <1>4, <1>7, <1>8, <1>9 DEF Queue, t

\* An id is taken out of a queue, wherever it is.
LEMMA QueueWithout ==
  ASSUME NEW ids, NEW q, Queue(q, ids), NEW v
  PROVE  Queue(Without(q, {v}), ids) /\ Range(Without(q, {v})) = Range(q) \ {v}
BY WithoutMembers DEF Queue

\* Queues with no id in common have none twice when they are put together.
LEMMA QueuesTogether ==
  ASSUME NEW ids, NEW q, NEW p, Queue(q, ids), Queue(p, ids), Range(q) \cap Range(p) = {}
  PROVE  Queue(q \o p, ids) /\ Range(q \o p) = Range(q) \cup Range(p)
<1> DEFINE n == Len(q)
           c == q \o p
<1>1. /\ q \in Seq(ids) /\ p \in Seq(ids) /\ n \in Nat /\ Len(p) \in Nat
      /\ DOMAIN q = 1..n /\ DOMAIN p = 1..Len(p)
  BY DEF Queue
<1>2. /\ c \in Seq(ids) /\ Len(c) = n + Len(p)
      /\ \A i \in 1..(n + Len(p)) : c[i] = IF i <= n THEN q[i] ELSE p[i - n]
  BY <1>1, ConcatProperties
<1>3. DOMAIN c = 1..(n + Len(p))
  BY <1>2
<1>4. Range(c) = Range(q) \cup Range(p)
  BY <1>1, RangeConcat
<1> HIDE DEF c
<1>5. \A i \in 1..(n + Len(p)) : i <= n => i \in 1..n
  BY <1>1
<1>6. \A i \in 1..(n + Len(p)) : ~(i <= n) => i - n \in 1..Len(p)
  BY <1>1
<1>7. ASSUME NEW i \in 1..(n + Len(p)), NEW j \in 1..(n + Len(p)), c[i] = c[j]
      PROVE  i = j
  <2>1. CASE i <= n /\ j <= n
    BY <1>1, <1>2, <1>5, <1>7, <2>1 DEF Queue, IsInjective
  <2>2. CASE ~(i <= n) /\ ~(j <= n)
    <3>1. p[i - n] = p[j - n] /\ i - n \in DOMAIN p /\ j - n \in DOMAIN p
      BY <1>1, <1>2, <1>6, <1>7, <2>2
    <3>2. i - n = j - n
      BY <3>1 DEF Queue, IsInjective
    <3> QED
      BY <1>1, <3>2
  <2>3. CASE i <= n /\ ~(j <= n)
    <3>1. c[i] \in Range(q) /\ c[j] \in Range(p)
      BY <1>1, <1>2, <1>5, <1>6, <2>3 DEF Range
    <3> QED
      BY <1>7, <3>1
  <2>4. CASE ~(i <= n) /\ j <= n
    <3>1. c[j] \in Range(q) /\ c[i] \in Range(p)
      BY <1>1, <1>2, <1>5, <1>6, <2>4 DEF Range
    <3> QED
      BY <1>7, <3>1
  <2> QED
    BY <2>1, <2>2, <2>3, <2>4
<1>8. IsInjective(c)
  BY <1>3, <1>7 DEF IsInjective
<1> QED
  BY <1>2, <1>4, <1>8 DEF Queue, c

\* Contains() and ToSet() of the library speak of the range of a queue.
LEMMA QueueMembers ==
  ASSUME NEW ids, NEW q, Queue(q, ids)
  PROVE  ToSet(q) = Range(q) /\ \A v : Contains(q, v) <=> v \in Range(q)
<1>1. DOMAIN q = 1..Len(q)
  BY DEF Queue
<1> QED
  BY <1>1 DEF ToSet, Contains, Range

-----------------------------------------------------------------------------
(* Requests and their streams *)

Statuses == {"waiting", "running", "swapped", "finished", "aborted"}

Requests ==
  {r \in [prompt : Prompts, max : MaxTokensChoices, arrival : Nat, status : Statuses,
          prefilled : Nat, generated : Nat, cached : Nat] :
     r.prefilled <= Len(r.prompt) /\ r.cached < Len(r.prompt)}

\* The stream of a request is a function of its prompt and its id.
StreamOf(p, s, n) == [i \in 1..n |-> IF i <= Len(p) THEN p[i] ELSE -s]

\* A stream begins with the prompt, and grows at its end.
LEMMA StreamGrows ==
  ASSUME NEW p \in Seq(Nat), NEW s \in Nat, NEW m \in Nat, NEW n \in Nat
  PROVE  /\ StreamOf(p, s, m) \in Seq(Int) /\ Len(StreamOf(p, s, m)) = m
         /\ Extends(StreamOf(p, s, m), StreamOf(p, s, m + n), n)
         /\ m <= Len(p) => Extends(StreamOf(p, s, m), p, Len(p) - m)
         /\ Len(p) <= m => StartsWith(StreamOf(p, s, m), p)
<1> DEFINE a == StreamOf(p, s, m)
           b == StreamOf(p, s, m + n)
           l == Len(p)
<1>1. l \in Nat /\ m + n \in Nat /\ \A i \in 1..l : p[i] \in Nat
  OBVIOUS
<1>2. \A i : i \in 1..m => (IF i <= l THEN p[i] ELSE -s) \in Int
  BY <1>1
<1>3. a \in [1..m -> Int] /\ \A i \in 1..m : a[i] = IF i <= l THEN p[i] ELSE -s
  BY <1>2 DEF StreamOf
<1>4. \A i : i \in 1..(m + n) => (IF i <= l THEN p[i] ELSE -s) \in Int
  BY <1>1
<1>5. b \in [1..(m + n) -> Int] /\ \A i \in 1..(m + n) : b[i] = IF i <= l THEN p[i] ELSE -s
  BY <1>4 DEF StreamOf
<1> HIDE DEF a, b
<1>6. a \in Seq(Int) /\ Len(a) = m /\ b \in Seq(Int) /\ Len(b) = m + n
  BY <1>1, <1>3, <1>5
<1>7. Extends(a, b, n)
  <2>1. \A i \in 1..m : i \in 1..(m + n)
    BY <1>1
  <2> QED
    BY <1>3, <1>5, <1>6, <2>1 DEF Extends
<1>8. m <= l => Extends(a, p, l - m)
  BY <1>1, <1>3, <1>6 DEF Extends
<1>9. l <= m => StartsWith(a, p)
  BY <1>1, <1>3, <1>6 DEF StartsWith
<1> QED
  BY <1>6, <1>7, <1>8, <1>9 DEF a, b

-----------------------------------------------------------------------------
(* The invariant *)

Streams == [s \in DOMAIN kv.table |-> StreamOf(seqs[s].prompt, s, kv.len[s])]

MemoryInv ==
  /\ PoolInv(kv, Nat, EntryPins(cache))
  /\ IndexInv(cache)
  /\ ContentInv(kv, cache, written, Streams)

RequestsInv ==
  /\ seqs \in Seq(Requests)
  /\ phase \in {"idle", "decode", "resume", "chunk", "admit"}
  /\ budget \in 0..MaxNumBatchedTokens

Ids == DOMAIN seqs

QueuesInv ==
  /\ Queue(waiting, Ids) /\ Queue(running, Ids) /\ Queue(swapped, Ids)
  /\ Range(waiting) \cap Range(running) = {}
  /\ Range(waiting) \cap Range(swapped) = {}
  /\ Range(running) \cap Range(swapped) = {}

HoldingInv ==
  /\ DOMAIN kv.table = Range(running)
  /\ \A s \in Range(running) : kv.len[s] = Computed(s) /\ Computed(s) >= 1
  /\ \A s \in Range(swapped) : Computed(s) >= 1
  /\ \A s \in Range(waiting) : seqs[s].generated = 0

IInv == MemoryInv /\ RequestsInv /\ QueuesInv /\ HoldingInv

\* What the invariant says of one request.
LEMMA RequestFacts ==
  ASSUME RequestsInv, NEW s \in DOMAIN seqs
  PROVE  /\ seqs[s] \in Requests /\ s \in Nat /\ DOMAIN seqs = 1..Len(seqs)
         /\ seqs[s].prompt \in Seq(Nat) /\ seqs[s].prompt # <<>>
         /\ PromptLen(s) \in Nat /\ PromptLen(s) > 0
         /\ seqs[s].prefilled \in Nat /\ seqs[s].prefilled <= PromptLen(s)
         /\ seqs[s].generated \in Nat /\ seqs[s].cached \in Nat
         /\ seqs[s].cached < PromptLen(s)
         /\ Computed(s) \in Nat /\ Computed(s) = seqs[s].prefilled + seqs[s].generated
         /\ \A n : Stream(s, n) = StreamOf(seqs[s].prompt, s, n)
<1>1. seqs \in Seq(Requests)
  BY DEF RequestsInv
<1>2. seqs[s] \in Requests /\ s \in Nat /\ DOMAIN seqs = 1..Len(seqs)
  BY <1>1
<1>3. seqs[s].prompt \in Prompts /\ seqs[s].prefilled \in Nat /\ seqs[s].generated \in Nat
      /\ seqs[s].cached \in Nat /\ seqs[s].prefilled <= PromptLen(s)
      /\ seqs[s].cached < PromptLen(s)
  BY <1>2 DEF Requests, PromptLen
<1>4. seqs[s].prompt \in Seq(Nat) /\ seqs[s].prompt # <<>>
  BY <1>3, SchedulerAssumption
<1>5. PromptLen(s) \in Nat /\ PromptLen(s) > 0
  BY <1>4 DEF PromptLen
<1>6. \A n : Stream(s, n) = StreamOf(seqs[s].prompt, s, n)
  BY DEF Stream, StreamOf, PromptLen
<1> QED
  BY <1>2, <1>3, <1>4, <1>5, <1>6 DEF Computed

\* The queues list requests, and only running ones have a table.
LEMMA QueueIds ==
  ASSUME IInv
  PROVE  /\ Range(waiting) \subseteq DOMAIN seqs /\ Range(running) \subseteq DOMAIN seqs
         /\ Range(swapped) \subseteq DOMAIN seqs /\ DOMAIN kv.table \subseteq DOMAIN seqs
BY DEF IInv, QueuesInv, HoldingInv, Queue, Ids, Range

\* One request changes, and keeps its prompt.
LEMMA OneRequestChanges ==
  ASSUME RequestsInv, NEW s \in DOMAIN seqs, NEW r \in Requests, r.prompt = seqs[s].prompt,
         seqs' = [seqs EXCEPT ![s] = r]
  PROVE  /\ seqs' \in Seq(Requests) /\ Ids' = Ids /\ DOMAIN seqs' = DOMAIN seqs
         /\ seqs'[s] = r
         /\ \A x \in DOMAIN seqs : x # s => seqs'[x] = seqs[x]
         /\ \A x \in DOMAIN seqs : seqs'[x].prompt = seqs[x].prompt
         /\ \A x \in DOMAIN seqs : x # s => Computed(x)' = Computed(x)
         /\ Computed(s)' = r.prefilled + r.generated
<1>1. seqs \in Seq(Requests) /\ DOMAIN seqs = 1..Len(seqs)
  BY DEF RequestsInv
<1>2. seqs' \in Seq(Requests)
  BY <1>1, ExceptSeq
<1>3. /\ DOMAIN seqs' = DOMAIN seqs /\ seqs'[s] = r
      /\ \A x \in DOMAIN seqs : x # s => seqs'[x] = seqs[x]
  BY <1>1
<1> QED
  BY <1>2, <1>3 DEF Ids, Computed
-----------------------------------------------------------------------------
(* Steps that touch no memory, and the start *)

\* The empty scheduler.
LEMMA InitKeepsIInv == Init => IInv
<1> SUFFICES ASSUME Init PROVE IInv
  OBVIOUS
<1>1. /\ DOMAIN cache.block = {} /\ cache = EmptyIndex /\ kv = EmptyPool
      /\ DOMAIN kv.table = {}
  BY DEF Init, EmptyIndex, EmptyPool
<1>2. EntryPins(cache) = [b \in Blocks |-> 0]
  <2>1. \A b \in Blocks : {k \in DOMAIN cache.block : cache.block[k] = b} = {}
    BY <1>1
  <2> QED
    BY <2>1, FS_EmptySet DEF EntryPins
<1>3. PoolInv(kv, Nat, EntryPins(cache))
  BY <1>1, <1>2, EmptyPoolInv
<1>4. IndexInv(cache)
  BY <1>1 DEF IndexInv, EmptyIndex, IsInjective, Range
<1>5. ContentInv(kv, cache, written, Streams)
  BY <1>1 DEF ContentInv, ReadsOwn, EntriesKeepKV, TailsExclusive, AllFit
<1>6. Queue(<<>>, Ids) /\ Range(<<>>) = {}
  BY DEF Queue, IsInjective, Range
<1>7. RequestsInv
  BY SchedulerAssumption DEF Init, RequestsInv
<1>8. QueuesInv /\ HoldingInv
  BY <1>1, <1>6 DEF Init, QueuesInv, HoldingInv
<1> QED
  BY <1>3, <1>4, <1>5, <1>7, <1>8 DEF IInv, MemoryInv

\* The memory is untouched and no request changes: only the place in step() does.
LEMMA PassKeepsIInv ==
  ASSUME IInv, UNCHANGED <<kv, seqs, waiting, running, swapped, written>>,
         IndexInv(cache'), cache'.block = cache.block,
         phase' \in {"idle", "decode", "resume", "chunk", "admit"},
         budget' \in 0..MaxNumBatchedTokens
  PROVE  IInv'
<1>1. Streams' = Streams
  BY DEF Streams
<1>2. EntryPins(cache') = EntryPins(cache)
  BY DEF EntryPins
<1>3. MemoryInv'
  <2>1. ContentInv(kv, cache', written, Streams)
    BY DEF IInv, MemoryInv, ContentInv, ReadsOwn, EntriesKeepKV, TailsExclusive
  <2> QED
    BY <1>1, <1>2, <2>1 DEF IInv, MemoryInv
<1>4. RequestsInv'
  BY DEF IInv, RequestsInv
<1>5. QueuesInv'
  BY DEF IInv, QueuesInv, Ids
<1>6. HoldingInv'
  BY DEF IInv, HoldingInv, Computed
<1> QED
  BY <1>3, <1>4, <1>5, <1>6 DEF IInv

\* Beginning, skipping and ending the loops, and the end of the step.
LEMMA LoopsKeepIInv ==
  ASSUME IInv,
         \/ BeginStep \/ DecodeSkip \/ EndDecodes \/ EndResumes
         \/ ChunkSkip \/ EndChunks \/ EndStep \/ UNCHANGED vars
  PROVE  IInv'
<1>1. UNCHANGED <<kv, seqs, waiting, running, swapped, written>>
  BY DEF BeginStep, DecodeSkip, EndDecodes, EndResumes, ChunkSkip, EndChunks, EndStep, vars
<1>2. /\ phase' \in {"idle", "decode", "resume", "chunk", "admit"}
      /\ budget' \in 0..MaxNumBatchedTokens
  <2>1. /\ phase \in {"idle", "decode", "resume", "chunk", "admit"}
        /\ budget \in 0..MaxNumBatchedTokens /\ MaxNumBatchedTokens \in Nat
    BY SchedulerAssumption DEF IInv, RequestsInv
  <2> QED
    BY <2>1 DEF BeginStep, DecodeSkip, EndDecodes, EndResumes, ChunkSkip, EndChunks,
                EndStep, vars
<1>3. IndexInv(cache') /\ cache'.block = cache.block
  <2>1. IndexInv(cache)
    BY DEF IInv, MemoryInv
  <2>2. CASE cache' = cache
    BY <2>1, <2>2
  <2>3. CASE waiting # <<>> /\ cache' = Touch(cache, seqs[Head(waiting)].prompt)
    <3>1. Head(waiting) \in DOMAIN seqs
      BY <2>3, QueueHead DEF IInv, QueuesInv, Ids
    <3>2. seqs[Head(waiting)].prompt \in Seq(Nat)
      BY <3>1, RequestFacts DEF IInv
    <3> QED
      BY <2>1, <2>3, <3>2, TouchKeepsIndex
  <2> QED
    BY <2>2, <2>3 DEF BeginStep, DecodeSkip, EndDecodes, EndResumes, ChunkSkip, EndChunks,
                      EndStep, AdmitTurn, vars
<1> QED
  BY <1>1, <1>2, <1>3, PassKeepsIInv
-----------------------------------------------------------------------------
(* _finish() and _preempt() *)

\* Finishing a request: its prompt is published if it is computed, its table is
\* freed if it has one.
LEMMA FinishedKeepsAll ==
  ASSUME NEW pool, NEW wr, NEW stream,
         PoolInv(pool, Nat, EntryPins(cache)), IndexInv(cache),
         ContentInv(pool, cache, wr, stream),
         NEW s, seqs[s].prompt \in Seq(Nat),
         PrefillDone(s) /\ s \in DOMAIN pool.table =>
           /\ stream[s] \in Seq(Int) /\ Len(stream[s]) = pool.len[s]
           /\ StartsWith(stream[s], seqs[s].prompt),
         NEW nstream, OthersKeep(stream, nstream, s, pool),
         NEW nkv, nkv = Finished(pool, s).kv,
         NEW ncache, ncache = Finished(pool, s).cache
  PROVE  /\ PoolInv(nkv, Nat, EntryPins(ncache)) /\ IndexInv(ncache)
         /\ DOMAIN nkv.table = DOMAIN pool.table \ {s}
         /\ \A x \in DOMAIN nkv.table : nkv.len[x] = pool.len[x]
         /\ ContentInv(nkv, ncache, Keep(wr, nkv), nstream)
<1> DEFINE prompt == seqs[s].prompt
           st     == [kv |-> pool, cache |-> cache]
           res    == Insert(st, prompt, BlockTable(pool, s))
<1>1. CASE ~PrefillDone(s)
  <2>1. nkv = FreeSequence(pool, s) /\ ncache = cache
    BY <1>1 DEF Finished
  <2> QED
    BY <2>1, FreeKeepsAll
<1>2. CASE PrefillDone(s) /\ s \in DOMAIN pool.table
  <2> DEFINE tb == pool.table[s]
             new == Insert([kv |-> pool, cache |-> cache], prompt, tb)
             T == Int
             mid == new.kv
  <2>1. nkv = FreeSequence(mid, s) /\ ncache = new.cache
    BY <1>2 DEF Finished, BlockTable
  <2>2. /\ PoolInv(mid, Nat, EntryPins(ncache)) /\ IndexInv(ncache)
        /\ mid.table = pool.table /\ mid.len = pool.len
        /\ ContentInv(mid, ncache, wr, stream)
    <3>1. /\ stream[s] \in Seq(T) /\ Len(stream[s]) = pool.len[s]
          /\ StartsWith(stream[s], prompt) /\ prompt \in Seq(Nat)
          /\ new = Insert([kv |-> pool, cache |-> cache], prompt, pool.table[s])
      BY <1>2
    <3> HIDE DEF T, prompt, new
    <3>2. /\ PoolInv(new.kv, Nat, EntryPins(new.cache)) /\ IndexInv(new.cache)
          /\ new.kv.table = pool.table /\ new.kv.len = pool.len
          /\ ContentInv(new.kv, new.cache, wr, stream)
      BY <1>2, <3>1, InsertKeepsAll
    <3> QED
      BY <2>1, <3>2
  <2>3. OthersKeep(stream, nstream, s, mid)
    BY <2>2 DEF OthersKeep
  <2> HIDE DEF mid
  <2> QED
    BY <2>1, <2>2, <2>3, FreeKeepsAll
<1>3. CASE PrefillDone(s) /\ s \notin DOMAIN pool.table
  <2> DEFINE none == <<>>
  <2>1. nkv = FreeSequence(res.kv, s) /\ ncache = res.cache /\ BlockTable(pool, s) = none
    BY <1>3 DEF Finished, BlockTable
  <2>2. /\ PoolInv(res.kv, Nat, EntryPins(res.cache)) /\ IndexInv(res.cache)
        /\ res.kv.table = pool.table /\ res.kv.len = pool.len
        /\ Publishes(cache, res.cache, prompt, none)
    <3>1. /\ PoolInv(st.kv, Nat, EntryPins(st.cache)) /\ IndexInv(st.cache)
          /\ st.kv = pool /\ st.cache = cache /\ prompt \in Seq(Nat)
          /\ res = Insert(st, prompt, none)
          /\ none \in Seq(Blocks) /\ \A i \in DOMAIN none : st.kv.ref[none[i]] > 0
      BY <2>1
    <3> HIDE DEF st, res, none, prompt
    <3> QED
      BY <3>1, InsertKeepsInv
  <2>3. nkv = res.kv
    BY <1>3, <2>1, <2>2 DEF FreeSequence
  <2>4. \A k \in DOMAIN ncache.block :
           k \in DOMAIN cache.block /\ ncache.block[k] = cache.block[k]
    BY <2>1, <2>2 DEF Publishes
  <2>5. /\ PoolInv(nkv, Nat, EntryPins(ncache)) /\ IndexInv(ncache)
        /\ nkv.table = pool.table /\ nkv.len = pool.len
    BY <2>1, <2>2, <2>3
  <2>6. \A x \in DOMAIN pool.table : nstream[x] = stream[x]
    BY <1>3 DEF OthersKeep
  <2>7. ContentInv(nkv, ncache, Keep(wr, nkv), nstream)
    BY <2>4, <2>5, <2>6, ShrinkKeepsContent
  <2> QED
    BY <1>3, <2>5, <2>7
<1> QED
  BY <1>1, <1>2, <1>3

\* Who is left when s loses its table.
LEMMA RunningWithout ==
  ASSUME IInv, NEW s, NEW new, DOMAIN new.table = DOMAIN kv.table \ {s}
  PROVE  /\ Queue(Without(running, {s}), Ids)
         /\ Range(Without(running, {s})) = Range(running) \ {s}
         /\ DOMAIN new.table = Range(Without(running, {s}))
<1>1. Queue(running, Ids) /\ DOMAIN kv.table = Range(running)
  BY DEF IInv, QueuesInv, HoldingInv
<1>2. /\ Queue(Without(running, {s}), Ids)
      /\ Range(Without(running, {s})) = Range(running) \ {s}
  BY <1>1, QueueWithout
<1> QED
  BY <1>1, <1>2

\* A running sequence is preempted.
LEMMA PreemptKeepsIInv ==
  ASSUME IInv, NEW v \in Range(running), Preempt(v), cache' = cache,
         phase' = phase, budget' = budget
  PROVE  IInv'
<1> DEFINE r == Preempted(seqs[v])
<1>1. /\ kv' = FreeSequence(kv, v) /\ running' = Without(running, {v})
      /\ seqs' = [seqs EXCEPT ![v] = r] /\ written' = Keep(written, kv')
      /\ PreemptionMode = "swap" => swapped' = Append(swapped, v) /\ waiting' = waiting
      /\ PreemptionMode # "swap" => waiting' = <<v>> \o waiting /\ swapped' = swapped
  BY DEF Preempt
<1>2. v \in DOMAIN seqs /\ RequestsInv
  BY QueueMembers DEF IInv, QueuesInv, Queue, Ids, Range
<1>3. /\ seqs[v] \in Requests /\ seqs[v].cached \in Nat /\ seqs[v].cached < PromptLen(v)
      /\ PromptLen(v) \in Nat
  BY <1>2, RequestFacts
<1>4. /\ r \in Requests /\ r.prompt = seqs[v].prompt
      /\ PreemptionMode = "swap" =>
           r.prefilled = seqs[v].prefilled /\ r.generated = seqs[v].generated
      /\ PreemptionMode # "swap" => r.generated = 0
  <2>1. CASE PreemptionMode = "swap"
    BY <1>3, <2>1 DEF Preempted, Requests, Statuses
  <2>2. CASE PreemptionMode # "swap"
    <3>1. r = [seqs[v] EXCEPT !.status = "waiting", !.prefilled = seqs[v].cached,
                              !.generated = 0]
      BY <2>2 DEF Preempted
    <3> HIDE DEF r
    <3>2. /\ r.prompt = seqs[v].prompt /\ r.cached = seqs[v].cached
          /\ r.prefilled = seqs[v].cached /\ r.generated = 0
          /\ r \in [prompt : Prompts, max : MaxTokensChoices, arrival : Nat,
                    status : Statuses, prefilled : Nat, generated : Nat, cached : Nat]
      BY <1>3, <3>1 DEF Requests, Statuses
    <3>3. r.prefilled <= Len(r.prompt) /\ r.cached < Len(r.prompt)
      BY <1>3, <3>2 DEF PromptLen
    <3> QED
      BY <2>2, <3>2, <3>3 DEF Requests
  <2> QED
    BY <2>1, <2>2
<1> HIDE DEF r
<1>5. /\ seqs' \in Seq(Requests) /\ Ids' = Ids /\ DOMAIN seqs' = DOMAIN seqs
      /\ seqs'[v] = r
      /\ \A x \in DOMAIN seqs : x # v => seqs'[x] = seqs[x]
      /\ \A x \in DOMAIN seqs : seqs'[x].prompt = seqs[x].prompt
      /\ \A x \in DOMAIN seqs : x # v => Computed(x)' = Computed(x)
      /\ Computed(v)' = r.prefilled + r.generated
  BY <1>1, <1>2, <1>4, OneRequestChanges
<1>6. /\ DOMAIN kv'.table = DOMAIN kv.table \ {v}
      /\ \A x \in DOMAIN kv'.table : kv'.len[x] = kv.len[x]
  <2>1. PoolType(kv, Nat)
    BY DEF IInv, MemoryInv, PoolInv
  <2> QED
    BY <1>1, <2>1, FreeLeavesOthers
<1>7. MemoryInv'
  <2> DEFINE nk  == kv'
             ns  == Streams'
             old == Streams
  <2>1. OthersKeep(old, ns, v, kv)
    BY <1>5, <1>6, QueueIds DEF OthersKeep, Streams
  <2>2. /\ PoolInv(kv, Nat, EntryPins(cache)) /\ IndexInv(cache)
        /\ ContentInv(kv, cache, written, old) /\ nk = FreeSequence(kv, v)
    BY <1>1 DEF IInv, MemoryInv
  <2> HIDE DEF nk, ns, old
  <2>3. PoolInv(nk, Nat, EntryPins(cache)) /\ ContentInv(nk, cache, Keep(written, nk), ns)
    BY <2>1, <2>2, FreeKeepsAll
  <2> QED
    BY <1>1, <2>2, <2>3 DEF nk, ns, MemoryInv
<1>8. /\ Queue(running', Ids) /\ Range(running') = Range(running) \ {v}
      /\ DOMAIN kv'.table = Range(running')
  <2> DEFINE nk == kv'
  <2>1. DOMAIN nk.table = DOMAIN kv.table \ {v}
    BY <1>6
  <2> HIDE DEF nk
  <2>2. DOMAIN nk.table = Range(Without(running, {v}))
    BY <2>1, RunningWithout
  <2>3. Queue(Without(running, {v}), Ids)
        /\ Range(Without(running, {v})) = Range(running) \ {v}
    BY <2>1, RunningWithout
  <2> QED
    BY <1>1, <2>2, <2>3 DEF nk
<1>9. v \in Ids /\ v \notin Range(waiting) /\ v \notin Range(swapped)
      /\ Queue(waiting, Ids) /\ Queue(swapped, Ids)
      /\ Range(waiting) \cap Range(running) = {}
      /\ Range(waiting) \cap Range(swapped) = {}
      /\ Range(running) \cap Range(swapped) = {}
  BY <1>2 DEF IInv, QueuesInv, Ids
<1>10. /\ Computed(v) >= 1
       /\ \A s \in Range(running) : kv.len[s] = Computed(s) /\ Computed(s) >= 1
       /\ \A s \in Range(swapped) : Computed(s) >= 1
       /\ \A s \in Range(waiting) : seqs[s].generated = 0
  BY DEF IInv, HoldingInv
<1>11. Range(running) \subseteq DOMAIN seqs /\ Range(swapped) \subseteq DOMAIN seqs
       /\ Range(waiting) \subseteq DOMAIN seqs
  BY QueueIds DEF IInv
<1>12. RequestsInv'
  BY <1>5 DEF IInv, RequestsInv
<1>13. CASE PreemptionMode = "swap"
  <2>1. /\ Queue(swapped', Ids) /\ Range(swapped') = Range(swapped) \cup {v}
        /\ waiting' = waiting
    <3> DEFINE q == Append(swapped, v)
    <3>1. v \in Ids /\ v \notin Range(swapped) /\ Queue(swapped, Ids)
      BY <1>9
    <3>2. swapped' = q /\ waiting' = waiting
      BY <1>1, <1>13
    <3>3. Queue(q, Ids) /\ Range(q) = Range(swapped) \cup {v}
      BY <3>1, QueueAtEnd
    <3> QED
      BY <3>2, <3>3
  <2>2. QueuesInv'
    BY <1>5, <1>8, <1>9, <2>1 DEF QueuesInv
  <2>3. Computed(v)' = Computed(v)
    BY <1>4, <1>5, <1>13 DEF Computed
  <2>4. HoldingInv'
    BY <1>5, <1>6, <1>8, <1>9, <1>10, <1>11, <2>1, <2>3 DEF HoldingInv
  <2> QED
    BY <1>7, <1>12, <2>2, <2>4 DEF IInv
<1>14. CASE PreemptionMode # "swap"
  <2>1. /\ Queue(waiting', Ids) /\ Range(waiting') = Range(waiting) \cup {v}
        /\ swapped' = swapped
    <3> DEFINE q == Requeued(v, waiting)
    <3>1. v \in Ids /\ v \notin Range(waiting) /\ Queue(waiting, Ids)
      BY <1>9
    <3>2. waiting' = q /\ swapped' = swapped
      BY <1>1, <1>14 DEF Requeued
    <3>3. Queue(q, Ids) /\ Range(q) = Range(waiting) \cup {v}
      BY <3>1, QueueAtHead
    <3> QED
      BY <3>2, <3>3
  <2>2. QueuesInv'
    BY <1>5, <1>8, <1>9, <2>1 DEF QueuesInv
  <2>3. seqs'[v].generated = 0
    BY <1>4, <1>5, <1>14
  <2>4. HoldingInv'
    BY <1>5, <1>6, <1>8, <1>9, <1>10, <1>11, <2>1, <2>3 DEF HoldingInv
  <2> QED
    BY <1>7, <1>12, <2>2, <2>4 DEF IInv
<1> QED
  BY <1>13, <1>14
-----------------------------------------------------------------------------
(* The calls of the callers: add_request(), finish() and abort() *)

\* A request arrives.
LEMMA AddRequestKeepsIInv ==
  ASSUME IInv, NEW p \in Prompts, NEW m \in MaxTokensChoices, NEW a \in 1..NumRequests,
         AddRequest(p, m, a)
  PROVE  IInv'
<1> DEFINE s == Len(seqs) + 1
           r == [prompt |-> p, max |-> m, arrival |-> a, status |-> "waiting",
                 prefilled |-> 0, generated |-> 0, cached |-> 0]
<1>1. /\ seqs' = Append(seqs, r) /\ waiting' = Append(waiting, s)
      /\ UNCHANGED <<kv, cache, running, swapped, phase, budget, written>>
  BY DEF AddRequest
<1>2. p \in Seq(Nat) /\ p # <<>> /\ NumRequests \in Nat
  BY SchedulerAssumption
<1>3. r \in Requests
  <2>1. Len(p) \in Nat /\ Len(p) > 0 /\ a \in Nat
    BY <1>2
  <2> QED
    BY <2>1 DEF Requests, Statuses
<1> HIDE DEF r
<1>4. seqs \in Seq(Requests) /\ DOMAIN seqs = 1..Len(seqs) /\ Len(seqs) \in Nat
  BY DEF IInv, RequestsInv
<1>5. /\ seqs' \in Seq(Requests) /\ DOMAIN seqs' = DOMAIN seqs \cup {s}
      /\ s \notin DOMAIN seqs /\ seqs'[s] = r
      /\ \A x \in DOMAIN seqs : seqs'[x] = seqs[x]
  <2>1. /\ seqs' \in Seq(Requests) /\ Len(seqs') = Len(seqs) + 1 /\ seqs'[s] = r
        /\ \A x \in DOMAIN seqs : seqs'[x] = seqs[x]
    BY <1>1, <1>3, <1>4
  <2> QED
    BY <1>4, <2>1
<1> HIDE DEF s
<1>6. \A x \in DOMAIN seqs : Computed(x)' = Computed(x)
  BY <1>5 DEF Computed
<1>7. MemoryInv'
  <2>1. Streams' = Streams
    BY <1>1, <1>5, QueueIds DEF Streams
  <2> QED
    BY <1>1, <2>1 DEF IInv, MemoryInv
<1>8. RequestsInv'
  BY <1>1, <1>5 DEF IInv, RequestsInv
<1>9. Ids' = Ids \cup {s} /\ s \notin Ids
  BY <1>5 DEF Ids
<1>10. /\ Queue(waiting', Ids') /\ Range(waiting') = Range(waiting) \cup {s}
       /\ Queue(running, Ids') /\ Queue(swapped, Ids')
  <2> DEFINE more == Ids'
  <2>1. /\ Ids \subseteq more /\ s \in more
        /\ Queue(waiting, Ids) /\ Queue(running, Ids) /\ Queue(swapped, Ids)
    BY <1>9 DEF IInv, QueuesInv
  <2> HIDE DEF more
  <2>2. Queue(waiting, more) /\ Queue(running, more) /\ Queue(swapped, more)
    BY <2>1, WiderQueue
  <2>3. s \notin Range(waiting)
    BY <1>5, QueueIds
  <2>4. Queue(Append(waiting, s), more) /\ Range(Append(waiting, s)) = Range(waiting) \cup {s}
    BY <2>1, <2>2, <2>3, QueueAtEnd
  <2> QED
    BY <1>1, <2>2, <2>4 DEF more
<1>11. /\ Range(waiting) \subseteq DOMAIN seqs /\ Range(running) \subseteq DOMAIN seqs
       /\ Range(swapped) \subseteq DOMAIN seqs
  BY QueueIds
<1>12. QueuesInv'
  BY <1>1, <1>5, <1>10, <1>11 DEF IInv, QueuesInv
<1>13. HoldingInv'
  <2>1. seqs'[s].generated = 0
    BY <1>5 DEF r
  <2>2. \A x \in Range(waiting') : seqs'[x].generated = 0
    BY <1>5, <1>10, <1>11, <2>1 DEF IInv, HoldingInv
  <2>3. /\ DOMAIN kv'.table = Range(running')
        /\ \A x \in Range(running') : kv'.len[x] = Computed(x)' /\ Computed(x)' >= 1
        /\ \A x \in Range(swapped') : Computed(x)' >= 1
    BY <1>1, <1>6, <1>11 DEF IInv, HoldingInv
  <2> QED
    BY <2>2, <2>3 DEF HoldingInv
<1> QED
  BY <1>7, <1>8, <1>12, <1>13 DEF IInv

\* What each caller does to the requests when s leaves the running ones.
LEMMA LeavingKeepsQueues ==
  ASSUME IInv, NEW s \in DOMAIN seqs, NEW r \in Requests, r.prompt = seqs[s].prompt,
         s \in Range(waiting) => r.generated = 0,
         s \in Range(swapped) => r.prefilled + r.generated >= 1,
         seqs' = [seqs EXCEPT ![s] = r],
         running' = Without(running, {s}),
         waiting' = waiting \/ waiting' = Without(waiting, {s}),
         swapped' = swapped \/ swapped' = Without(swapped, {s}),
         DOMAIN kv'.table = DOMAIN kv.table \ {s},
         \A x \in DOMAIN kv'.table : kv'.len[x] = kv.len[x],
         phase' = phase, budget' \in 0..MaxNumBatchedTokens
  PROVE  RequestsInv' /\ QueuesInv' /\ HoldingInv'
<1>1. RequestsInv /\ QueuesInv /\ HoldingInv
  BY DEF IInv
<1>2. /\ seqs' \in Seq(Requests) /\ Ids' = Ids /\ DOMAIN seqs' = DOMAIN seqs
      /\ seqs'[s] = r
      /\ \A x \in DOMAIN seqs : x # s => seqs'[x] = seqs[x]
      /\ \A x \in DOMAIN seqs : x # s => Computed(x)' = Computed(x)
      /\ Computed(s)' = r.prefilled + r.generated
  BY <1>1, OneRequestChanges
<1>3. /\ Queue(waiting', Ids) /\ Range(waiting') \subseteq Range(waiting)
      /\ Queue(swapped', Ids) /\ Range(swapped') \subseteq Range(swapped)
      /\ Queue(running', Ids) /\ Range(running') = Range(running) \ {s}
  <2>1. Queue(waiting, Ids) /\ Queue(swapped, Ids) /\ Queue(running, Ids)
    BY <1>1 DEF QueuesInv
  <2>2. /\ Queue(Without(waiting, {s}), Ids)
        /\ Range(Without(waiting, {s})) = Range(waiting) \ {s}
    BY <2>1, QueueWithout
  <2>3. /\ Queue(Without(swapped, {s}), Ids)
        /\ Range(Without(swapped, {s})) = Range(swapped) \ {s}
    BY <2>1, QueueWithout
  <2>4. /\ Queue(Without(running, {s}), Ids)
        /\ Range(Without(running, {s})) = Range(running) \ {s}
    BY <2>1, QueueWithout
  <2>5. Queue(waiting', Ids) /\ Range(waiting') \subseteq Range(waiting)
    BY <2>1, <2>2
  <2>6. Queue(swapped', Ids) /\ Range(swapped') \subseteq Range(swapped)
    BY <2>1, <2>3
  <2> QED
    BY <2>4, <2>5, <2>6
<1>4. RequestsInv'
  BY <1>1, <1>2 DEF RequestsInv
<1>5. QueuesInv'
  BY <1>1, <1>2, <1>3 DEF QueuesInv
<1>6. HoldingInv'
  <2>1. DOMAIN kv'.table = Range(running')
    BY <1>1, <1>3 DEF HoldingInv
  <2>2. \A x \in Range(running') : kv'.len[x] = Computed(x)' /\ Computed(x)' >= 1
    BY <1>1, <1>2, <1>3, <2>1, QueueIds DEF HoldingInv
  <2>3. \A x \in Range(swapped') : Computed(x)' >= 1
    BY <1>1, <1>2, <1>3, QueueIds DEF HoldingInv
  <2>4. \A x \in Range(waiting') : seqs'[x].generated = 0
    BY <1>1, <1>2, <1>3, QueueIds DEF HoldingInv
  <2> QED
    BY <2>1, <2>2, <2>3, <2>4 DEF HoldingInv
<1> QED
  BY <1>4, <1>5, <1>6

\* The record of a request whose status is set.
LEMMA EndedRecord ==
  ASSUME IInv, NEW s \in DOMAIN seqs, NEW status \in Statuses
  PROVE  LET r == [seqs[s] EXCEPT !.status = status] IN
           /\ r \in Requests /\ r.prompt = seqs[s].prompt
           /\ s \in Range(waiting) => r.generated = 0
           /\ s \in Range(swapped) => r.prefilled + r.generated >= 1
<1> DEFINE r == [seqs[s] EXCEPT !.status = status]
<1>1. seqs[s] \in Requests
  BY RequestFacts DEF IInv
<1>2. /\ r \in Requests /\ r.prompt = seqs[s].prompt /\ r.generated = seqs[s].generated
      /\ r.prefilled = seqs[s].prefilled
  BY <1>1 DEF Requests
<1> HIDE DEF r
<1>3. /\ s \in Range(waiting) => seqs[s].generated = 0
      /\ s \in Range(swapped) => seqs[s].prefilled + seqs[s].generated >= 1
  BY DEF IInv, HoldingInv, Computed
<1> QED
  BY <1>2, <1>3 DEF r

\* A request is aborted, in whichever queue it is.
LEMMA AbortKeepsIInv ==
  ASSUME IInv, NEW s \in DOMAIN seqs, Abort(s)
  PROVE  IInv'
<1> DEFINE r == [seqs[s] EXCEPT !.status = "aborted"]
<1>1. /\ kv' = FreeSequence(kv, s) /\ written' = Keep(written, kv') /\ cache' = cache
      /\ waiting' = Without(waiting, {s}) /\ running' = Without(running, {s})
      /\ swapped' = Without(swapped, {s}) /\ phase' = phase /\ budget' = budget
      /\ seqs' = [seqs EXCEPT ![s] = r]
  BY DEF Abort
<1>2. /\ r \in Requests /\ r.prompt = seqs[s].prompt
      /\ s \in Range(waiting) => r.generated = 0
      /\ s \in Range(swapped) => r.prefilled + r.generated >= 1
  BY EndedRecord DEF Statuses
<1> HIDE DEF r
<1>3. /\ DOMAIN kv'.table = DOMAIN kv.table \ {s}
      /\ \A x \in DOMAIN kv'.table : kv'.len[x] = kv.len[x]
  <2>1. PoolType(kv, Nat)
    BY DEF IInv, MemoryInv, PoolInv
  <2> QED
    BY <1>1, <2>1, FreeLeavesOthers
<1>4. RequestsInv' /\ QueuesInv' /\ HoldingInv'
  BY <1>1, <1>2, <1>3, LeavingKeepsQueues DEF IInv, RequestsInv
<1>5. \A x \in DOMAIN seqs : seqs'[x].prompt = seqs[x].prompt
  BY <1>1, <1>2, OneRequestChanges DEF IInv
<1>6. MemoryInv'
  <2> DEFINE nk  == kv'
             ns  == Streams'
             old == Streams
  <2>1. OthersKeep(old, ns, s, kv)
    BY <1>3, <1>5, QueueIds DEF OthersKeep, Streams
  <2>2. /\ PoolInv(kv, Nat, EntryPins(cache)) /\ IndexInv(cache)
        /\ ContentInv(kv, cache, written, old) /\ nk = FreeSequence(kv, s)
    BY <1>1 DEF IInv, MemoryInv
  <2> HIDE DEF nk, ns, old
  <2>3. PoolInv(nk, Nat, EntryPins(cache)) /\ ContentInv(nk, cache, Keep(written, nk), ns)
    BY <2>1, <2>2, FreeKeepsAll
  <2> QED
    BY <1>1, <2>2, <2>3 DEF nk, ns, MemoryInv
<1> QED
  BY <1>4, <1>6 DEF IInv

\* The stream of a sequence that has a table.
LEMMA StreamFacts ==
  ASSUME IInv, NEW s \in DOMAIN kv.table
  PROVE  /\ s \in DOMAIN seqs /\ s \in Range(running) /\ kv.len[s] = Computed(s)
         /\ kv.len[s] \in Nat
         /\ Streams[s] = StreamOf(seqs[s].prompt, s, kv.len[s])
         /\ Streams[s] \in Seq(Int) /\ Len(Streams[s]) = kv.len[s]
         /\ PrefillDone(s) => StartsWith(Streams[s], seqs[s].prompt)
<1>1. s \in DOMAIN seqs /\ s \in Range(running) /\ kv.len[s] = Computed(s)
  BY QueueIds DEF IInv, HoldingInv
<1>2. /\ Computed(s) \in Nat /\ s \in Nat /\ seqs[s].prompt \in Seq(Nat)
      /\ Computed(s) = seqs[s].prefilled + seqs[s].generated
      /\ seqs[s].prefilled \in Nat /\ seqs[s].generated \in Nat /\ PromptLen(s) \in Nat
  BY <1>1, RequestFacts DEF IInv
<1>3. Streams[s] = StreamOf(seqs[s].prompt, s, kv.len[s])
  BY DEF Streams
<1>4. PrefillDone(s) => Len(seqs[s].prompt) <= kv.len[s]
  BY <1>1, <1>2 DEF PrefillDone, PromptLen
<1>5. Streams[s] \in Seq(Int) /\ Len(Streams[s]) = kv.len[s]
      /\ (Len(seqs[s].prompt) <= kv.len[s] => StartsWith(Streams[s], seqs[s].prompt))
  <2> DEFINE p == seqs[s].prompt
             n == kv.len[s]
  <2>1. p \in Seq(Nat) /\ n \in Nat /\ s \in Nat /\ 0 \in Nat
    BY <1>1, <1>2
  <2> HIDE DEF p, n
  <2>2. /\ StreamOf(p, s, n) \in Seq(Int) /\ Len(StreamOf(p, s, n)) = n
        /\ Len(p) <= n => StartsWith(StreamOf(p, s, n), p)
    BY <2>1, StreamGrows
  <2> QED
    BY <1>3, <2>2 DEF p, n
<1> QED
  BY <1>1, <1>2, <1>3, <1>4, <1>5

\* finish() is called, for a request in any queue.
LEMMA FinishEarlyKeepsIInv ==
  ASSUME IInv, NEW s \in DOMAIN seqs, FinishEarly(s)
  PROVE  IInv'
<1> DEFINE r == [seqs[s] EXCEPT !.status = "finished"]
<1>1. /\ kv' = Finished(kv, s).kv /\ cache' = Finished(kv, s).cache
      /\ written' = Keep(written, kv')
      /\ waiting' = waiting /\ running' = Without(running, {s})
      /\ swapped' = swapped /\ phase' = phase /\ budget' = budget
      /\ seqs' = [seqs EXCEPT ![s] = r]
  BY DEF FinishEarly
<1>2. /\ r \in Requests /\ r.prompt = seqs[s].prompt
      /\ s \in Range(waiting) => r.generated = 0
      /\ s \in Range(swapped) => r.prefilled + r.generated >= 1
  BY EndedRecord DEF Statuses
<1> HIDE DEF r
<1>3. \A x \in DOMAIN seqs : seqs'[x].prompt = seqs[x].prompt
  BY <1>1, <1>2, OneRequestChanges DEF IInv
<1> DEFINE nk  == kv'
           nc  == cache'
           old == Streams
<1>4. /\ PoolInv(nk, Nat, EntryPins(nc)) /\ IndexInv(nc)
      /\ DOMAIN nk.table = DOMAIN kv.table \ {s}
      /\ \A x \in DOMAIN nk.table : nk.len[x] = kv.len[x]
      /\ ContentInv(nk, nc, Keep(written, nk), old)
  <2>1. /\ PoolInv(kv, Nat, EntryPins(cache)) /\ IndexInv(cache)
        /\ ContentInv(kv, cache, written, old) /\ OthersKeep(old, old, s, kv)
    BY DEF IInv, MemoryInv, OthersKeep
  <2>2. seqs[s].prompt \in Seq(Nat)
    BY RequestFacts DEF IInv
  <2>3. PrefillDone(s) /\ s \in DOMAIN kv.table =>
           /\ old[s] \in Seq(Int) /\ Len(old[s]) = kv.len[s]
           /\ StartsWith(old[s], seqs[s].prompt)
    BY StreamFacts
  <2>4. nk = Finished(kv, s).kv /\ nc = Finished(kv, s).cache
    BY <1>1
  <2> HIDE DEF nk, nc, old
  <2> QED
    BY <2>1, <2>2, <2>3, <2>4, FinishedKeepsAll
<1>5. RequestsInv' /\ QueuesInv' /\ HoldingInv'
  BY <1>1, <1>2, <1>4, LeavingKeepsQueues DEF IInv, RequestsInv
<1>6. \A x \in DOMAIN kv'.table : Streams'[x] = Streams[x]
  BY <1>3, <1>4, QueueIds DEF Streams
<1>7. ContentInv(kv', cache', written', Streams')
  BY <1>1, <1>4, <1>6 DEF ContentInv, ReadsOwn
<1> QED
  BY <1>4, <1>5, <1>7 DEF IInv, MemoryInv
-----------------------------------------------------------------------------
(* The turns of the loops: preemption, decoding, chunks *)

\* A loop preempts a running request.
LEMMA TurnsPreempt ==
  ASSUME IInv, DecodePreempt \/ ChunkPreempt
  PROVE  IInv'
<1>1. CASE DecodePreempt
  <2>1. PICK s, v \in DOMAIN seqs :
          /\ DecodeTurn(s) /\ IsVictim(v, s) /\ Preempt(v) /\ UNCHANGED <<cache, phase, budget>>
    BY <1>1 DEF DecodePreempt
  <2>2. Queue(running, Ids)
    BY DEF IInv, QueuesInv
  <2>3. v \in Range(running)
    BY <2>1, <2>2, QueueMembers DEF DecodeTurn, StillRunning, IsVictim
  <2> QED
    BY <2>1, <2>3, PreemptKeepsIInv
<1>2. CASE ChunkPreempt
  <2>1. PICK s \in DOMAIN seqs :
          ChunkTurn(s) /\ Preempt(s) /\ UNCHANGED <<cache, phase, budget>>
    BY <1>2 DEF ChunkPreempt
  <2>2. Queue(running, Ids)
    BY DEF IInv, QueuesInv
  <2>3. s \in Range(running)
    BY <2>1, <2>2, QueueMembers DEF ChunkTurn, StillRunning
  <2> QED
    BY <2>1, <2>3, PreemptKeepsIInv
<1> QED
  BY <1>1, <1>2

\* The stream of a sequence that computes n more tokens, and all the streams then.
Further(s, n) == Stream(s, kv.len[s] + n)

StreamsAfter(s, n) == [Streams EXCEPT ![s] = Further(s, n)]

\* A running sequence computes n more tokens into its table.
LEMMA GrowKeepsMemory ==
  ASSUME IInv, NEW s \in DOMAIN kv.table, NEW n \in Nat, CanAppend(kv, s, n),
         NEW pool, pool = AppendTokens(kv, s, n),
         NEW wrote, wrote = Compute(written, pool.table[s], kv.len[s], Further(s, n)),
         NEW now, now = StreamsAfter(s, n)
  PROVE  /\ PoolInv(pool, Nat, EntryPins(cache)) /\ IndexInv(cache)
         /\ ContentInv(pool, cache, wrote, now)
         /\ DOMAIN pool.table = DOMAIN kv.table /\ pool.len[s] = kv.len[s] + n
         /\ \A x \in DOMAIN kv.table : x # s => pool.len[x] = kv.len[x]
         /\ now[s] = StreamOf(seqs[s].prompt, s, kv.len[s] + n)
         /\ \A x \in DOMAIN kv.table : x # s => now[x] = Streams[x]
<1> DEFINE p   == seqs[s].prompt
           l   == kv.len[s]
           str == Further(s, n)
           old == Streams
           T   == Int
<1>1. /\ PoolInv(kv, Nat, EntryPins(cache)) /\ IndexInv(cache)
      /\ ContentInv(kv, cache, written, old)
  BY DEF IInv, MemoryInv
<1>2. /\ s \in DOMAIN seqs /\ s \in Nat /\ l \in Nat /\ p \in Seq(Nat)
      /\ old[s] = StreamOf(p, s, l) /\ str = StreamOf(p, s, l + n)
  BY StreamFacts, RequestFacts DEF IInv, Further
<1>3. now[s] = str /\ \A x \in DOMAIN kv.table : x # s => now[x] = old[x]
  BY DEF Streams, StreamsAfter
<1>4. /\ DOMAIN pool.table = DOMAIN kv.table /\ pool.len[s] = l + n
      /\ \A x \in DOMAIN kv.table : x # s => pool.len[x] = kv.len[x]
  <2>1. DOMAIN kv.len = DOMAIN kv.table
    BY <1>1 DEF PoolInv, PoolType
  <2> QED
    BY <2>1 DEF AppendTokens, Bind
<1>5. PoolInv(pool, Nat, EntryPins(cache))
  BY <1>1, AppendKeepsInv
<1>6. wrote = Compute(written, pool.table[s], kv.len[s], str)
  OBVIOUS
<1>7. /\ old[s] \in Seq(T) /\ Len(old[s]) = l /\ str \in Seq(T) /\ Extends(old[s], str, n)
  <2> HIDE DEF p, l, str, old
  <2>1. l + n \in Nat
    BY <1>2
  <2>2. /\ StreamOf(p, s, l) \in Seq(Int) /\ Len(StreamOf(p, s, l)) = l
        /\ Extends(StreamOf(p, s, l), StreamOf(p, s, l + n), n)
    BY <1>2, StreamGrows
  <2>3. StreamOf(p, s, l + n) \in Seq(Int)
    BY <1>2, <2>1, StreamGrows
  <2> QED
    BY <1>2, <2>2, <2>3
<1>8. ContentInv(pool, cache, wrote, now)
  <2>1. /\ ContentInv(kv, cache, written, old) /\ old[s] \in Seq(T)
        /\ Len(old[s]) = kv.len[s] /\ str \in Seq(T) /\ Extends(old[s], str, n)
        /\ now[s] = str /\ OthersKeep(old, now, s, kv)
        /\ PoolInv(kv, Nat, EntryPins(cache)) /\ IndexInv(cache)
        /\ s \in DOMAIN kv.table /\ n \in Nat /\ CanAppend(kv, s, n)
        /\ pool = AppendTokens(kv, s, n)
    BY <1>1, <1>3, <1>7 DEF OthersKeep
  <2> HIDE DEF str, old, T
  <2>2. ContentInv(pool, cache, Compute(written, pool.table[s], kv.len[s], str), now)
    BY <2>1, GrowKeepsContent
  <2> QED
    BY <1>6, <2>2
<1> QED
  BY <1>1, <1>2, <1>3, <1>4, <1>5, <1>8

\* A running sequence changes and stays in its queue.
LEMMA StayingKeepsQueues ==
  ASSUME IInv, NEW s \in Range(running), NEW r \in Requests, r.prompt = seqs[s].prompt,
         seqs' = [seqs EXCEPT ![s] = r],
         running' = running, waiting' = waiting, swapped' = swapped,
         DOMAIN kv'.table = DOMAIN kv.table,
         kv'.len[s] = r.prefilled + r.generated, r.prefilled + r.generated >= 1,
         \A x \in DOMAIN kv.table : x # s => kv'.len[x] = kv.len[x],
         phase' = phase, budget' \in 0..MaxNumBatchedTokens
  PROVE  RequestsInv' /\ QueuesInv' /\ HoldingInv'
<1>1. RequestsInv /\ QueuesInv /\ HoldingInv /\ s \in DOMAIN seqs
  BY QueueIds DEF IInv
<1>2. /\ seqs' \in Seq(Requests) /\ Ids' = Ids /\ DOMAIN seqs' = DOMAIN seqs
      /\ seqs'[s] = r
      /\ \A x \in DOMAIN seqs : x # s => seqs'[x] = seqs[x]
      /\ \A x \in DOMAIN seqs : x # s => Computed(x)' = Computed(x)
      /\ Computed(s)' = r.prefilled + r.generated
  BY <1>1, OneRequestChanges
<1>3. RequestsInv'
  BY <1>1, <1>2 DEF RequestsInv
<1>4. QueuesInv'
  BY <1>1, <1>2 DEF QueuesInv
<1>5. s \notin Range(waiting) /\ s \notin Range(swapped)
  BY <1>1 DEF QueuesInv
<1>6. HoldingInv'
  <2>1. DOMAIN kv'.table = Range(running')
    BY <1>1 DEF HoldingInv
  <2>2. \A x \in Range(running') : kv'.len[x] = Computed(x)' /\ Computed(x)' >= 1
    BY <1>1, <1>2, <2>1, QueueIds DEF HoldingInv
  <2>3. \A x \in Range(swapped') : Computed(x)' >= 1
    BY <1>1, <1>2, <1>5, QueueIds DEF HoldingInv
  <2>4. \A x \in Range(waiting') : seqs'[x].generated = 0
    BY <1>1, <1>2, <1>5, QueueIds DEF HoldingInv
  <2> QED
    BY <2>1, <2>2, <2>3, <2>4 DEF HoldingInv
<1> QED
  BY <1>3, <1>4, <1>6

\* The next chunk of a prompt.
LEMMA ChunkContinueKeepsIInv ==
  ASSUME IInv, ChunkContinue
  PROVE  IInv'
<1>1. PICK s \in DOMAIN seqs :
        /\ ChunkTurn(s) /\ CanAppend(kv, s, Chunk(s))
        /\ kv' = AppendTokens(kv, s, Chunk(s))
        /\ written' = Compute(written, kv'.table[s], kv.len[s],
                              Stream(s, kv.len[s] + Chunk(s)))
        /\ seqs' = [seqs EXCEPT ![s].prefilled = @ + Chunk(s)]
        /\ budget' = budget - Chunk(s)
        /\ UNCHANGED <<cache, waiting, running, swapped, phase>>
  BY DEF ChunkContinue
<1> DEFINE n == Chunk(s)
           r == [seqs[s] EXCEPT !.prefilled = @ + n]
<1>2. /\ seqs[s] \in Requests /\ PromptLen(s) \in Nat
      /\ seqs[s].prefilled \in Nat /\ seqs[s].prefilled <= PromptLen(s)
      /\ seqs[s].generated \in Nat /\ seqs[s].cached < PromptLen(s)
      /\ Computed(s) = seqs[s].prefilled + seqs[s].generated
      /\ seqs[s].prompt \in Seq(Nat) /\ seqs[s].cached \in Nat
  BY RequestFacts DEF IInv
<1>3. budget \in 0..MaxNumBatchedTokens /\ MaxNumBatchedTokens \in Nat
  BY SchedulerAssumption DEF IInv, RequestsInv
<1>4. /\ n \in Nat /\ n > 0 /\ n <= budget
      /\ seqs[s].prefilled + n \in Nat /\ seqs[s].prefilled + n <= PromptLen(s)
  <2>1. RemainingPrefill(s) \in Nat
        /\ (RemainingPrefill(s) > 0 => seqs[s].prefilled + RemainingPrefill(s) = PromptLen(s))
    BY <1>2 DEF RemainingPrefill, NonNegative
  <2>2. n > 0
    BY <1>1 DEF ChunkTurn
  <2>3. CASE RemainingPrefill(s) <= budget
    <3>1. n = RemainingPrefill(s)
      <4>1. ~(RemainingPrefill(s) > budget)
        BY <1>3, <2>1, <2>3
      <4> QED
        BY <2>3, <4>1 DEF Chunk
    <3> QED
      BY <1>2, <2>1, <2>2, <2>3, <3>1
  <2>4. CASE ~(RemainingPrefill(s) <= budget)
    <3>1. RemainingPrefill(s) > budget
      BY <1>3, <2>1, <2>4
    <3>2. n = IF ChunkedPrefill THEN budget ELSE 0
      BY <2>4, <3>1 DEF Chunk
    <3>3. n \in Nat /\ n <= budget /\ n <= RemainingPrefill(s) /\ RemainingPrefill(s) > 0
      BY <1>3, <2>1, <2>2, <3>1, <3>2
    <3> QED
      BY <1>2, <2>1, <2>2, <3>3
  <2> QED
    BY <2>3, <2>4
<1>5. s \in Range(running) /\ s \in DOMAIN kv.table
  <2>1. Queue(running, Ids)
    BY DEF IInv, QueuesInv
  <2>2. s \in Range(running)
    BY <1>1, <2>1, QueueMembers DEF ChunkTurn, StillRunning
  <2> QED
    BY <2>2 DEF IInv, HoldingInv
<1> HIDE DEF n
<1>6. /\ r \in Requests /\ r.prompt = seqs[s].prompt
      /\ r.prefilled = seqs[s].prefilled + n /\ r.generated = seqs[s].generated
  <2> HIDE DEF r
  <2>1. r = [seqs[s] EXCEPT !.prefilled = seqs[s].prefilled + n]
    BY DEF r
  <2>2. /\ r.prompt = seqs[s].prompt /\ r.cached = seqs[s].cached
        /\ r.prefilled = seqs[s].prefilled + n /\ r.generated = seqs[s].generated
        /\ r \in [prompt : Prompts, max : MaxTokensChoices, arrival : Nat,
                  status : Statuses, prefilled : Nat, generated : Nat, cached : Nat]
    BY <1>2, <1>4, <2>1 DEF Requests
  <2>3. r.prefilled <= Len(r.prompt) /\ r.cached < Len(r.prompt)
    BY <1>2, <1>4, <2>2 DEF PromptLen
  <2> QED
    BY <2>2, <2>3 DEF Requests
<1>7. seqs' = [seqs EXCEPT ![s] = r]
  BY <1>1 DEF n
<1> HIDE DEF r
<1> DEFINE now == StreamsAfter(s, n)
           nk  == kv'
           nw  == written'
<1>8. /\ PoolInv(nk, Nat, EntryPins(cache)) /\ IndexInv(cache)
      /\ ContentInv(nk, cache, nw, now)
      /\ DOMAIN nk.table = DOMAIN kv.table /\ nk.len[s] = kv.len[s] + n
      /\ \A x \in DOMAIN kv.table : x # s => nk.len[x] = kv.len[x]
      /\ now[s] = StreamOf(seqs[s].prompt, s, kv.len[s] + n)
      /\ \A x \in DOMAIN kv.table : x # s => now[x] = Streams[x]
  <2>1. /\ CanAppend(kv, s, n) /\ nk = AppendTokens(kv, s, n)
        /\ nw = Compute(written, nk.table[s], kv.len[s], Further(s, n))
        /\ now = StreamsAfter(s, n)
    BY <1>1 DEF n, Further
  <2> HIDE DEF nk, nw, now
  <2> QED
    BY <1>4, <1>5, <2>1, GrowKeepsMemory
<1>9. \A x \in DOMAIN seqs : seqs'[x].prompt = seqs[x].prompt
  BY <1>6, <1>7, OneRequestChanges DEF IInv
<1>10. \A x \in DOMAIN kv'.table : Streams'[x] = now[x]
  BY <1>8, <1>9, QueueIds DEF Streams
<1>11. MemoryInv'
  <2>1. ContentInv(kv', cache, written', Streams')
    BY <1>8, <1>10 DEF ContentInv, ReadsOwn
  <2> QED
    BY <1>1, <1>8, <2>1 DEF MemoryInv
<1>12. kv.len[s] = Computed(s) /\ Computed(s) >= 1
  BY <1>5 DEF IInv, HoldingInv
<1>13. /\ DOMAIN kv'.table = DOMAIN kv.table /\ kv'.len[s] = r.prefilled + r.generated
       /\ r.prefilled + r.generated >= 1
       /\ \A x \in DOMAIN kv.table : x # s => kv'.len[x] = kv.len[x]
  <2>1. kv'.len[s] = Computed(s) + n
    BY <1>8, <1>12
  <2>2. r.prefilled + r.generated = Computed(s) + n
    BY <1>2, <1>4, <1>6
  <2>3. Computed(s) \in Nat
    BY <1>2
  <2> QED
    BY <1>4, <1>8, <1>12, <2>1, <2>2, <2>3
<1>14. budget' \in 0..MaxNumBatchedTokens
  BY <1>1, <1>3, <1>4 DEF n
<1>15. RequestsInv' /\ QueuesInv' /\ HoldingInv'
  BY <1>1, <1>5, <1>6, <1>7, <1>13, <1>14, StayingKeepsQueues
<1> QED
  BY <1>11, <1>15 DEF IInv
\* One more token, perhaps the last.
LEMMA DecodeTokenKeepsIInv ==
  ASSUME IInv, DecodeToken
  PROVE  IInv'
<1>1. PICK s \in DOMAIN seqs :
        LET grown == AppendTokens(kv, s, 1)
            wrote == Compute(written, grown.table[s], kv.len[s], Stream(s, kv.len[s] + 1))
            done  == seqs[s].generated + 1 >= seqs[s].max
            st    == Finished(grown, s)
        IN /\ DecodeTurn(s) /\ CanAppend(kv, s, 1)
           /\ seqs' = [seqs EXCEPT ![s].generated = @ + 1,
                                   ![s].status = IF done THEN "finished" ELSE @]
           /\ IF done
              THEN kv' = st.kv /\ cache' = st.cache /\ running' = Without(running, {s})
              ELSE kv' = grown /\ cache' = cache /\ running' = running
           /\ written' = Keep(wrote, kv')
           /\ budget' = budget - 1
           /\ UNCHANGED <<waiting, swapped, phase>>
  BY DEF DecodeToken
<1> DEFINE grown == AppendTokens(kv, s, 1)
           wrote == Compute(written, grown.table[s], kv.len[s], Further(s, 1))
           now   == StreamsAfter(s, 1)
           done  == seqs[s].generated + 1 >= seqs[s].max
           final == IF done THEN "finished" ELSE seqs[s].status
           r     == [seqs[s] EXCEPT !.generated = seqs[s].generated + 1, !.status = final]
           p     == seqs[s].prompt
           nk    == kv'
           nc    == cache'
<1>2. /\ seqs[s] \in Requests /\ PromptLen(s) \in Nat /\ s \in Nat
      /\ seqs[s].prefilled \in Nat /\ seqs[s].prefilled <= PromptLen(s)
      /\ seqs[s].generated \in Nat /\ seqs[s].cached < PromptLen(s)
      /\ Computed(s) = seqs[s].prefilled + seqs[s].generated /\ Computed(s) \in Nat
      /\ p \in Seq(Nat)
  BY RequestFacts DEF IInv
<1>3. budget' \in 0..MaxNumBatchedTokens
  <2>1. budget \in 0..MaxNumBatchedTokens /\ MaxNumBatchedTokens \in Nat
    BY SchedulerAssumption DEF IInv, RequestsInv
  <2>2. budget >= 1 /\ budget' = budget - 1
    BY <1>1 DEF DecodeTurn
  <2> QED
    BY <2>1, <2>2
<1>4. /\ s \in Range(running) /\ s \in DOMAIN kv.table
      /\ kv.len[s] = Computed(s) /\ Computed(s) >= 1
      /\ s \notin Range(waiting) /\ s \notin Range(swapped)
  <2>1. Queue(running, Ids)
    BY DEF IInv, QueuesInv
  <2>2. s \in Range(running)
    BY <1>1, <2>1, QueueMembers DEF DecodeTurn, StillRunning
  <2> QED
    BY <2>2 DEF IInv, HoldingInv, QueuesInv
<1>5. /\ r \in Requests /\ r.prompt = p
      /\ r.prefilled = seqs[s].prefilled /\ r.generated = seqs[s].generated + 1
  <2>1. final \in Statuses
    BY <1>2 DEF Requests, Statuses
  <2>2. seqs[s].generated + 1 \in Nat
    BY <1>2
  <2> HIDE DEF final
  <2> QED
    BY <1>2, <2>1, <2>2 DEF Requests
<1>6. seqs' = [seqs EXCEPT ![s] = r]
  BY <1>1
<1>7. /\ done => kv' = Finished(grown, s).kv /\ cache' = Finished(grown, s).cache
                 /\ running' = Without(running, {s})
      /\ ~done => kv' = grown /\ cache' = cache /\ running' = running
      /\ written' = Keep(wrote, kv') /\ waiting' = waiting /\ swapped' = swapped
      /\ phase' = phase /\ CanAppend(kv, s, 1)
  BY <1>1 DEF Further
<1> HIDE DEF r, done, final
<1>8. /\ PoolInv(grown, Nat, EntryPins(cache)) /\ IndexInv(cache)
      /\ ContentInv(grown, cache, wrote, now)
      /\ DOMAIN grown.table = DOMAIN kv.table /\ grown.len[s] = kv.len[s] + 1
      /\ \A x \in DOMAIN kv.table : x # s => grown.len[x] = kv.len[x]
      /\ now[s] = StreamOf(p, s, kv.len[s] + 1)
      /\ \A x \in DOMAIN kv.table : x # s => now[x] = Streams[x]
  <2>1. /\ 1 \in Nat /\ grown = AppendTokens(kv, s, 1) /\ now = StreamsAfter(s, 1)
        /\ wrote = Compute(written, grown.table[s], kv.len[s], Further(s, 1))
    OBVIOUS
  <2> HIDE DEF grown, wrote, now
  <2> QED
    BY <1>4, <1>7, <2>1, GrowKeepsMemory
<1> HIDE DEF grown, wrote, now
<1>9. \A x \in DOMAIN seqs : seqs'[x].prompt = seqs[x].prompt
  BY <1>5, <1>6, OneRequestChanges DEF IInv
<1>10. r.prefilled + r.generated = kv.len[s] + 1 /\ kv.len[s] + 1 \in Nat
       /\ r.prefilled + r.generated >= 1
  BY <1>2, <1>4, <1>5
<1>11. CASE ~done
  <2>1. PoolInv(nk, Nat, EntryPins(nc)) /\ IndexInv(nc)
        /\ ContentInv(nk, nc, Keep(wrote, nk), now)
    <3>1. nk = grown /\ nc = cache
      BY <1>7, <1>11
    <3> HIDE DEF nk, nc
    <3>2. PoolInv(nk, Nat, EntryPins(nc)) /\ IndexInv(nc) /\ ContentInv(nk, nc, wrote, now)
      BY <1>8, <3>1
    <3> QED
      BY <3>2, ShrinkKeepsContent
  <2>2. \A x \in DOMAIN kv'.table : Streams'[x] = now[x]
    BY <1>7, <1>8, <1>9, <1>11, QueueIds DEF Streams
  <2>3. MemoryInv'
    <3>1. ContentInv(kv', cache', written', Streams')
      BY <1>7, <2>1, <2>2 DEF ContentInv, ReadsOwn
    <3> QED
      BY <2>1, <3>1 DEF MemoryInv
  <2>4. RequestsInv' /\ QueuesInv' /\ HoldingInv'
    <3>1. /\ running' = running /\ DOMAIN kv'.table = DOMAIN kv.table
          /\ kv'.len[s] = r.prefilled + r.generated
          /\ \A x \in DOMAIN kv.table : x # s => kv'.len[x] = kv.len[x]
      BY <1>7, <1>8, <1>10, <1>11
    <3> QED
      BY <1>3, <1>4, <1>5, <1>6, <1>7, <1>10, <3>1, StayingKeepsQueues
  <2> QED
    BY <2>3, <2>4 DEF IInv
<1>12. CASE done
  <2>1. /\ PoolInv(nk, Nat, EntryPins(nc)) /\ IndexInv(nc)
        /\ DOMAIN nk.table = DOMAIN grown.table \ {s}
        /\ \A x \in DOMAIN nk.table : nk.len[x] = grown.len[x]
        /\ ContentInv(nk, nc, Keep(wrote, nk), now)
    <3>1. nk = Finished(grown, s).kv /\ nc = Finished(grown, s).cache
      BY <1>7, <1>12
    <3>2. OthersKeep(now, now, s, grown)
      BY DEF OthersKeep
    <3>3. /\ now[s] \in Seq(Int) /\ Len(now[s]) = grown.len[s]
          /\ PrefillDone(s) => StartsWith(now[s], p)
      <4> DEFINE n == kv.len[s] + 1
      <4>1. n \in Nat /\ s \in Nat /\ p \in Seq(Nat) /\ 0 \in Nat
        BY <1>2, <1>10
      <4>2. PrefillDone(s) => Len(p) <= n
        BY <1>2, <1>4 DEF PrefillDone, PromptLen
      <4>3. now[s] = StreamOf(p, s, n) /\ grown.len[s] = n
        BY <1>8
      <4> HIDE DEF n, p
      <4>4. /\ StreamOf(p, s, n) \in Seq(Int) /\ Len(StreamOf(p, s, n)) = n
            /\ Len(p) <= n => StartsWith(StreamOf(p, s, n), p)
        BY <4>1, StreamGrows
      <4> QED
        BY <4>2, <4>3, <4>4
    <3>4. seqs[s].prompt \in Seq(Nat)
      BY <1>2
    <3>5. PrefillDone(s) /\ s \in DOMAIN grown.table =>
            /\ now[s] \in Seq(Int) /\ Len(now[s]) = grown.len[s]
            /\ StartsWith(now[s], seqs[s].prompt)
      BY <3>3
    <3>6. PoolInv(grown, Nat, EntryPins(cache)) /\ IndexInv(cache) /\ ContentInv(grown, cache, wrote, now)
      BY <1>8
    <3> HIDE DEF nk, nc, p
    <3> QED
      BY <3>1, <3>2, <3>4, <3>5, <3>6, FinishedKeepsAll
  <2>2. /\ DOMAIN kv'.table = DOMAIN kv.table \ {s}
        /\ \A x \in DOMAIN kv'.table : kv'.len[x] = kv.len[x]
    BY <1>8, <2>1
  <2>3. \A x \in DOMAIN kv'.table : Streams'[x] = now[x]
    BY <1>8, <1>9, <2>2, QueueIds DEF Streams
  <2>4. MemoryInv'
    <3>1. ContentInv(kv', cache', written', Streams')
      BY <1>7, <2>1, <2>3 DEF ContentInv, ReadsOwn
    <3> QED
      BY <2>1, <3>1 DEF MemoryInv
  <2>5. RequestsInv' /\ QueuesInv' /\ HoldingInv'
    <3>1. running' = Without(running, {s}) /\ waiting' = waiting /\ swapped' = swapped
          /\ phase' = phase
      BY <1>7, <1>12
    <3> QED
      BY <1>3, <1>4, <1>5, <1>6, <2>2, <3>1, LeavingKeepsQueues
  <2> QED
    BY <2>4, <2>5 DEF IInv
<1> QED
  BY <1>11, <1>12
-----------------------------------------------------------------------------
(* The turns of the loops: resumption and admission *)

\* More tokens need no fewer blocks.
LEMMA BlocksMonotone ==
  ASSUME NEW m \in Nat, NEW n \in Nat, m <= n
  PROVE  BlocksForTokens(m) <= BlocksForTokens(n)
<1> DEFINE a == BlocksForTokens(m)
           b == BlocksForTokens(n)
           i == a * BlockSize
           j == b * BlockSize
<1>1. /\ a \in Nat /\ b \in Nat /\ i < m + BlockSize /\ n <= j /\ BlockSize \in Nat
  BY CeilingDivision, KVAssumption
<1> HIDE DEF a, b
<1>2. i \in Nat /\ j \in Nat /\ (b < a => j + BlockSize <= i)
  BY <1>1, WholeBlocks
<1> HIDE DEF i, j
<1>3. ~(b < a)
  BY <1>1, <1>2
<1> QED
  BY <1>1, <1>3 DEF a, b

\* can_allocate() for a whole prompt is enough for its first tokens.
LEMMA AdmissionIsEnough ==
  ASSUME NEW pool, NEW Some, PoolType(pool, Some), NEW s, s \notin DOMAIN pool.table,
         NEW m \in Nat, NEW n \in Nat, m <= n, NEW reused, Len(reused) \in Nat,
         Len(reused) * BlockSize <= m, CanAllocate(pool, n, Len(reused))
  PROVE  AllocateOK(pool, s, m, reused)
<1> DEFINE a == BlocksForTokens(m)
           b == BlocksForTokens(n)
           f == NumFree(pool)
           k == Len(reused)
<1>1. a \in Nat /\ b \in Nat /\ a <= b
  BY BlocksMonotone, CeilingDivision
<1>2. f \in Nat /\ WatermarkBlocks \in Nat
  <2>1. IsFiniteSet(pool.free)
    BY FreeIsFinite
  <2> QED
    BY <2>1, FS_CardinalityType, KVAssumption DEF NumFree
<1>3. f - NonNegative(b - k) >= WatermarkBlocks
  BY DEF CanAllocate
<1> HIDE DEF a, b, f
<1>4. a - k <= f
  <2> HIDE DEF k
  <2>1. k \in Nat
    BY DEF k
  <2> QED
    BY <1>1, <1>2, <1>3, <2>1 DEF NonNegative
<1> QED
  BY <1>4 DEF AllocateOK, a, f

\* Who has a table once s is given one.
LEMMA AllocateAddsOne ==
  ASSUME NEW pool, NEW Some, PoolType(pool, Some), NEW s, s \notin DOMAIN pool.table,
         NEW n, NEW reused, NEW new, new = Allocate(pool, s, n, reused)
  PROVE  /\ DOMAIN new.table = DOMAIN pool.table \cup {s} /\ new.len[s] = n
         /\ \A x \in DOMAIN pool.table : new.len[x] = pool.len[x]
<1>1. DOMAIN pool.len = DOMAIN pool.table
  BY DEF PoolType
<1> QED
  BY <1>1 DEF Allocate, Bind

\* The head of a queue joins the running ones.
LEMMA JoiningKeepsQueues ==
  ASSUME IInv, NEW s,
         \/ /\ waiting # <<>> /\ s = Head(waiting)
            /\ waiting' = Tail(waiting) /\ swapped' = swapped
         \/ /\ swapped # <<>> /\ s = Head(swapped)
            /\ swapped' = Tail(swapped) /\ waiting' = waiting,
         NEW r \in Requests, r.prompt = seqs[s].prompt,
         seqs' = [seqs EXCEPT ![s] = r], running' = Append(running, s),
         DOMAIN kv'.table = DOMAIN kv.table \cup {s},
         kv'.len[s] = r.prefilled + r.generated, r.prefilled + r.generated >= 1,
         \A x \in DOMAIN kv.table : kv'.len[x] = kv.len[x],
         phase' = phase, budget' \in 0..MaxNumBatchedTokens
  PROVE  RequestsInv' /\ QueuesInv' /\ HoldingInv'
<1>1. /\ RequestsInv /\ QueuesInv /\ HoldingInv
      /\ Queue(waiting, Ids) /\ Queue(swapped, Ids) /\ Queue(running, Ids)
  BY DEF IInv, QueuesInv
<1>2. /\ s \in Ids /\ s \in Range(waiting) \cup Range(swapped) /\ s \notin Range(running)
      /\ Queue(waiting', Ids) /\ Range(waiting') = Range(waiting) \ {s}
      /\ Queue(swapped', Ids) /\ Range(swapped') = Range(swapped) \ {s}
  <2>1. CASE /\ waiting # <<>> /\ s = Head(waiting)
             /\ waiting' = Tail(waiting) /\ swapped' = swapped
    <3>1. /\ s \in Ids /\ s \in Range(waiting)
          /\ Queue(Tail(waiting), Ids) /\ Range(Tail(waiting)) = Range(waiting) \ {s}
      BY <1>1, <2>1, QueueHead
    <3>2. s \notin Range(running) /\ s \notin Range(swapped)
      BY <1>1, <3>1 DEF QueuesInv
    <3> QED
      BY <1>1, <2>1, <3>1, <3>2
  <2>2. CASE /\ swapped # <<>> /\ s = Head(swapped)
             /\ swapped' = Tail(swapped) /\ waiting' = waiting
    <3>1. /\ s \in Ids /\ s \in Range(swapped)
          /\ Queue(Tail(swapped), Ids) /\ Range(Tail(swapped)) = Range(swapped) \ {s}
      BY <1>1, <2>2, QueueHead
    <3>2. s \notin Range(running) /\ s \notin Range(waiting)
      BY <1>1, <3>1 DEF QueuesInv
    <3> QED
      BY <1>1, <2>2, <3>1, <3>2
  <2> QED
    BY <2>1, <2>2
<1>3. Queue(running', Ids) /\ Range(running') = Range(running) \cup {s}
  <2>1. /\ Queue(Append(running, s), Ids)
        /\ Range(Append(running, s)) = Range(running) \cup {s}
    BY <1>1, <1>2, QueueAtEnd
  <2> QED
    BY <2>1
<1>4. s \in DOMAIN seqs
  BY <1>2 DEF Ids
<1>5. /\ seqs' \in Seq(Requests) /\ Ids' = Ids /\ DOMAIN seqs' = DOMAIN seqs
      /\ seqs'[s] = r
      /\ \A x \in DOMAIN seqs : x # s => seqs'[x] = seqs[x]
      /\ \A x \in DOMAIN seqs : x # s => Computed(x)' = Computed(x)
      /\ Computed(s)' = r.prefilled + r.generated
  BY <1>1, <1>4, OneRequestChanges
<1>6. RequestsInv'
  BY <1>1, <1>5 DEF RequestsInv
<1>7. QueuesInv'
  <2>1. /\ Range(waiting) \cap Range(running) = {} /\ Range(waiting) \cap Range(swapped) = {}
        /\ Range(running) \cap Range(swapped) = {}
    BY <1>1 DEF QueuesInv
  <2> QED
    BY <1>2, <1>3, <1>5, <2>1 DEF QueuesInv
<1>8. HoldingInv'
  <2>1. DOMAIN kv'.table = Range(running')
    BY <1>1, <1>3 DEF HoldingInv
  <2>2. ASSUME NEW x \in Range(running')
        PROVE  kv'.len[x] = Computed(x)' /\ Computed(x)' >= 1
    <3>1. CASE x = s
      BY <1>5, <3>1
    <3>2. CASE x # s
      <4>1. x \in Range(running) /\ x \in DOMAIN seqs /\ x \in DOMAIN kv.table
        BY <1>1, <1>3, <3>2, QueueIds DEF HoldingInv
      <4>2. kv.len[x] = Computed(x) /\ Computed(x) >= 1 /\ Computed(x)' = Computed(x)
        BY <1>1, <1>5, <3>2, <4>1 DEF HoldingInv
      <4>3. kv'.len[x] = kv.len[x]
        BY <4>1
      <4> QED
        BY <4>2, <4>3
    <3> QED
      BY <3>1, <3>2
  <2>3. \A x \in Range(swapped') : Computed(x)' >= 1
    BY <1>1, <1>2, <1>5, QueueIds DEF HoldingInv
  <2>4. \A x \in Range(waiting') : seqs'[x].generated = 0
    BY <1>1, <1>2, <1>5, QueueIds DEF HoldingInv
  <2> QED
    BY <2>1, <2>2, <2>3, <2>4 DEF HoldingInv
<1> QED
  BY <1>6, <1>7, <1>8

\* All the streams once s has one of n tokens.
StreamsWith(s, n) == Bind(Streams, s, Stream(s, n))

\* A request joins the running ones, and the streams of the others stay.
LEMMA JoinedStreams ==
  ASSUME IInv, NEW s \in DOMAIN seqs, s \notin DOMAIN kv.table, NEW n \in Nat
  PROVE  /\ StreamsWith(s, n)[s] = Stream(s, n)
         /\ Stream(s, n) = StreamOf(seqs[s].prompt, s, n)
         /\ OthersKeep(Streams, StreamsWith(s, n), s, kv)
         /\ Stream(s, n) \in Seq(Int) /\ Len(Stream(s, n)) = n
<1>1. s \in Nat /\ seqs[s].prompt \in Seq(Nat) /\ 0 \in Nat
      /\ Stream(s, n) = StreamOf(seqs[s].prompt, s, n)
  BY RequestFacts DEF IInv
<1>2. Stream(s, n) \in Seq(Int) /\ Len(Stream(s, n)) = n
  <2> DEFINE p == seqs[s].prompt
  <2>1. p \in Seq(Nat) /\ Stream(s, n) = StreamOf(p, s, n)
    BY <1>1
  <2> HIDE DEF p
  <2>2. StreamOf(p, s, n) \in Seq(Int) /\ Len(StreamOf(p, s, n)) = n
    BY <1>1, <2>1, StreamGrows
  <2> QED
    BY <2>1, <2>2
<1>3. /\ StreamsWith(s, n)[s] = Stream(s, n)
      /\ OthersKeep(Streams, StreamsWith(s, n), s, kv)
  BY DEF StreamsWith, Bind, OthersKeep, Streams
<1> QED
  BY <1>1, <1>2, <1>3

\* A swapped request gets blocks again.
LEMMA ResumeKeepsIInv ==
  ASSUME IInv, ResumeSwapped
  PROVE  IInv'
<1> DEFINE s    == Head(swapped)
           n    == ResumeTokens(s)
           none == <<>>
           r    == [seqs[s] EXCEPT !.status = "running"]
           nk   == kv'
           str  == Stream(s, n)
           now  == StreamsWith(s, n)
           old  == Streams
<1>1. /\ swapped # <<>> /\ swapped' = Tail(swapped) /\ ResumeFits(s)
      /\ nk = Allocate(kv, s, n, none)
      /\ written' = Compute(written, nk.table[s], 0, str)
      /\ seqs' = [seqs EXCEPT ![s] = r] /\ running' = Append(running, s)
      /\ UNCHANGED <<cache, waiting, phase, budget>>
  BY DEF ResumeSwapped
<1>2. /\ Queue(swapped, Ids) /\ s \in Ids /\ s \in Range(swapped)
      /\ s \in DOMAIN seqs /\ s \notin DOMAIN kv.table
  <2>1. Queue(swapped, Ids)
    BY DEF IInv, QueuesInv
  <2>2. s \in Ids /\ s \in Range(swapped)
    BY <1>1, <2>1, QueueHead
  <2> QED
    BY <2>1, <2>2 DEF IInv, QueuesInv, HoldingInv, Ids
<1> HIDE DEF s
<1>3. /\ s \in Nat /\ Computed(s) \in Nat /\ Computed(s) >= 1 /\ n = Computed(s)
      /\ seqs[s] \in Requests /\ Computed(s) = seqs[s].prefilled + seqs[s].generated
  <2>1. /\ s \in Nat /\ Computed(s) \in Nat /\ seqs[s] \in Requests
        /\ Computed(s) = seqs[s].prefilled + seqs[s].generated
    BY <1>2, RequestFacts DEF IInv
  <2>2. Computed(s) >= 1
    BY <1>2 DEF IInv, HoldingInv
  <2> QED
    BY <2>1, <2>2 DEF ResumeTokens
<1>4. /\ r \in Requests /\ r.prompt = seqs[s].prompt /\ r.prefilled = seqs[s].prefilled
      /\ r.generated = seqs[s].generated
  BY <1>3 DEF Requests, Statuses
<1> HIDE DEF r, n, none
<1>5. /\ PoolInv(kv, Nat, EntryPins(cache)) /\ IndexInv(cache) /\ PoolType(kv, Nat)
      /\ ContentInv(kv, cache, written, old)
  BY DEF IInv, MemoryInv, PoolInv
<1>6. /\ none \in Seq(Blocks) /\ Len(none) = 0 /\ Len(none) * BlockSize = 0
      /\ Range(none) = {}
  BY KVAssumption DEF none, Range
<1>7. AllocateOK(kv, s, n, none)
  <2>1. CanAllocate(kv, n, Len(none))
    BY <1>1, <1>3, <1>6 DEF ResumeFits
  <2>2. n \in Nat /\ n <= n /\ Len(none) \in Nat /\ Len(none) * BlockSize <= n
    BY <1>3, <1>6
  <2> QED
    BY <1>2, <1>5, <2>1, <2>2, AdmissionIsEnough
<1>8. /\ now[s] = str /\ OthersKeep(old, now, s, kv) /\ Adoptable(none, cache, str)
  <2>1. n \in Nat
    BY <1>3
  <2>2. Adoptable(none, cache, str)
    BY <1>6 DEF Adoptable
  <2> QED
    BY <1>2, <2>1, <2>2, JoinedStreams
<1>9. /\ PoolInv(nk, Nat, EntryPins(cache)) /\ ContentInv(nk, cache, written', now)
  <2> HIDE DEF nk, now, old, str
  <2>1. PoolInv(nk, Nat, EntryPins(cache))
    BY <1>1, <1>3, <1>5, <1>6, <1>7, AllocateKeepsInv
  <2>2. ContentInv(nk, cache,
                   Compute(written, nk.table[s], Len(none) * BlockSize, str), now)
    BY <1>1, <1>3, <1>5, <1>6, <1>7, <1>8, AllocateKeepsContent
  <2> QED
    BY <1>1, <1>6, <2>1, <2>2
<1>10. /\ DOMAIN nk.table = DOMAIN kv.table \cup {s} /\ nk.len[s] = n
       /\ \A x \in DOMAIN kv.table : nk.len[x] = kv.len[x]
  <2> HIDE DEF nk
  <2> QED
    BY <1>1, <1>2, <1>5, AllocateAddsOne
<1>11. \A x \in DOMAIN seqs : seqs'[x].prompt = seqs[x].prompt
  BY <1>1, <1>2, <1>4, OneRequestChanges DEF IInv
<1>12. \A x \in DOMAIN kv'.table : Streams'[x] = now[x]
  <2>1. n \in Nat
    BY <1>3
  <2>2. str = StreamOf(seqs[s].prompt, s, n)
    BY <1>2, <2>1, JoinedStreams
  <2>3. Streams'[s] = now[s]
    BY <1>2, <1>8, <1>10, <1>11, <2>2 DEF Streams
  <2>4. ASSUME NEW x \in DOMAIN kv.table PROVE Streams'[x] = now[x]
    <3>1. now[x] = old[x] /\ x \in DOMAIN seqs
      BY <1>2, <1>8, QueueIds DEF OthersKeep
    <3> QED
      BY <1>10, <1>11, <3>1 DEF Streams
  <2> QED
    BY <1>10, <2>3, <2>4
<1>13. MemoryInv'
  <2>1. ContentInv(kv', cache, written', Streams')
    BY <1>9, <1>12 DEF ContentInv, ReadsOwn
  <2> QED
    BY <1>1, <1>5, <1>9, <2>1 DEF MemoryInv
<1>14. RequestsInv' /\ QueuesInv' /\ HoldingInv'
  <2>1. budget' \in 0..MaxNumBatchedTokens
    BY <1>1 DEF IInv, RequestsInv
  <2>2. kv'.len[s] = r.prefilled + r.generated /\ r.prefilled + r.generated >= 1
    BY <1>3, <1>4, <1>10
  <2>3. swapped # <<>> /\ s = Head(swapped) /\ swapped' = Tail(swapped) /\ waiting' = waiting
    BY <1>1 DEF s
  <2>4. /\ DOMAIN kv'.table = DOMAIN kv.table \cup {s} /\ phase' = phase
        /\ \A x \in DOMAIN kv.table : kv'.len[x] = kv.len[x]
    BY <1>1, <1>10
  <2> QED
    BY <1>1, <1>4, <2>1, <2>2, <2>3, <2>4, JoiningKeepsQueues
<1> QED
  BY <1>13, <1>14 DEF IInv
\* What Admit computes for the head of the queue.
AdmitMatch(s) == Match(cache, seqs[s].prompt)
AdmitCached(s) == Len(AdmitMatch(s)) * BlockSize
AdmitChunk(s) == IF Uncached(s) < budget THEN Uncached(s) ELSE budget
AdmitTokens(s) == AdmitCached(s) + AdmitChunk(s)

\* At least one token is left to compute after the lookup, and can_allocate() for the
\* whole prompt covers what allocate() is asked for.
LEMMA AdmitFacts ==
  ASSUME IInv, AdmitTurn, NEW s, s = Head(waiting), AdmitFits(s)
  PROVE  /\ waiting # <<>> /\ s \in DOMAIN seqs /\ s \notin DOMAIN kv.table /\ s \in Nat
         /\ s \in Ids /\ s \in Range(waiting)
         /\ seqs[s] \in Requests /\ seqs[s].generated = 0
         /\ seqs[s].prompt \in Seq(Nat) /\ seqs[s].prompt # <<>>
         /\ PromptLen(s) = Len(seqs[s].prompt) /\ PromptLen(s) \in Nat
         /\ AdmitCached(s) \in Nat /\ AdmitCached(s) < PromptLen(s)
         /\ AdmitChunk(s) \in 1..budget
         /\ AdmitTokens(s) \in 1..PromptLen(s)
         /\ Len(AdmitMatch(s)) \in Nat /\ AdmitMatch(s) \in Seq(Blocks)
         /\ AllocateOK(kv, s, AdmitTokens(s), AdmitMatch(s))
<1> DEFINE p      == seqs[s].prompt
           match  == AdmitMatch(s)
           cached == AdmitCached(s)
           chunk  == AdmitChunk(s)
           n      == AdmitTokens(s)
<1>1. /\ waiting # <<>> /\ budget >= 1
      /\ s \in Ids /\ s \in Range(waiting) /\ s \in DOMAIN seqs /\ s \notin DOMAIN kv.table
  <2>1. Queue(waiting, Ids)
    BY DEF IInv, QueuesInv
  <2>2. waiting # <<>> /\ budget >= 1
    BY DEF AdmitTurn
  <2>3. s \in Ids /\ s \in Range(waiting)
    BY <2>1, <2>2, QueueHead
  <2> QED
    BY <2>2, <2>3 DEF IInv, QueuesInv, HoldingInv, Ids
<1>2. PoolType(kv, Nat) /\ IndexInv(cache) /\ budget \in Nat
  BY DEF IInv, MemoryInv, PoolInv, RequestsInv
<1>3. /\ seqs[s] \in Requests /\ s \in Nat /\ p \in Seq(Nat) /\ p # <<>>
      /\ PromptLen(s) = Len(p) /\ Len(p) \in Nat /\ seqs[s].generated = 0
  <2>1. seqs[s].generated = 0
    BY <1>1 DEF IInv, HoldingInv
  <2> QED
    BY <1>1, <2>1, RequestFacts DEF IInv, PromptLen
<1>4. /\ Len(match) \in Nat /\ cached \in Nat /\ cached < Len(p) /\ match \in Seq(Blocks)
      /\ Uncached(s) = Len(p) - cached
  <2>1. /\ Len(match) \in Nat /\ cached \in Nat /\ cached < Len(p) /\ match \in Seq(Blocks)
    <3>1. match = Match(cache, p) /\ cached = Len(match) * BlockSize
      BY DEF AdmitMatch, AdmitCached
    <3> HIDE DEF p, match, cached
    <3> QED
      BY <1>2, <1>3, <3>1, MatchOfPrompt
  <2>2. Uncached(s) = Len(p) - cached
    BY <1>3 DEF Uncached, AdmitCached, AdmitMatch
  <2> QED
    BY <2>1, <2>2
<1>5. /\ chunk \in 1..budget /\ n \in 1..Len(p) /\ cached <= n
  <2>1. chunk = (IF Uncached(s) < budget THEN Uncached(s) ELSE budget) /\ n = cached + chunk
    BY DEF AdmitChunk, AdmitTokens
  <2> HIDE DEF p, cached, chunk, n
  <2> QED
    BY <1>1, <1>2, <1>3, <1>4, <2>1
<1>6. AllocateOK(kv, s, n, match)
  <2>1. CanAllocate(kv, Len(p), Len(match))
    BY <1>3 DEF AdmitFits, AdmitMatch
  <2>2. Len(match) * BlockSize <= n
    BY <1>5 DEF AdmitCached
  <2> HIDE DEF match, n, p
  <2>3. n \in Nat /\ n <= Len(p)
    BY <1>3, <1>5
  <2> QED
    BY <1>1, <1>2, <1>3, <1>4, <2>1, <2>2, <2>3, AdmissionIsEnough
<1> QED
  BY <1>1, <1>3, <1>4, <1>5, <1>6

\* A waiting request is admitted, with the blocks it shares.
LEMMA AdmitKeepsIInv ==
  ASSUME IInv, Admit
  PROVE  IInv'
<1> DEFINE s      == Head(waiting)
           p      == seqs[s].prompt
           match  == AdmitMatch(s)
           cached == AdmitCached(s)
           chunk  == AdmitChunk(s)
           n      == AdmitTokens(s)
           pool   == Allocate(kv, s, n, match)
           index  == Touch(cache, p)
           all    == n >= PromptLen(s)
           st     == Insert([kv |-> pool, cache |-> index], p, pool.table[s])
           str    == Stream(s, n)
           wrote  == Compute(written, pool.table[s], cached, str)
           r      == [seqs[s] EXCEPT !.status = "running", !.cached = cached, !.prefilled = n]
           nk     == kv'
           nc     == cache'
           now    == StreamsWith(s, n)
           old    == Streams
           T      == Int
<1>1. /\ AdmitTurn /\ AdmitFits(s)
      /\ all => kv' = st.kv /\ cache' = st.cache
      /\ ~all => kv' = pool /\ cache' = index
      /\ written' = wrote /\ seqs' = [seqs EXCEPT ![s] = r]
      /\ running' = Append(running, s) /\ budget' = budget - chunk
      /\ waiting' = Tail(waiting) /\ UNCHANGED <<swapped, phase>>
  BY DEF Admit, AdmitMatch, AdmitCached, AdmitChunk, AdmitTokens
<1>2. s = Head(waiting)
  OBVIOUS
<1> HIDE DEF s
<1>3. /\ PoolInv(kv, Nat, EntryPins(cache)) /\ IndexInv(cache) /\ PoolType(kv, Nat)
      /\ ContentInv(kv, cache, written, old)
  BY DEF IInv, MemoryInv, PoolInv
<1>4. /\ waiting # <<>> /\ s \in DOMAIN seqs /\ s \notin DOMAIN kv.table
      /\ seqs[s] \in Requests /\ s \in Nat /\ p \in Seq(Nat) /\ p # <<>>
      /\ PromptLen(s) = Len(p) /\ Len(p) \in Nat /\ seqs[s].generated = 0
  BY <1>1, <1>2, AdmitFacts
<1>5. /\ cached \in Nat /\ cached < Len(p) /\ cached = Len(match) * BlockSize
      /\ match = Match(cache, p)
  BY <1>1, <1>2, AdmitFacts DEF AdmitMatch, AdmitCached
<1>6. chunk \in 1..budget /\ budget \in 0..MaxNumBatchedTokens /\ MaxNumBatchedTokens \in Nat
  BY <1>1, <1>2, AdmitFacts, SchedulerAssumption DEF IInv, RequestsInv
<1>7. n \in Nat /\ n >= 1 /\ n <= Len(p)
  BY <1>1, <1>2, AdmitFacts
<1>8. budget' \in 0..MaxNumBatchedTokens
  BY <1>1, <1>6
<1>9. AllocateOK(kv, s, n, match)
  BY <1>1, <1>2, AdmitFacts
<1> HIDE DEF chunk, cached, match, n
<1>10. /\ now[s] = str /\ OthersKeep(old, now, s, kv) /\ str = StreamOf(p, s, n)
       /\ str \in Seq(T) /\ Len(str) = n
  <2> HIDE DEF n
  <2> QED
    BY <1>4, <1>7, JoinedStreams
<1>11. Extends(str, p, Len(p) - n) /\ (Len(p) <= n => StartsWith(str, p))
  <2> HIDE DEF p, n, str
  <2>1. n <= Len(p) /\ 0 \in Nat
    BY <1>7
  <2>2. /\ n <= Len(p) => Extends(StreamOf(p, s, n), p, Len(p) - n)
        /\ Len(p) <= n => StartsWith(StreamOf(p, s, n), p)
    BY <1>4, <1>7, <2>1, StreamGrows
  <2> QED
    BY <1>10, <2>1, <2>2
<1>12. PoolInv(pool, Nat, EntryPins(cache)) /\ ContentInv(pool, cache, wrote, now)
  <2>1. /\ match = Match(cache, p) /\ s \in Nat /\ n \in Nat /\ n <= Len(p)
        /\ pool = Allocate(kv, s, n, match)
    BY <1>4, <1>5, <1>7
  <2>2. wrote = Compute(written, pool.table[s], Len(match) * BlockSize, str)
    BY <1>5
  <2> HIDE DEF match, p, n, pool, str, wrote, now, old, T
  <2>3. /\ PoolInv(pool, Nat, EntryPins(cache))
        /\ ContentInv(pool, cache,
                      Compute(written, pool.table[s], Len(match) * BlockSize, str), now)
    BY <1>3, <1>4, <1>9, <1>10, <1>11, <2>1, AdoptMatchKeepsAll
  <2> QED
    BY <2>2, <2>3
<1>13. /\ DOMAIN pool.table = DOMAIN kv.table \cup {s} /\ pool.len[s] = n
       /\ \A x \in DOMAIN kv.table : pool.len[x] = kv.len[x]
  <2> HIDE DEF n, match
  <2>1. pool = Allocate(kv, s, n, match)
    OBVIOUS
  <2> HIDE DEF pool
  <2> QED
    BY <1>3, <1>4, <2>1, AllocateAddsOne
<1>14. /\ PoolInv(pool, Nat, EntryPins(index)) /\ IndexInv(index)
       /\ ContentInv(pool, index, wrote, now)
  <2> HIDE DEF pool, wrote, now, p
  <2>1. IndexInv(index) /\ index.block = cache.block
    BY <1>3, <1>4, TouchKeepsIndex
  <2> HIDE DEF index
  <2>2. EntryPins(index) = EntryPins(cache)
    BY <2>1 DEF EntryPins
  <2> QED
    BY <1>12, <2>1, <2>2 DEF ContentInv, EntriesKeepKV, TailsExclusive
<1>15. /\ PoolInv(nk, Nat, EntryPins(nc)) /\ IndexInv(nc)
       /\ nk.table = pool.table /\ nk.len = pool.len
       /\ ContentInv(nk, nc, wrote, now)
  <2>1. CASE ~all
    <3>1. nk = pool /\ nc = index
      BY <1>1, <2>1
    <3> HIDE DEF nk, nc, pool, index, wrote, now
    <3> QED
      BY <1>14, <3>1
  <2>2. CASE all
    <3>1. nk = st.kv /\ nc = st.cache
      BY <1>1, <2>2
    <3>2. StartsWith(now[s], p)
      BY <1>4, <1>10, <1>11, <2>2
    <3>3. s \in DOMAIN pool.table /\ now[s] \in Seq(T) /\ Len(now[s]) = pool.len[s]
      BY <1>10, <1>13
    <3>4. st = Insert([kv |-> pool, cache |-> index], p, pool.table[s])
      OBVIOUS
    <3> HIDE DEF st, pool, index, wrote, now, p, T
    <3>5. /\ PoolInv(st.kv, Nat, EntryPins(st.cache)) /\ IndexInv(st.cache)
          /\ st.kv.table = pool.table /\ st.kv.len = pool.len
          /\ ContentInv(st.kv, st.cache, wrote, now)
      BY <1>4, <1>14, <3>2, <3>3, <3>4, InsertKeepsAll
    <3> HIDE DEF nk, nc
    <3> QED
      BY <3>1, <3>5
  <2> QED
    BY <2>1, <2>2
<1>16. /\ r \in Requests /\ r.prompt = p /\ r.prefilled = n /\ r.generated = 0
  <2>1. r = [seqs[s] EXCEPT !.status = "running", !.cached = cached, !.prefilled = n]
    OBVIOUS
  <2> HIDE DEF r, n
  <2>2. /\ r.prompt = p /\ r.cached = cached /\ r.prefilled = n /\ r.generated = 0
        /\ r \in [prompt : Prompts, max : MaxTokensChoices, arrival : Nat,
                  status : Statuses, prefilled : Nat, generated : Nat, cached : Nat]
    BY <1>4, <1>5, <1>7, <2>1 DEF Requests, Statuses
  <2>3. r.prefilled <= Len(r.prompt) /\ r.cached < Len(r.prompt)
    BY <1>5, <1>7, <2>2
  <2> QED
    BY <2>2, <2>3 DEF Requests
<1> HIDE DEF r, pool, n
<1>17. \A x \in DOMAIN seqs : seqs'[x].prompt = seqs[x].prompt
  BY <1>1, <1>4, <1>16, OneRequestChanges DEF IInv
<1>18. \A x \in DOMAIN kv'.table : Streams'[x] = now[x]
  <2>1. Streams'[s] = now[s]
    BY <1>4, <1>10, <1>13, <1>15, <1>17 DEF Streams
  <2>2. ASSUME NEW x \in DOMAIN kv.table PROVE Streams'[x] = now[x]
    <3>1. now[x] = old[x] /\ x \in DOMAIN seqs
      BY <1>4, <1>10, QueueIds DEF OthersKeep
    <3> QED
      BY <1>13, <1>15, <1>17, <3>1 DEF Streams
  <2> QED
    BY <1>13, <1>15, <2>1, <2>2
<1>19. MemoryInv'
  <2> HIDE DEF now
  <2>1. ContentInv(kv', cache', written', Streams')
    BY <1>1, <1>15, <1>18 DEF ContentInv, ReadsOwn
  <2> QED
    BY <1>15, <2>1 DEF MemoryInv
<1>20. RequestsInv' /\ QueuesInv' /\ HoldingInv'
  <2>1. kv'.len[s] = r.prefilled + r.generated /\ r.prefilled + r.generated >= 1
    BY <1>7, <1>13, <1>15, <1>16
  <2>2. /\ waiting # <<>> /\ s = Head(waiting)
        /\ waiting' = Tail(waiting) /\ swapped' = swapped
    BY <1>1, <1>2, <1>4
  <2>3. /\ DOMAIN kv'.table = DOMAIN kv.table \cup {s} /\ phase' = phase
        /\ \A x \in DOMAIN kv.table : kv'.len[x] = kv.len[x]
    BY <1>1, <1>13, <1>15
  <2>4. seqs' = [seqs EXCEPT ![s] = r] /\ running' = Append(running, s)
    BY <1>1
  <2> QED
    BY <1>8, <1>16, <2>1, <2>2, <2>3, <2>4, JoiningKeepsQueues
<1> QED
  BY <1>19, <1>20 DEF IInv
-----------------------------------------------------------------------------
(* The theorems about memory *)

\* Every step of the scheduler keeps the invariant.
THEOREM NextKeepsIInv == IInv /\ [Next]_vars => IInv'
<1> SUFFICES ASSUME IInv, [Next]_vars PROVE IInv'
  OBVIOUS
<1>1. ASSUME NEW p \in Prompts, NEW m \in MaxTokensChoices, NEW a \in 1..NumRequests,
             AddRequest(p, m, a)
      PROVE  IInv'
  BY <1>1, AddRequestKeepsIInv
<1>2. ASSUME NEW s \in DOMAIN seqs, FinishEarly(s) PROVE IInv'
  BY <1>2, FinishEarlyKeepsIInv
<1>3. ASSUME NEW s \in DOMAIN seqs, Abort(s) PROVE IInv'
  BY <1>3, AbortKeepsIInv
<1>4. CASE DecodePreempt \/ ChunkPreempt
  BY <1>4, TurnsPreempt
<1>5. CASE DecodeToken
  BY <1>5, DecodeTokenKeepsIInv
<1>6. CASE ResumeSwapped
  BY <1>6, ResumeKeepsIInv
<1>7. CASE ChunkContinue
  BY <1>7, ChunkContinueKeepsIInv
<1>8. CASE Admit
  BY <1>8, AdmitKeepsIInv
<1>9. CASE \/ BeginStep \/ DecodeSkip \/ EndDecodes \/ EndResumes
           \/ ChunkSkip \/ EndChunks \/ EndStep \/ UNCHANGED vars
  BY <1>9, LoopsKeepIInv
<1> QED
  BY <1>1, <1>2, <1>3, <1>4, <1>5, <1>6, <1>7, <1>8, <1>9 DEF Next, Step

\* The invariant holds in every reachable state.
THEOREM AlwaysIInv == Spec => []IInv
<1> QED
  BY InitKeepsIInv, NextKeepsIInv, PTL DEF Spec

\* Pool, index, requests and the place in step() have their types.
THEOREM SchedulerTypes == Spec => []TypeOK
<1>1. IInv => TypeOK
  <2> SUFFICES ASSUME IInv PROVE TypeOK
    OBVIOUS
  <2>1. PoolType(kv, DOMAIN seqs)
    BY QueueIds DEF IInv, MemoryInv, PoolInv, PoolType
  <2>2. IndexType(cache)
    BY DEF IInv, MemoryInv, IndexInv, IndexType, ToSet, Range
  <2>3. ASSUME NEW s \in DOMAIN seqs
        PROVE  /\ seqs[s].status \in {"waiting", "running", "swapped", "finished", "aborted"}
               /\ seqs[s].prefilled \in 0..PromptLen(s)
               /\ seqs[s].generated \in Nat
               /\ seqs[s].cached \in 0..(PromptLen(s) - 1)
    <3>1. /\ seqs[s] \in Requests /\ PromptLen(s) \in Nat
          /\ seqs[s].prefilled \in Nat /\ seqs[s].prefilled <= PromptLen(s)
          /\ seqs[s].generated \in Nat /\ seqs[s].cached \in Nat
          /\ seqs[s].cached < PromptLen(s)
      BY RequestFacts DEF IInv
    <3>2. seqs[s].status \in Statuses
      BY <3>1 DEF Requests
    <3> QED
      BY <3>1, <3>2 DEF Statuses
  <2> QED
    BY <2>1, <2>2, <2>3 DEF IInv, RequestsInv, TypeOK
<1> QED
  BY <1>1, AlwaysIInv, PTL

\* Exactly the running sequences have tables, a table holds exactly the tokens that
\* its sequence has computed, and every other reference is an entry of the cache:
\* no interleaving of admission, chunking, decoding, preemption, resumption,
\* finishing and aborting leaks a block or frees one that is in use.
THEOREM MemoryAlwaysAccounted == Spec => []MemoryAccounted
<1>1. IInv => MemoryAccounted
  <2> SUFFICES ASSUME IInv PROVE MemoryAccounted
    OBVIOUS
  <2>1. ToSet(running) = Range(running)
    BY QueueMembers DEF IInv, QueuesInv
  <2>2. RefsExact(kv, EntryPins(cache)) /\ FreeExact(kv) /\ DOMAIN kv.table = Range(running)
    BY DEF IInv, MemoryInv, HoldingInv, PoolInv
  <2>3. \A s \in DOMAIN kv.table : kv.len[s] = Computed(s)
                                 /\ TableFits(kv.table[s], kv.len[s])
    BY DEF IInv, MemoryInv, HoldingInv, ContentInv, AllFit
  <2> QED
    BY <2>1, <2>2, <2>3 DEF MemoryAccounted
<1> QED
  BY <1>1, AlwaysIInv, PTL

\* Whatever was shared, evicted, preempted, swapped or recomputed on the way, the KV
\* a sequence attends to is that of its own tokens.
THEOREM OwnKVAlways == Spec => []SequencesReadTheirOwnKV
<1>1. IInv => SequencesReadTheirOwnKV
  <2> SUFFICES ASSUME IInv, NEW s \in DOMAIN kv.table, NEW i \in DOMAIN kv.table[s]
               PROVE  written[kv.table[s][i]] = Prefix(Stream(s, kv.len[s]), i)
    BY DEF SequencesReadTheirOwnKV
  <2>1. written[kv.table[s][i]] = Prefix(Streams[s], i)
    BY DEF IInv, MemoryInv, ContentInv, ReadsOwn
  <2>2. Streams[s] = Stream(s, kv.len[s])
    BY StreamFacts, RequestFacts DEF IInv
  <2> QED
    BY <2>1, <2>2
<1> QED
  BY <1>1, AlwaysIInv, PTL

\* A cached block holds the KV of the prefix it is keyed by for as long as the entry
\* lives, and the block a sequence is still filling has no other reader.
THEOREM SharedBlocksAlwaysFull == Spec => []SharedBlocksAreFull
<1>1. IInv => SharedBlocksAreFull
  <2> SUFFICES ASSUME IInv PROVE SharedBlocksAreFull
    OBVIOUS
  <2>1. /\ PoolInv(kv, Nat, EntryPins(cache)) /\ IndexInv(cache)
        /\ ContentInv(kv, cache, written, Streams)
    BY DEF IInv, MemoryInv
  <2>2. \A k \in DOMAIN cache.block : written[cache.block[k]] = k
    BY <2>1 DEF ContentInv, EntriesKeepKV
  <2>3. ASSUME NEW s \in DOMAIN kv.table, kv.len[s] < Len(kv.table[s]) * BlockSize
        PROVE  kv.ref[kv.table[s][Len(kv.table[s])]] = 1
    <3>1. kv.table[s] \in Seq(Blocks) /\ kv.len[s] \in Nat
      BY <2>1 DEF PoolInv, PoolType
    <3>2. Len(kv.table[s]) # 0
      BY <2>3, <3>1, KVAssumption
    <3>3. Len(kv.table[s]) \in DOMAIN kv.table[s]
      BY <3>1, <3>2
    <3> DEFINE old == Streams
    <3>4. ContentInv(kv, cache, written, old)
      BY <2>1
    <3> HIDE DEF old
    <3> QED
      BY <2>1, <2>3, <3>3, <3>4, TailHasOneReader
  <2> QED
    BY <2>2, <2>3 DEF SharedBlocksAreFull
<1> QED
  BY <1>1, AlwaysIInv, PTL
-----------------------------------------------------------------------------
(* The watermark *)

\* allocate() takes as many blocks off the free list as the table is short of.
LEMMA AllocateTakes ==
  ASSUME NEW pool, NEW Some, PoolType(pool, Some), NEW s, NEW n \in Nat,
         NEW reused \in Seq(Blocks), AllocateOK(pool, s, n, reused)
  PROVE  NumFree(Allocate(pool, s, n, reused)) =
           NumFree(pool) - (BlocksForTokens(n) - Len(reused))
<1> DEFINE k     == BlocksForTokens(n) - Len(reused)
           fresh == Fresh(pool.free, k)
<1>1. k \in Nat /\ k <= Cardinality(pool.free) /\ IsFiniteSet(pool.free)
  BY AllocateDemand, FreeIsFinite DEF NumFree
<1>2. Allocate(pool, s, n, reused).free = pool.free \ Range(fresh)
  BY DEF Allocate
<1> HIDE DEF k
<1>3. fresh \in [1..k -> pool.free] /\ IsInjective(fresh)
  BY <1>1, FreshIsInjective
<1> HIDE DEF fresh
<1>4. fresh \in Bijection(1..k, Range(fresh)) /\ Range(fresh) \subseteq pool.free
  BY <1>3 DEF Bijection, Injection, Surjection, IsInjective, Range
<1>5. IsFiniteSet(1..k) /\ Cardinality(1..k) = k
  BY <1>1, FS_Interval
<1>6. ExistsBijection(1..k, Range(fresh))
  BY <1>4 DEF ExistsBijection
<1>7. Cardinality(Range(fresh)) = k
  BY <1>5, <1>6, FS_Bijection
<1>8. pool.free \cap Range(fresh) = Range(fresh)
  BY <1>4
<1>9. Cardinality(pool.free \ Range(fresh)) = Cardinality(pool.free) - k
  BY <1>1, <1>7, <1>8, FS_Difference
<1> QED
  BY <1>2, <1>9 DEF NumFree, k

\* can_allocate() held, so the watermark is free afterwards.
LEMMA AdmittedAboveWatermark ==
  ASSUME NEW pool, NEW Some, PoolType(pool, Some), NEW s, NEW m \in Nat, NEW n \in Nat,
         m <= n, NEW reused \in Seq(Blocks), AllocateOK(pool, s, m, reused),
         CanAllocate(pool, n, Len(reused))
  PROVE  NumFree(Allocate(pool, s, m, reused)) >= WatermarkBlocks
<1> DEFINE a == BlocksForTokens(m)
           b == BlocksForTokens(n)
           f == NumFree(pool)
           k == Len(reused)
           g == NumFree(Allocate(pool, s, m, reused))
<1>1. a \in Nat /\ b \in Nat /\ a <= b /\ a - k \in Nat
  BY BlocksMonotone, CeilingDivision, AllocateDemand
<1>2. f \in Nat /\ WatermarkBlocks \in Nat /\ k \in Nat
  <2>1. IsFiniteSet(pool.free)
    BY FreeIsFinite
  <2> QED
    BY <2>1, FS_CardinalityType, KVAssumption DEF NumFree
<1>3. f - NonNegative(b - k) >= WatermarkBlocks /\ g = f - (a - k)
  BY AllocateTakes DEF CanAllocate
<1> HIDE DEF a, b, f, k, g
<1>4. g >= WatermarkBlocks
  BY <1>1, <1>2, <1>3 DEF NonNegative
<1> QED
  BY <1>4 DEF g

\* Publishing a prompt leaves the free list alone: the scheduler's index has no capacity.
LEMMA InsertFreesNothing ==
  ASSUME NEW pool, NEW index, NEW prompt, NEW table
  PROVE  Insert([kv |-> pool, cache |-> index], prompt, table).kv.free = pool.free
BY SchedulerAssumption DEF Insert, EnforceCapacity, Publish

\* A sequence joins the running ones only if the watermark stays free: by admission,
\* whatever its cache hit and first chunk, and by resumption after a swap.
THEOREM WatermarkAlwaysKept == Spec => WatermarkKept
<1> DEFINE Kept == \/ ToSet(running') \subseteq ToSet(running)
                   \/ NumFree(kv') >= WatermarkBlocks
<1>1. IInv /\ [Next]_vars => Kept \/ UNCHANGED vars
  <2> SUFFICES ASSUME IInv, Next PROVE Kept
    OBVIOUS
  <2>1. IInv'
    BY NextKeepsIInv
  <2>2. ToSet(running) = Range(running) /\ ToSet(running') = Range(running')
        /\ Queue(running, Ids)
    <3>1. ToSet(running) = Range(running) /\ Queue(running, Ids)
      BY QueueMembers DEF IInv, QueuesInv
    <3> DEFINE q == running'
               ids == Ids'
    <3>2. Queue(q, ids)
      BY <2>1 DEF IInv, QueuesInv
    <3> HIDE DEF q, ids
    <3>3. ToSet(q) = Range(q)
      BY <3>2, QueueMembers
    <3> QED
      BY <3>1, <3>3 DEF q
  <2>3. PoolType(kv, Nat)
    BY DEF IInv, MemoryInv, PoolInv
  <2>4. ASSUME running' = running PROVE Kept
    BY <2>4
  <2>5. ASSUME NEW s, running' = Without(running, {s}) PROVE Kept
    <3>1. Range(Without(running, {s})) = Range(running) \ {s}
      BY <2>2, QueueWithout
    <3> QED
      BY <2>2, <2>5, <3>1
  <2>6. CASE ResumeSwapped
    <3> DEFINE s    == Head(swapped)
               n    == ResumeTokens(s)
               none == <<>>
    <3>1. swapped # <<>> /\ ResumeFits(s) /\ kv' = Allocate(kv, s, n, none)
      BY <2>6 DEF ResumeSwapped
    <3>2. s \in DOMAIN seqs /\ s \notin DOMAIN kv.table /\ s \in Range(swapped)
      <4>1. Queue(swapped, Ids)
        BY DEF IInv, QueuesInv
      <4>2. s \in Ids /\ s \in Range(swapped)
        BY <3>1, <4>1, QueueHead
      <4> QED
        BY <4>2 DEF IInv, QueuesInv, HoldingInv, Ids
    <3>3. n \in Nat /\ n = Computed(s)
      <4>1. Computed(s) \in Nat /\ Computed(s) >= 1
        BY <3>2, RequestFacts DEF IInv, HoldingInv
      <4> QED
        BY <4>1 DEF ResumeTokens
    <3>4. none \in Seq(Blocks) /\ Len(none) = 0 /\ Len(none) * BlockSize <= n
      BY <3>3, KVAssumption
    <3>5. CanAllocate(kv, n, Len(none))
      BY <3>1, <3>3, <3>4 DEF ResumeFits
    <3> HIDE DEF s, n, none
    <3>6. AllocateOK(kv, s, n, none)
      BY <2>3, <3>2, <3>3, <3>4, <3>5, AdmissionIsEnough
    <3>7. NumFree(Allocate(kv, s, n, none)) >= WatermarkBlocks
      <4>1. n \in Nat /\ n <= n /\ none \in Seq(Blocks)
        BY <3>3, <3>4
      <4> QED
        BY <2>3, <3>5, <3>6, <4>1, AdmittedAboveWatermark
    <3> QED
      BY <3>1, <3>7
  <2>7. CASE Admit
    <3> DEFINE s     == Head(waiting)
               match == AdmitMatch(s)
               n     == AdmitTokens(s)
               pool  == Allocate(kv, s, n, match)
    <3>1. /\ AdmitTurn /\ AdmitFits(s)
          /\ kv'.free = pool.free
      <4> DEFINE p     == seqs[s].prompt
                 index == Touch(cache, p)
                 all   == n >= PromptLen(s)
                 st    == Insert([kv |-> pool, cache |-> index], p, pool.table[s])
      <4>1. /\ AdmitTurn /\ AdmitFits(s)
            /\ all => kv' = st.kv
            /\ ~all => kv' = pool
        BY <2>7 DEF Admit, AdmitMatch, AdmitCached, AdmitChunk, AdmitTokens
      <4> HIDE DEF s, match, n, pool, p, index, all
      <4>2. st.kv.free = pool.free
        BY InsertFreesNothing
      <4> HIDE DEF st
      <4> QED
        BY <4>1, <4>2
    <3>2. /\ PromptLen(s) \in Nat /\ n \in Nat /\ n <= PromptLen(s) /\ match \in Seq(Blocks)
          /\ AllocateOK(kv, s, n, match)
      BY <3>1, AdmitFacts
    <3>3. CanAllocate(kv, PromptLen(s), Len(match))
      BY <3>1 DEF AdmitFits, AdmitMatch
    <3> HIDE DEF s, match, n
    <3>4. NumFree(Allocate(kv, s, n, match)) >= WatermarkBlocks
      BY <2>3, <3>2, <3>3, AdmittedAboveWatermark
    <3> QED
      BY <3>1, <3>4 DEF NumFree
  <2>8. ASSUME NEW p \in Prompts, NEW m \in MaxTokensChoices, NEW a \in 1..NumRequests,
               AddRequest(p, m, a)
        PROVE  running' = running
    BY <2>8 DEF AddRequest
  <2>9. ASSUME \/ BeginStep \/ DecodeSkip \/ EndDecodes \/ EndResumes
               \/ ChunkSkip \/ ChunkContinue \/ EndChunks \/ EndStep
        PROVE  running' = running
    BY <2>9 DEF BeginStep, DecodeSkip, EndDecodes, EndResumes, ChunkSkip, ChunkContinue,
                EndChunks, EndStep
  <2>10. ASSUME DecodePreempt \/ DecodeToken \/ ChunkPreempt
        PROVE  running' = running \/ \E s : running' = Without(running, {s})
    BY <2>10 DEF DecodePreempt, DecodeToken, ChunkPreempt, Preempt
  <2>11. ASSUME NEW s \in DOMAIN seqs, FinishEarly(s) \/ Abort(s)
         PROVE  running' = Without(running, {s})
    BY <2>11 DEF FinishEarly, Abort
  <2> HIDE DEF Kept
  <2> QED
    BY <2>4, <2>5, <2>6, <2>7, <2>8, <2>9, <2>10, <2>11 DEF Next, Step
<1>2. IInv /\ [Next]_vars => [Kept]_vars
  BY <1>1
<1> QED
  BY <1>2, AlwaysIInv, PTL DEF Spec, WatermarkKept

-----------------------------------------------------------------------------
(***************************************************************************)
(* Order                                                                   *)
(*                                                                         *)
(* What the scheduler keeps about its queues and its batches, and that it  *)
(* implements FCFSService: the queue of a request agrees with its status,  *)
(* the line of requests is in arrival order, at most the newest running    *)
(* request has an unfinished prompt, and the requests of a batch are still *)
(* running when it comes back.                                             *)
(*                                                                         *)
(* The hypotheses are about the callers.  InOrder is an arrival clock that *)
(* does not repeat and recompute preemption: with swap, a later request    *)
(* can be admitted before one swapped out.  Engine adds that requests end  *)
(* by max_tokens, by abort(), or by a stop in the last batch; finish() on  *)
(* a request that is not running leaves it in its queue (run swap_finish). *)
(*                                                                         *)
(* The parts lean on each other: a stop hits a running request because the *)
(* batch keeps its requests, the batch keeps them because the victim of a  *)
(* preemption is the newest running request and the loops meet the newest  *)
(* last, and that needs the line.                                          *)
(***************************************************************************)

\* A request is in the queue its status says, and in no other.
StatusInv ==
  \A s \in DOMAIN seqs :
    /\ s \in Range(waiting) <=> seqs[s].status = "waiting"
    /\ s \in Range(running) <=> seqs[s].status = "running"
    /\ s \in Range(swapped) <=> seqs[s].status = "swapped"

\* No request that ended changes its status.
EndsKept == \A s \in DOMAIN seqs : IsFinished(s) => seqs'[s].status = seqs[s].status

\* Between q and p only the membership of s may change: in says what it is then.
Moved(q, p, s, in) ==
  /\ s \in Range(p) <=> in
  /\ \A x : x # s => (x \in Range(p) <=> x \in Range(q))

\* How the operations on lists move one id.
LEMMA Moves ==
  ASSUME NEW ids, NEW q, Queue(q, ids), NEW s \in ids
  PROVE  /\ s \in Range(q) => Moved(q, q, s, TRUE)
         /\ s \notin Range(q) => Moved(q, q, s, FALSE)
         /\ Moved(q, Without(q, {s}), s, FALSE)
         /\ s \notin Range(q) => Moved(q, Append(q, s), s, TRUE)
         /\ s \notin Range(q) => Moved(q, Requeued(s, q), s, TRUE)
         /\ q # <<>> /\ s = Head(q) => Moved(q, Tail(q), s, FALSE)
<1>1. Range(Without(q, {s})) = Range(q) \ {s}
  BY QueueWithout
<1>2. s \notin Range(q) => Range(Append(q, s)) = Range(q) \cup {s}
  BY QueueAtEnd
<1>3. s \notin Range(q) => Range(Requeued(s, q)) = Range(q) \cup {s}
  BY QueueAtHead
<1>4. q # <<>> => Range(Tail(q)) = Range(q) \ {Head(q)}
  BY QueueHead
<1> QED
  BY <1>1, <1>2, <1>3, <1>4 DEF Moved

\* The new status of one request agrees with its moves between the queues.
LEMMA OneRequestMoves ==
  ASSUME StatusInv, NEW s \in DOMAIN seqs, NEW st,
         DOMAIN seqs' = DOMAIN seqs, seqs'[s].status = st,
         \A x \in DOMAIN seqs : x # s => seqs'[x] = seqs[x],
         Moved(waiting, waiting', s, st = "waiting"),
         Moved(running, running', s, st = "running"),
         Moved(swapped, swapped', s, st = "swapped"),
         IsFinished(s) => st = seqs[s].status
  PROVE  StatusInv' /\ EndsKept
<1>1. ASSUME NEW x \in DOMAIN seqs
      PROVE  /\ x \in Range(waiting') <=> seqs'[x].status = "waiting"
             /\ x \in Range(running') <=> seqs'[x].status = "running"
             /\ x \in Range(swapped') <=> seqs'[x].status = "swapped"
  <2>1. CASE x = s
    BY <2>1 DEF Moved
  <2>2. CASE x # s
    <3>1. seqs'[x] = seqs[x]
      BY <2>2
    <3>2. /\ x \in Range(waiting') <=> x \in Range(waiting)
          /\ x \in Range(running') <=> x \in Range(running)
          /\ x \in Range(swapped') <=> x \in Range(swapped)
      BY <2>2 DEF Moved
    <3> QED
      BY <3>1, <3>2 DEF StatusInv
  <2> QED
    BY <2>1, <2>2
<1>2. StatusInv'
  BY <1>1 DEF StatusInv
<1>3. EndsKept
  BY DEF EndsKept
<1> QED
  BY <1>2, <1>3

\* What the invariants say of one request.
LEMMA StatusFacts ==
  ASSUME IInv, NEW s \in DOMAIN seqs
  PROVE  /\ s \in Ids /\ seqs[s] \in Requests
         /\ Queue(waiting, Ids) /\ Queue(running, Ids) /\ Queue(swapped, Ids)
         /\ s \in Range(waiting) => s \notin Range(running) /\ s \notin Range(swapped)
         /\ s \in Range(running) => s \notin Range(waiting) /\ s \notin Range(swapped)
         /\ s \in Range(swapped) => s \notin Range(waiting) /\ s \notin Range(running)
BY RequestFacts DEF IInv, QueuesInv, Ids

\* A running request is preempted.
LEMMA PreemptKeepsStatus ==
  ASSUME IInv, StatusInv, NEW v \in DOMAIN seqs, v \in Range(running), Preempt(v)
  PROVE  StatusInv' /\ EndsKept
<1> DEFINE st == IF PreemptionMode = "swap" THEN "swapped" ELSE "waiting"
           r  == Preempted(seqs[v])
<1>1. /\ v \in Ids /\ seqs[v] \in Requests /\ seqs[v].status = "running"
      /\ Queue(waiting, Ids) /\ Queue(running, Ids) /\ Queue(swapped, Ids)
      /\ v \notin Range(waiting) /\ v \notin Range(swapped)
  BY StatusFacts DEF StatusInv
<1>2. /\ running' = Without(running, {v}) /\ seqs' = [seqs EXCEPT ![v] = r]
      /\ PreemptionMode = "swap" => swapped' = Append(swapped, v) /\ waiting' = waiting
      /\ PreemptionMode # "swap" => waiting' = Requeued(v, waiting) /\ swapped' = swapped
  BY DEF Preempt, Requeued
<1>3. r.status = st
  BY <1>1 DEF Preempted, Requests
<1> HIDE DEF r
<1>4. /\ DOMAIN seqs' = DOMAIN seqs /\ seqs'[v].status = st
      /\ \A x \in DOMAIN seqs : x # v => seqs'[x] = seqs[x]
  BY <1>2, <1>3
<1>5. Moved(running, running', v, st = "running")
  <2>1. Moved(running, Without(running, {v}), v, FALSE)
    BY <1>1, Moves
  <2> QED
    BY <1>2, <2>1
<1>6. /\ Moved(waiting, waiting', v, st = "waiting")
      /\ Moved(swapped, swapped', v, st = "swapped")
  <2>1. /\ Moved(waiting, waiting, v, FALSE) /\ Moved(waiting, Requeued(v, waiting), v, TRUE)
        /\ Moved(swapped, swapped, v, FALSE) /\ Moved(swapped, Append(swapped, v), v, TRUE)
    BY <1>1, Moves
  <2>2. CASE PreemptionMode = "swap"
    BY <1>2, <2>1, <2>2
  <2>3. CASE PreemptionMode # "swap"
    BY <1>2, <2>1, <2>3
  <2> QED
    BY <2>2, <2>3
<1>7. ~IsFinished(v)
  BY <1>1 DEF IsFinished
<1> HIDE DEF st
<1> QED
  BY <1>4, <1>5, <1>6, <1>7, OneRequestMoves

\* A running request stays where it is, or leaves the running ones for good.
LEMMA RunnerKeepsStatus ==
  ASSUME IInv, StatusInv, NEW s \in DOMAIN seqs, s \in Range(running), NEW r,
         seqs' = [seqs EXCEPT ![s] = r], UNCHANGED <<waiting, swapped>>,
         \/ r.status = "running" /\ running' = running
         \/ r.status = "finished" /\ running' = Without(running, {s})
  PROVE  StatusInv' /\ EndsKept
<1> DEFINE st == r.status
<1>1. /\ s \in Ids /\ seqs[s].status = "running"
      /\ Queue(waiting, Ids) /\ Queue(running, Ids) /\ Queue(swapped, Ids)
      /\ s \notin Range(waiting) /\ s \notin Range(swapped)
  BY StatusFacts DEF StatusInv
<1>2. /\ DOMAIN seqs' = DOMAIN seqs /\ seqs'[s].status = st
      /\ \A x \in DOMAIN seqs : x # s => seqs'[x] = seqs[x]
  OBVIOUS
<1>3. /\ Moved(waiting, waiting, s, FALSE) /\ Moved(swapped, swapped, s, FALSE)
      /\ Moved(running, running, s, TRUE)
      /\ Moved(running, Without(running, {s}), s, FALSE)
  BY <1>1, Moves
<1>4. /\ Moved(waiting, waiting', s, st = "waiting")
      /\ Moved(running, running', s, st = "running")
      /\ Moved(swapped, swapped', s, st = "swapped")
  BY <1>3
<1>5. ~IsFinished(s)
  BY <1>1 DEF IsFinished
<1> HIDE DEF st
<1> QED
  BY <1>2, <1>4, <1>5, OneRequestMoves

\* A queued request starts to run.
LEMMA StartKeepsStatus ==
  ASSUME IInv, StatusInv, NEW s, NEW r, r.status = "running",
         seqs' = [seqs EXCEPT ![s] = r], running' = Append(running, s),
         \/ waiting # <<>> /\ s = Head(waiting) /\ waiting' = Tail(waiting) /\ swapped' = swapped
         \/ swapped # <<>> /\ s = Head(swapped) /\ swapped' = Tail(swapped) /\ waiting' = waiting
  PROVE  StatusInv' /\ EndsKept
<1>1. Queue(waiting, Ids) /\ Queue(running, Ids) /\ Queue(swapped, Ids)
  BY DEF IInv, QueuesInv
<1>2. s \in DOMAIN seqs /\ (s \in Range(waiting) \/ s \in Range(swapped))
  BY <1>1, QueueHead DEF Ids
<1>3. /\ s \in Ids /\ s \notin Range(running) /\ ~IsFinished(s)
      /\ s \in Range(waiting) => s \notin Range(swapped)
      /\ s \in Range(swapped) => s \notin Range(waiting)
  <2>1. seqs[s].status \in {"waiting", "swapped"}
    BY <1>2 DEF StatusInv
  <2> QED
    BY <1>2, <2>1, StatusFacts DEF IsFinished
<1>4. /\ DOMAIN seqs' = DOMAIN seqs /\ seqs'[s].status = "running"
      /\ \A x \in DOMAIN seqs : x # s => seqs'[x] = seqs[x]
  BY <1>2
<1>5. Moved(running, running', s, TRUE)
  BY <1>1, <1>3, Moves
<1>6. Moved(waiting, waiting', s, FALSE) /\ Moved(swapped, swapped', s, FALSE)
  <2>1. CASE waiting # <<>> /\ s = Head(waiting) /\ waiting' = Tail(waiting) /\ swapped' = swapped
    <3>1. s \in Range(waiting)
      BY <1>1, <2>1, QueueHead
    <3> QED
      BY <1>1, <1>3, <2>1, <3>1, Moves
  <2>2. CASE swapped # <<>> /\ s = Head(swapped) /\ swapped' = Tail(swapped) /\ waiting' = waiting
    <3>1. s \in Range(swapped)
      BY <1>1, <2>2, QueueHead
    <3> QED
      BY <1>1, <1>3, <2>2, <3>1, Moves
  <2> QED
    BY <2>1, <2>2
<1> DEFINE st == "running"
<1>7. /\ Moved(waiting, waiting', s, st = "waiting")
      /\ Moved(running, running', s, st = "running")
      /\ Moved(swapped, swapped', s, st = "swapped")
  BY <1>5, <1>6
<1>8. seqs'[s].status = st
  BY <1>4
<1> HIDE DEF st
<1> QED
  BY <1>2, <1>3, <1>4, <1>7, <1>8, OneRequestMoves

\* A new request waits.
LEMMA AddRequestKeepsStatus ==
  ASSUME IInv, StatusInv, NEW p, NEW m, NEW a, AddRequest(p, m, a)
  PROVE  StatusInv' /\ EndsKept
<1> DEFINE s == Len(seqs) + 1
           r == [prompt |-> p, max |-> m, arrival |-> a, status |-> "waiting",
                 prefilled |-> 0, generated |-> 0, cached |-> 0]
           more == DOMAIN seqs \cup {s}
<1>1. /\ seqs' = Append(seqs, r) /\ waiting' = Append(waiting, s)
      /\ running' = running /\ swapped' = swapped
  BY DEF AddRequest
<1>2. r.status = "waiting"
  OBVIOUS
<1> HIDE DEF r
<1>3. seqs \in Seq(Requests) /\ DOMAIN seqs = 1..Len(seqs) /\ Len(seqs) \in Nat
  BY DEF IInv, RequestsInv
<1>4. /\ DOMAIN seqs' = more /\ s \notin DOMAIN seqs /\ seqs'[s] = r
      /\ \A x \in DOMAIN seqs : seqs'[x] = seqs[x]
  BY <1>1, <1>3
<1> HIDE DEF s
<1>5. /\ s \notin Range(waiting) /\ s \notin Range(running) /\ s \notin Range(swapped)
  BY <1>4, QueueIds
<1>6. Range(waiting') = Range(waiting) \cup {s}
  <2>1. Queue(waiting, more)
    BY WiderQueue DEF IInv, QueuesInv, Ids
  <2> QED
    BY <1>1, <1>5, <2>1, QueueAtEnd
<1>7. ASSUME NEW x \in more
      PROVE  /\ x \in Range(waiting') <=> seqs'[x].status = "waiting"
             /\ x \in Range(running') <=> seqs'[x].status = "running"
             /\ x \in Range(swapped') <=> seqs'[x].status = "swapped"
  <2>1. CASE x = s
    <3>1. seqs'[x].status = "waiting" /\ x \in Range(waiting')
      BY <1>2, <1>4, <1>6, <2>1
    <3>2. x \notin Range(running') /\ x \notin Range(swapped')
      BY <1>1, <1>5, <2>1
    <3> QED
      BY <3>1, <3>2
  <2>2. CASE x \in DOMAIN seqs
    <3>1. x # s /\ seqs'[x] = seqs[x]
      BY <1>4, <2>2
    <3> QED
      BY <1>1, <1>6, <2>2, <3>1 DEF StatusInv
  <2> QED
    BY <2>1, <2>2
<1>8. StatusInv'
  BY <1>4, <1>7 DEF StatusInv
<1>9. EndsKept
  BY <1>4 DEF EndsKept
<1> QED
  BY <1>8, <1>9

\* abort() takes a request that has not ended out of its queue.
LEMMA AbortKeepsStatus ==
  ASSUME IInv, StatusInv, NEW s \in DOMAIN seqs, Abort(s)
  PROVE  StatusInv' /\ EndsKept
<1> DEFINE st == "aborted"
           r  == [seqs[s] EXCEPT !.status = st]
<1>1. /\ s \in Ids /\ seqs[s] \in Requests
      /\ Queue(waiting, Ids) /\ Queue(running, Ids) /\ Queue(swapped, Ids)
  BY StatusFacts
<1>2. /\ waiting' = Without(waiting, {s}) /\ running' = Without(running, {s})
      /\ swapped' = Without(swapped, {s}) /\ ~IsFinished(s) /\ seqs' = [seqs EXCEPT ![s] = r]
  BY DEF Abort
<1>3. r.status = st
  BY <1>1 DEF Requests
<1> HIDE DEF r
<1>4. /\ DOMAIN seqs' = DOMAIN seqs /\ seqs'[s].status = st
      /\ \A x \in DOMAIN seqs : x # s => seqs'[x] = seqs[x]
  BY <1>2, <1>3
<1>5. /\ Moved(waiting, waiting', s, FALSE) /\ Moved(running, running', s, FALSE)
      /\ Moved(swapped, swapped', s, FALSE)
  BY <1>1, <1>2, Moves
<1>6. /\ Moved(waiting, waiting', s, st = "waiting")
      /\ Moved(running, running', s, st = "running")
      /\ Moved(swapped, swapped', s, st = "swapped")
  BY <1>5
<1> HIDE DEF st
<1> QED
  BY <1>2, <1>4, <1>6, OneRequestMoves

\* finish() is called for running requests only.
FinishesRunning == \A s \in DOMAIN seqs : FinishEarly(s) => s \in Range(running)

\* A step of the scheduler, or a call, keeps queues and statuses together.
LEMMA NextKeepsStatus ==
  ASSUME IInv, StatusInv, FinishesRunning, Next
  PROVE  StatusInv' /\ EndsKept
<1>1. ASSUME NEW p, NEW m, NEW a, AddRequest(p, m, a)
      PROVE  StatusInv' /\ EndsKept
  BY <1>1, AddRequestKeepsStatus
<1>2. ASSUME NEW s \in DOMAIN seqs, Abort(s)
      PROVE  StatusInv' /\ EndsKept
  BY <1>2, AbortKeepsStatus
<1>3. ASSUME NEW s \in DOMAIN seqs, FinishEarly(s)
      PROVE  StatusInv' /\ EndsKept
  <2> DEFINE r == [seqs[s] EXCEPT !.status = "finished"]
  <2>1. /\ s \in Range(running) /\ seqs' = [seqs EXCEPT ![s] = r]
        /\ running' = Without(running, {s}) /\ UNCHANGED <<waiting, swapped>>
    BY <1>3 DEF FinishEarly, FinishesRunning
  <2>2. r.status = "finished"
    BY StatusFacts DEF Requests
  <2> HIDE DEF r
  <2> QED
    BY <2>1, <2>2, RunnerKeepsStatus
<1>4. ASSUME UNCHANGED <<seqs, waiting, running, swapped>>
      PROVE  StatusInv' /\ EndsKept
  BY <1>4 DEF StatusInv, EndsKept
<1>5. CASE \/ BeginStep \/ DecodeSkip \/ EndDecodes \/ EndResumes
           \/ ChunkSkip \/ EndChunks \/ EndStep
  BY <1>4, <1>5 DEF BeginStep, DecodeSkip, EndDecodes, EndResumes, ChunkSkip, EndChunks, EndStep
<1>6. Queue(running, Ids)
  BY DEF IInv, QueuesInv
<1>7. CASE DecodePreempt
  <2>1. PICK s, v \in DOMAIN seqs : DecodeTurn(s) /\ IsVictim(v, s) /\ Preempt(v)
    BY <1>7 DEF DecodePreempt
  <2>2. v \in Range(running)
    BY <1>6, <2>1, QueueMembers DEF DecodeTurn, StillRunning, IsVictim
  <2> QED
    BY <2>1, <2>2, PreemptKeepsStatus
<1>8. CASE ChunkPreempt
  <2>1. PICK s \in DOMAIN seqs : ChunkTurn(s) /\ Preempt(s)
    BY <1>8 DEF ChunkPreempt
  <2>2. s \in Range(running)
    BY <1>6, <2>1, QueueMembers DEF ChunkTurn, StillRunning
  <2> QED
    BY <2>1, <2>2, PreemptKeepsStatus
<1>9. CASE DecodeToken
  <2>1. PICK s \in DOMAIN seqs :
          LET done == seqs[s].generated + 1 >= seqs[s].max
          IN /\ DecodeTurn(s)
             /\ seqs' = [seqs EXCEPT ![s].generated = @ + 1,
                                     ![s].status = IF done THEN "finished" ELSE @]
             /\ running' = IF done THEN Without(running, {s}) ELSE running
             /\ UNCHANGED <<waiting, swapped>>
    BY <1>9 DEF DecodeToken
  <2> DEFINE done == seqs[s].generated + 1 >= seqs[s].max
             st   == IF done THEN "finished" ELSE seqs[s].status
             r    == [seqs[s] EXCEPT !.generated = seqs[s].generated + 1, !.status = st]
  <2>2. s \in Range(running) /\ seqs[s] \in Requests /\ seqs[s].status = "running"
    BY <1>6, <2>1, QueueMembers, StatusFacts DEF DecodeTurn, StillRunning
  <2>3. seqs' = [seqs EXCEPT ![s] = r]
    BY <2>1
  <2>4. r.status = st
    BY <2>2 DEF Requests
  <2>5. \/ r.status = "running" /\ running' = running
        \/ r.status = "finished" /\ running' = Without(running, {s})
    BY <2>1, <2>2, <2>4
  <2> HIDE DEF r
  <2> QED
    BY <2>1, <2>2, <2>3, <2>5, RunnerKeepsStatus
<1>10. CASE ChunkContinue
  <2>1. PICK s \in DOMAIN seqs :
          /\ ChunkTurn(s)
          /\ seqs' = [seqs EXCEPT ![s].prefilled = @ + Chunk(s)]
          /\ UNCHANGED <<waiting, running, swapped>>
    BY <1>10 DEF ChunkContinue
  <2> DEFINE r == [seqs[s] EXCEPT !.prefilled = @ + Chunk(s)]
  <2>2. s \in Range(running) /\ seqs[s] \in Requests /\ seqs[s].status = "running"
    BY <1>6, <2>1, QueueMembers, StatusFacts DEF ChunkTurn, StillRunning
  <2>3. seqs' = [seqs EXCEPT ![s] = r] /\ r.status = "running"
    BY <2>1, <2>2 DEF Requests
  <2> HIDE DEF r
  <2> QED
    BY <2>1, <2>2, <2>3, RunnerKeepsStatus
<1>11. CASE ResumeSwapped
  <2> DEFINE s == Head(swapped)
             r == [seqs[s] EXCEPT !.status = "running"]
  <2>1. /\ swapped # <<>> /\ swapped' = Tail(swapped) /\ waiting' = waiting
        /\ seqs' = [seqs EXCEPT ![s] = r] /\ running' = Append(running, s)
    BY <1>11 DEF ResumeSwapped
  <2>2. seqs[s] \in Requests
    BY <2>1, QueueHead, StatusFacts DEF IInv, QueuesInv, Ids
  <2>3. r.status = "running" /\ s = Head(swapped)
    BY <2>2 DEF Requests
  <2> HIDE DEF s, r
  <2> QED
    BY <2>1, <2>3, StartKeepsStatus
<1>12. CASE Admit
  <2> DEFINE s == Head(waiting)
             r == [seqs[s] EXCEPT !.status = "running", !.cached = AdmitCached(s),
                                  !.prefilled = AdmitTokens(s)]
  <2>1. /\ waiting # <<>> /\ waiting' = Tail(waiting) /\ swapped' = swapped
        /\ seqs' = [seqs EXCEPT ![s] = r] /\ running' = Append(running, s)
    BY <1>12 DEF Admit, AdmitTurn, AdmitMatch, AdmitCached, AdmitChunk, AdmitTokens
  <2>2. seqs[s] \in Requests
    BY <2>1, QueueHead, StatusFacts DEF IInv, QueuesInv, Ids
  <2>3. r.status = "running" /\ s = Head(waiting)
    BY <2>2 DEF Requests
  <2> HIDE DEF s, r
  <2> QED
    BY <2>1, <2>3, StartKeepsStatus
<1> QED
  BY <1>1, <1>2, <1>3, <1>5, <1>7, <1>8, <1>9, <1>10, <1>11, <1>12 DEF Next, Step

-----------------------------------------------------------------------------
(* Queues and statuses *)

\* Three queues with no id in common have none twice together.
LEMMA ThreeQueues ==
  ASSUME NEW ids, NEW q, NEW p, NEW r, Queue(q, ids), Queue(p, ids), Queue(r, ids),
         Range(q) \cap Range(p) = {}, Range(q) \cap Range(r) = {}, Range(p) \cap Range(r) = {}
  PROVE  IsInjective(q \o p \o r)
<1> DEFINE w == q \o p
           v == w \o r
<1>1. Queue(w, ids) /\ Range(w) = Range(q) \cup Range(p)
  <2>1. Queue(q \o p, ids) /\ Range(q \o p) = Range(q) \cup Range(p)
    BY QueuesTogether
  <2> QED
    BY <2>1
<1> HIDE DEF w
<1>2. Range(w) \cap Range(r) = {}
  BY <1>1
<1>3. Queue(w \o r, ids)
  BY <1>1, <1>2, QueuesTogether
<1> QED
  BY <1>3 DEF Queue, w

\* Without finish() there is nothing to show.
LEMMA NeverFinishes == EarlyFinish = "never" => FinishesRunning
BY DEF FinishesRunning, FinishEarly, MayFinish

\* When finish() is not called, queues and statuses agree in every reachable state.
LEMMA AlwaysStatusInv == EarlyFinish = "never" => (Spec => [](IInv /\ StatusInv))
<1> SUFFICES ASSUME EarlyFinish = "never" PROVE Spec => [](IInv /\ StatusInv)
  OBVIOUS
<1>1. Init => StatusInv
  BY DEF Init, StatusInv
<1>2. IInv /\ StatusInv /\ [Next]_vars => StatusInv'
  <2>1. ASSUME UNCHANGED vars, StatusInv PROVE StatusInv'
    BY <2>1 DEF vars, StatusInv
  <2> QED
    BY <2>1, NeverFinishes, NextKeepsStatus
<1> QED
  BY <1>1, <1>2, InitKeepsIInv, NextKeepsIInv, PTL DEF Spec

\* The invariants say what the property says of the queues.
LEMMA StatusMatches ==
  ASSUME IInv, StatusInv
  PROVE  QueuesMatchStatus
<1>1. /\ Queue(waiting, Ids) /\ Queue(running, Ids) /\ Queue(swapped, Ids)
      /\ Range(waiting) \cap Range(running) = {}
      /\ Range(waiting) \cap Range(swapped) = {}
      /\ Range(running) \cap Range(swapped) = {}
  BY DEF IInv, QueuesInv
<1>2. IsInjective(waiting \o running \o swapped)
  BY <1>1, ThreeQueues
<1>3. ASSUME NEW s \in DOMAIN seqs
      PROVE  /\ Contains(waiting, s) <=> seqs[s].status = "waiting"
             /\ Contains(running, s) <=> seqs[s].status = "running"
             /\ Contains(swapped, s) <=> seqs[s].status = "swapped"
  <2>1. /\ Contains(waiting, s) <=> s \in Range(waiting)
        /\ Contains(running, s) <=> s \in Range(running)
        /\ Contains(swapped, s) <=> s \in Range(swapped)
    BY <1>1, QueueMembers
  <2> QED
    BY <2>1 DEF StatusInv
<1> QED
  BY <1>2, <1>3 DEF QueuesMatchStatus

-----------------------------------------------------------------------------
(* The line of the requests *)

\* A list of ids that ascend.
Sorted(q) == \A i, j \in DOMAIN q : i < j => q[i] < q[j]

\* Every id of q comes before every id of p.
Ahead(q, p) == \A s \in Range(q), t \in Range(p) : s < t

\* An ascending list without its head.
LEMMA SortedTail ==
  ASSUME NEW q \in Seq(Nat), Sorted(q), q # <<>>
  PROVE  /\ Sorted(Tail(q))
         /\ \A x \in Range(Tail(q)) : x \in Range(q) /\ Head(q) < x
<1> DEFINE n == Len(q)
           t == Tail(q)
<1>1. /\ n \in Nat /\ n > 0 /\ DOMAIN q = 1..n /\ DOMAIN t = 1..(n - 1) /\ Head(q) = q[1]
      /\ \A i \in 1..(n - 1) : t[i] = q[i + 1]
  BY EmptySeq
<1> HIDE DEF t
<1>2. \A i, j \in 1..n : i < j => q[i] < q[j]
  BY <1>1 DEF Sorted
<1>3. ASSUME NEW i \in DOMAIN t, NEW j \in DOMAIN t, i < j PROVE t[i] < t[j]
  <2>1. i + 1 \in 1..n /\ j + 1 \in 1..n /\ i + 1 < j + 1
    BY <1>1, <1>3
  <2> QED
    BY <1>1, <1>2, <2>1
<1>4. ASSUME NEW i \in DOMAIN t PROVE t[i] \in Range(q) /\ q[1] < t[i]
  <2>1. 1 \in 1..n /\ i + 1 \in 1..n /\ 1 < i + 1
    BY <1>1
  <2> QED
    BY <1>1, <1>2, <2>1 DEF Range
<1>5. Sorted(t) /\ \A x \in Range(t) : x \in Range(q) /\ Head(q) < x
  BY <1>1, <1>3, <1>4 DEF Sorted, Range
<1> QED
  BY <1>5 DEF t

\* How the operations on lists keep the order.
LEMMA SortedMoves ==
  ASSUME NEW ids \in SUBSET Nat, NEW q, Queue(q, ids), Sorted(q)
  PROVE  /\ \A v : Sorted(Without(q, {v}))
         /\ \A v \in ids : (\A x \in Range(q) : x < v) => Sorted(Append(q, v))
         /\ \A v \in ids : (\A x \in Range(q) : v < x) => Sorted(Requeued(v, q))
         /\ q # <<>> => Sorted(Tail(q)) /\ \A x \in Range(Tail(q)) : Head(q) < x
<1> DEFINE n == Len(q)
<1>1. q \in Seq(ids) /\ n \in Nat /\ DOMAIN q = 1..n
  BY DEF Queue
<1>2. \A i, j \in 1..n : i < j => q[i] < q[j]
  BY <1>1 DEF Sorted
<1>3. \A i \in 1..n : q[i] \in Range(q)
  BY <1>1 DEF Range
<1>4. ASSUME NEW v PROVE Sorted(Without(q, {v}))
  <2> DEFINE w == Without(q, {v})
  <2>1. \A a, b \in DOMAIN w :
          a < b => \E i, k \in DOMAIN q : i < k /\ w[a] = q[i] /\ w[b] = q[k]
    BY <1>1, WithoutMembers
  <2> HIDE DEF w
  <2>2. Sorted(w)
    BY <2>1 DEF Sorted
  <2> QED
    BY <2>2 DEF w
<1>5. ASSUME NEW v \in ids, \A x \in Range(q) : x < v PROVE Sorted(Append(q, v))
  <2> DEFINE a == Append(q, v)
  <2>1. DOMAIN a = 1..(n + 1) /\ a[n + 1] = v /\ \A i \in 1..n : a[i] = q[i]
    BY <1>1
  <2> HIDE DEF a
  <2>2. ASSUME NEW i \in DOMAIN a, NEW j \in DOMAIN a, i < j PROVE a[i] < a[j]
    <3>1. i \in 1..n /\ (j \in 1..n \/ j = n + 1)
      BY <1>1, <2>1, <2>2
    <3> QED
      BY <1>2, <1>3, <1>5, <2>1, <2>2, <3>1
  <2>3. Sorted(a)
    BY <2>2 DEF Sorted
  <2> QED
    BY <2>3 DEF a
<1>6. ASSUME NEW v \in ids, \A x \in Range(q) : v < x PROVE Sorted(Requeued(v, q))
  <2> DEFINE a == Requeued(v, q)
  <2>1. DOMAIN a = 1..(n + 1) /\ a[1] = v /\ \A i \in 1..n : a[i + 1] = q[i]
    <3>1. <<v>> \in Seq(ids) /\ Len(<<v>>) = 1
      OBVIOUS
    <3>2. a \in Seq(ids) /\ Len(a) = 1 + n
      BY <1>1, <3>1, ConcatProperties DEF Requeued
    <3>3. DOMAIN a = 1..(n + 1)
      BY <1>1, <3>2
    <3>4. a[1] = v
      BY <1>1 DEF Requeued
    <3>5. \A i \in 1..n : a[i + 1] = q[i]
      BY <1>1 DEF Requeued
    <3> QED
      BY <3>3, <3>4, <3>5
  <2> HIDE DEF a
  <2>2. ASSUME NEW i \in DOMAIN a, NEW j \in DOMAIN a, i < j PROVE a[i] < a[j]
    <3> DEFINE k == j - 1
               h == i - 1
    <3>1. k \in 1..n /\ j = k + 1 /\ a[j] = q[k]
      BY <1>1, <2>1, <2>2
    <3>2. CASE i = 1
      BY <1>3, <1>6, <2>1, <3>1, <3>2
    <3>3. CASE i # 1
      <4>1. h \in 1..n /\ i = h + 1 /\ a[i] = q[h] /\ h < k
        BY <1>1, <2>1, <2>2, <3>3
      <4> QED
        BY <1>2, <3>1, <4>1
    <3> QED
      BY <3>2, <3>3
  <2>3. Sorted(a)
    BY <2>2 DEF Sorted
  <2> QED
    BY <2>3 DEF a
<1>7. ASSUME q # <<>> PROVE Sorted(Tail(q)) /\ \A x \in Range(Tail(q)) : Head(q) < x
  <2>1. q \in Seq(Nat)
    BY <1>1, SeqMonotonic
  <2> QED
    BY <1>7, <2>1, SortedTail
<1> QED
  BY <1>4, <1>5, <1>6, <1>7

\* The last of an ascending list is its greatest id.
LEMMA GreatestIsLast ==
  ASSUME NEW ids \in SUBSET Nat, NEW q, Queue(q, ids), Sorted(q), NEW i \in DOMAIN q,
         \A x \in Range(q) : x <= q[i]
  PROVE  i = Len(q)
<1> DEFINE n == Len(q)
<1>1. q \in Seq(ids) /\ n \in Nat /\ DOMAIN q = 1..n
  BY DEF Queue
<1>2. i \in 1..n /\ n \in 1..n
  BY <1>1
<1>3. q[n] \in Range(q) /\ q[n] \in Nat /\ q[i] \in Nat
  <2>1. \A k \in 1..n : q[k] \in ids
    BY <1>1
  <2>2. q[n] \in Range(q)
    BY <1>1, <1>2 DEF Range
  <2> QED
    BY <1>2, <2>1, <2>2
<1>4. ~(i < n)
  BY <1>1, <1>2, <1>3 DEF Sorted
<1> HIDE DEF n
<1>5. i = n
  BY <1>1, <1>2, <1>4
<1> QED
  BY <1>5 DEF n

\* The requests stand in one line, the running ones in front of the waiting ones.
LineInv ==
  /\ \A s \in DOMAIN seqs : seqs[s].arrival = s
  /\ swapped = <<>>
  /\ \A s \in Range(running) : seqs[s].status = "running"
  /\ Sorted(running) /\ Sorted(waiting) /\ Ahead(running, waiting)

\* What the invariants say of the line; ids are numbers, and order the requests.
LEMMA LineFacts ==
  ASSUME IInv, LineInv
  PROVE  /\ Ids \in SUBSET Nat /\ Ids = DOMAIN seqs
         /\ Queue(waiting, Ids) /\ Queue(running, Ids)
         /\ Range(waiting) \subseteq Ids /\ Range(running) \subseteq Ids
         /\ Range(running) \cap Range(waiting) = {}
         /\ \A s, t \in Ids : Before(s, t) <=> s < t
         /\ \A s \in Range(running) : ~IsFinished(s)
<1>1. Ids \in SUBSET Nat /\ Ids = DOMAIN seqs
  BY DEF Ids, IInv, RequestsInv
<1>2. Range(waiting) \subseteq Ids /\ Range(running) \subseteq Ids
  BY <1>1, QueueIds
<1>3. \A s, t \in Ids : Before(s, t) <=> s < t
  BY <1>1 DEF Before, LineInv
<1>4. \A s \in Range(running) : ~IsFinished(s)
  BY DEF LineInv, IsFinished
<1> QED
  BY <1>1, <1>2, <1>3, <1>4 DEF IInv, QueuesInv

\* One request changes, but neither its arrival nor its place.
LEMMA OneChangeKeepsArrivals ==
  ASSUME LineInv, NEW s \in DOMAIN seqs, NEW r, r.arrival = seqs[s].arrival,
         seqs' = [seqs EXCEPT ![s] = r]
  PROVE  /\ \A x \in DOMAIN seqs' : seqs'[x].arrival = x
         /\ DOMAIN seqs' = DOMAIN seqs /\ seqs'[s] = r
         /\ \A x \in DOMAIN seqs : x # s => seqs'[x] = seqs[x]
<1>1. /\ DOMAIN seqs' = DOMAIN seqs /\ seqs'[s] = r
      /\ \A x \in DOMAIN seqs : x # s => seqs'[x] = seqs[x]
  OBVIOUS
<1>2. ASSUME NEW x \in DOMAIN seqs PROVE seqs'[x].arrival = x
  <2>1. CASE x = s
    BY <1>1, <2>1 DEF LineInv
  <2>2. CASE x # s
    BY <1>1, <2>2 DEF LineInv
  <2> QED
    BY <2>1, <2>2
<1> QED
  BY <1>1, <1>2

\* Nothing can be taken out of the empty list.
LEMMA EmptyWithout == ASSUME NEW s PROVE Without(<<>>, {s}) = <<>>
<1> DEFINE e == <<>>
           q == Without(e, {s})
<1>1. e \in Seq(Nat) /\ Range(e) = {}
  BY DEF Range
<1> HIDE DEF e
<1>2. q \in Seq(Nat) /\ Range(q) = {}
  <2>1. q \in Seq(Nat) /\ Range(q) = Range(e) \ {s}
    BY <1>1, WithoutMembers
  <2> QED
    BY <1>1, <2>1
<1> HIDE DEF q
<1>3. DOMAIN q = 1..Len(q) /\ Len(q) \in Nat
  BY <1>2
<1>4. Len(q) = 0
  <2>1. ASSUME 1 \in DOMAIN q PROVE FALSE
    BY <1>2, <2>1 DEF Range
  <2> QED
    BY <1>3, <2>1
<1>5. q = <<>>
  BY <1>2, <1>4
<1> QED
  BY <1>5 DEF q, e

\* A request leaves the line.
LEMMA LeavingKeepsLine ==
  ASSUME IInv, LineInv, NEW s \in DOMAIN seqs, NEW r, r.arrival = seqs[s].arrival,
         seqs' = [seqs EXCEPT ![s] = r], running' = Without(running, {s}),
         waiting' = waiting \/ waiting' = Without(waiting, {s}),
         swapped' = swapped \/ swapped' = Without(swapped, {s})
  PROVE  LineInv'
<1>1. /\ Ids \in SUBSET Nat /\ Queue(waiting, Ids) /\ Queue(running, Ids)
      /\ Range(running) \subseteq DOMAIN seqs
  BY LineFacts
<1>2. /\ \A x \in DOMAIN seqs' : seqs'[x].arrival = x
      /\ \A x \in DOMAIN seqs : x # s => seqs'[x] = seqs[x]
  BY OneChangeKeepsArrivals
<1>3. Range(running') = Range(running) \ {s} /\ Sorted(running')
  BY <1>1, QueueWithout, SortedMoves DEF LineInv
<1>4. Range(waiting') \subseteq Range(waiting) /\ Sorted(waiting')
  <2>1. Range(Without(waiting, {s})) = Range(waiting) \ {s} /\ Sorted(Without(waiting, {s}))
    BY <1>1, QueueWithout, SortedMoves DEF LineInv
  <2> QED
    BY <2>1 DEF LineInv
<1>5. swapped' = <<>>
  <2>1. Without(<<>>, {s}) = <<>>
    BY EmptyWithout
  <2> QED
    BY <2>1 DEF LineInv
<1>6. \A x \in Range(running') : seqs'[x].status = "running"
  BY <1>1, <1>2, <1>3 DEF LineInv
<1>7. Ahead(running', waiting')
  BY <1>3, <1>4 DEF LineInv, Ahead
<1> QED
  BY <1>2, <1>3, <1>4, <1>5, <1>6, <1>7 DEF LineInv

\* A running request computes, and keeps its place.
LEMMA StayingKeepsLine ==
  ASSUME IInv, LineInv, NEW s \in DOMAIN seqs, NEW r, r.arrival = seqs[s].arrival,
         r.status = "running", seqs' = [seqs EXCEPT ![s] = r],
         UNCHANGED <<waiting, running, swapped>>
  PROVE  LineInv'
<1>1. Range(running) \subseteq DOMAIN seqs
  BY LineFacts
<1>2. /\ \A x \in DOMAIN seqs' : seqs'[x].arrival = x /\ seqs'[s] = r
      /\ \A x \in DOMAIN seqs : x # s => seqs'[x] = seqs[x]
  BY OneChangeKeepsArrivals
<1>3. ASSUME NEW x \in Range(running) PROVE seqs'[x].status = "running"
  <2>1. CASE x = s
    BY <1>2, <2>1
  <2>2. CASE x # s
    BY <1>1, <1>2, <2>2 DEF LineInv
  <2> QED
    BY <2>1, <2>2
<1> QED
  BY <1>2, <1>3 DEF LineInv

\* The newest running request goes back to the head of the queue.
LEMMA PreemptKeepsLine ==
  ASSUME PreemptionMode = "recompute", IInv, LineInv, NEW v \in Range(running),
         \A t \in Range(running) : t <= v, Preempt(v)
  PROVE  LineInv'
<1> DEFINE r == Preempted(seqs[v])
           w == Requeued(v, waiting)
           u == Without(running, {v})
<1>1. /\ Ids \in SUBSET Nat /\ Queue(waiting, Ids) /\ Queue(running, Ids)
      /\ Range(running) \subseteq DOMAIN seqs /\ v \in DOMAIN seqs /\ v \in Ids
      /\ Range(waiting) \subseteq Ids /\ Range(running) \subseteq Ids
  BY LineFacts
<1>2. /\ running' = u /\ waiting' = w /\ swapped' = swapped /\ seqs' = [seqs EXCEPT ![v] = r]
  BY DEF Preempt, Requeued
<1>3. r.arrival = seqs[v].arrival
  BY <1>1, RequestFacts DEF IInv, Preempted, Requests
<1> HIDE DEF r
<1>4. /\ \A x \in DOMAIN seqs' : seqs'[x].arrival = x
      /\ \A x \in DOMAIN seqs : x # v => seqs'[x] = seqs[x]
  BY <1>1, <1>2, <1>3, OneChangeKeepsArrivals
<1>5. Range(u) = Range(running) \ {v} /\ Sorted(u)
  BY <1>1, QueueWithout, SortedMoves DEF LineInv
<1>6. \A x \in Range(waiting) : v < x
  BY DEF LineInv, Ahead
<1>7. Range(w) = Range(waiting) \cup {v} /\ Sorted(w)
  <2>1. v \notin Range(waiting)
    BY LineFacts
  <2>2. Range(w) = Range(waiting) \cup {v}
    BY <1>1, <2>1, QueueAtHead
  <2>3. Sorted(w)
    BY <1>1, <1>6, SortedMoves DEF LineInv
  <2> QED
    BY <2>2, <2>3
<1> HIDE DEF u, w
<1>8. Ahead(u, w)
  <2> SUFFICES ASSUME NEW s \in Range(u), NEW t \in Range(w) PROVE s < t
    BY DEF Ahead
  <2>1. s \in Range(running) /\ s # v /\ s \in Nat /\ v \in Nat
    BY <1>1, <1>5
  <2>2. CASE t = v
    BY <2>1, <2>2
  <2>3. CASE t \in Range(waiting)
    BY <2>1, <2>3 DEF LineInv, Ahead
  <2> QED
    BY <1>7, <2>2, <2>3
<1>9. \A x \in Range(u) : seqs'[x].status = "running"
  BY <1>1, <1>4, <1>5 DEF LineInv
<1> QED
  BY <1>2, <1>4, <1>5, <1>7, <1>8, <1>9 DEF LineInv

\* The head of the waiting queue becomes the newest running request.
LEMMA AdmitKeepsLine ==
  ASSUME IInv, LineInv, NEW s, NEW r, waiting # <<>>, s = Head(waiting),
         r.arrival = seqs[s].arrival, r.status = "running",
         seqs' = [seqs EXCEPT ![s] = r], running' = Append(running, s),
         waiting' = Tail(waiting), swapped' = swapped
  PROVE  LineInv'
<1>1. /\ Ids \in SUBSET Nat /\ Queue(waiting, Ids) /\ Queue(running, Ids)
      /\ Range(running) \subseteq Ids /\ Ids = DOMAIN seqs
      /\ Sorted(waiting) /\ Sorted(running)
  BY LineFacts DEF LineInv
<1>2. s \in Ids /\ s \in Range(waiting) /\ Range(waiting') = Range(waiting) \ {s}
  BY <1>1, QueueHead
<1>3. \A x \in Range(running) : x < s
  BY <1>2 DEF LineInv, Ahead
<1>4. s \notin Range(running)
  BY <1>1, <1>2, LineFacts
<1>5. Range(running') = Range(running) \cup {s} /\ Sorted(running')
  <2>1. Range(Append(running, s)) = Range(running) \cup {s}
    BY <1>1, <1>2, <1>4, QueueAtEnd
  <2>2. Sorted(Append(running, s))
    BY <1>1, <1>2, <1>3, SortedMoves
  <2> QED
    BY <2>1, <2>2
<1>6. Sorted(waiting') /\ \A x \in Range(waiting') : s < x
  BY <1>1, SortedMoves
<1>7. Ahead(running', waiting')
  <2> SUFFICES ASSUME NEW x \in Range(running'), NEW y \in Range(waiting') PROVE x < y
    BY DEF Ahead
  <2> QED
    BY <1>2, <1>5, <1>6 DEF LineInv, Ahead
<1>8. /\ \A x \in DOMAIN seqs' : seqs'[x].arrival = x
      /\ seqs'[s] = r /\ \A x \in DOMAIN seqs : x # s => seqs'[x] = seqs[x]
  BY <1>1, <1>2, OneChangeKeepsArrivals
<1>9. ASSUME NEW x \in Range(running') PROVE seqs'[x].status = "running"
  <2>1. CASE x = s
    BY <1>8, <2>1
  <2>2. CASE x # s
    BY <1>1, <1>5, <1>8, <2>2 DEF LineInv
  <2> QED
    BY <2>1, <2>2
<1> QED
  BY <1>5, <1>6, <1>7, <1>8, <1>9 DEF LineInv

\* A new request goes to the end of the line.
LEMMA AddRequestKeepsLine ==
  ASSUME Arrivals = "clock", IInv, LineInv, NEW p, NEW m, NEW a, AddRequest(p, m, a)
  PROVE  LineInv'
<1> DEFINE s == Len(seqs) + 1
           r == [prompt |-> p, max |-> m, arrival |-> a, status |-> "waiting",
                 prefilled |-> 0, generated |-> 0, cached |-> 0]
           more == DOMAIN seqs \cup {s}
<1>1. /\ seqs' = Append(seqs, r) /\ waiting' = Append(waiting, s) /\ a = s
      /\ running' = running /\ swapped' = swapped
  BY DEF AddRequest
<1>2. r.arrival = a
  OBVIOUS
<1> HIDE DEF r
<1>3. seqs \in Seq(Requests) /\ DOMAIN seqs = 1..Len(seqs) /\ Len(seqs) \in Nat
  BY DEF IInv, RequestsInv
<1>4. /\ DOMAIN seqs' = more /\ s \notin DOMAIN seqs /\ seqs'[s] = r
      /\ \A x \in DOMAIN seqs : seqs'[x] = seqs[x] /\ x < s
      /\ more \in SUBSET Nat
  BY <1>1, <1>3
<1> HIDE DEF s
<1>5. /\ Range(waiting) \subseteq DOMAIN seqs /\ Range(running) \subseteq DOMAIN seqs
  BY QueueIds
<1>6. Queue(waiting, more)
  BY WiderQueue DEF IInv, QueuesInv, Ids
<1>7. Range(waiting') = Range(waiting) \cup {s}
  BY <1>1, <1>4, <1>5, <1>6, QueueAtEnd
<1>8. Sorted(waiting')
  <2>1. s \in more /\ Sorted(waiting) /\ \A x \in Range(waiting) : x < s
    BY <1>4, <1>5 DEF LineInv
  <2> HIDE DEF more
  <2> QED
    BY <1>1, <1>4, <1>6, <2>1, SortedMoves
<1>9. Ahead(running', waiting')
  <2> SUFFICES ASSUME NEW x \in Range(running), NEW y \in Range(waiting') PROVE x < y
    BY <1>1 DEF Ahead
  <2> QED
    BY <1>4, <1>5, <1>7 DEF LineInv, Ahead
<1>10. \A x \in more : seqs'[x].arrival = x
  BY <1>1, <1>2, <1>4 DEF LineInv
<1>11. \A x \in Range(running') : seqs'[x].status = "running"
  BY <1>1, <1>4, <1>5 DEF LineInv
<1> QED
  BY <1>1, <1>4, <1>8, <1>9, <1>10, <1>11 DEF LineInv

-----------------------------------------------------------------------------
(* The prompts in flight *)

\* Only the newest running request is partly prefilled, and once the loop over the
\* chunks is past it, it has used up the budget.
ChunkInv ==
  /\ todo \in Seq(Nat)
  /\ \A s, t \in Range(running) : ~PrefillDone(s) => t <= s
  /\ phase = "chunk" =>
       \A s \in Range(running) : PrefillDone(s) \/ s \in Range(todo) \/ budget = 0
  /\ phase = "admit" => \A s \in Range(running) : PrefillDone(s) \/ budget = 0
  /\ ~ChunkedPrefill => \A s \in Range(running) : PrefillDone(s)

\* The loops walk the snapshot from its head.
LEMMA TodoHead ==
  ASSUME NEW q \in Seq(Nat), q # <<>>
  PROVE  Tail(q) \in Seq(Nat) /\ \A x \in Range(q) : x = Head(q) \/ x \in Range(Tail(q))
<1> DEFINE n == Len(q)
           t == Tail(q)
<1>1. n \in Nat /\ n > 0 /\ DOMAIN q = 1..n
  BY EmptySeq
<1>2. /\ t \in Seq(Nat) /\ DOMAIN t = 1..(n - 1) /\ Head(q) = q[1]
      /\ \A i \in 1..(n - 1) : t[i] = q[i + 1]
  BY <1>1
<1> HIDE DEF t
<1>3. ASSUME NEW i \in 1..n PROVE q[i] = Head(q) \/ q[i] \in Range(t)
  <2>1. CASE i = 1
    BY <1>2, <2>1
  <2>2. CASE i # 1
    <3>1. i - 1 \in 1..(n - 1) /\ (i - 1) + 1 = i
      BY <1>1, <2>2
    <3>2. t[i - 1] = q[i]
      BY <1>2, <3>1
    <3> QED
      BY <1>2, <3>1, <3>2 DEF Range
  <2> QED
    BY <2>1, <2>2
<1>4. \A x \in Range(q) : x = Head(q) \/ x \in Range(t)
  BY <1>1, <1>3 DEF Range
<1> QED
  BY <1>2, <1>4 DEF t

\* No prompt moves on, and nobody joins the running requests.
LEMMA NoneJoinsKeepsChunks ==
  ASSUME ChunkInv, Range(running') \subseteq Range(running),
         \A x \in Range(running') : PrefillDone(x)' <=> PrefillDone(x),
         todo' \in Seq(Nat), phase' = phase,
         phase \in {"chunk", "admit"} => budget' = budget,
         phase = "chunk" =>
           \A x \in Range(running') :
             x \in Range(todo) => x \in Range(todo') \/ PrefillDone(x) \/ budget = 0
  PROVE  ChunkInv'
<1>1. /\ \A s, t \in Range(running) : ~PrefillDone(s) => t <= s
      /\ phase = "chunk" =>
           \A s \in Range(running) : PrefillDone(s) \/ s \in Range(todo) \/ budget = 0
      /\ phase = "admit" => \A s \in Range(running) : PrefillDone(s) \/ budget = 0
      /\ ~ChunkedPrefill => \A s \in Range(running) : PrefillDone(s)
  BY DEF ChunkInv
<1>2. \A s, t \in Range(running') : ~PrefillDone(s)' => t <= s
  BY <1>1
<1>3. phase' = "chunk" =>
        \A s \in Range(running') : PrefillDone(s)' \/ s \in Range(todo') \/ budget' = 0
  BY <1>1
<1>4. phase' = "admit" => \A s \in Range(running') : PrefillDone(s)' \/ budget' = 0
  BY <1>1
<1>5. ~ChunkedPrefill => \A s \in Range(running') : PrefillDone(s)'
  BY <1>1
<1> QED
  BY <1>2, <1>3, <1>4, <1>5 DEF ChunkInv

\* A loop begins or ends.
LEMMA LoopsKeepChunks ==
  ASSUME IInv, LineInv, ChunkInv,
         BeginStep \/ EndDecodes \/ EndResumes \/ EndChunks \/ EndStep
  PROVE  ChunkInv'
<1>1. /\ running' = running /\ seqs' = seqs
      /\ \A x : PrefillDone(x)' <=> PrefillDone(x)
  BY DEF BeginStep, EndDecodes, EndResumes, EndChunks, EndStep, PrefillDone, PromptLen
<1>2. running \in Seq(Nat) /\ <<>> \in Seq(Nat)
  BY LineFacts, SeqMonotonic DEF Queue
<1>3. todo' \in Seq(Nat)
  BY <1>2 DEF BeginStep, EndDecodes, EndResumes, EndChunks, EndStep, ChunkInv
<1>4. phase' = "chunk" => todo' = running
  BY DEF BeginStep, EndDecodes, EndResumes, EndChunks, EndStep
<1>5. phase' = "admit" => phase = "chunk" /\ todo = <<>> /\ budget' = budget
  BY DEF BeginStep, EndDecodes, EndResumes, EndChunks, EndStep
<1>6. phase' = "admit" => \A s \in Range(running) : PrefillDone(s) \/ budget' = 0
  <2>1. Range(<<>>) = {}
    BY DEF Range
  <2> QED
    BY <1>5, <2>1 DEF ChunkInv
<1> QED
  BY <1>1, <1>3, <1>4, <1>6 DEF ChunkInv

\* A request changes, its prompt and what is prefilled of it do not.
LEMMA SamePrefill ==
  ASSUME NEW s \in DOMAIN seqs, NEW r, seqs' = [seqs EXCEPT ![s] = r],
         r.prompt = seqs[s].prompt, r.prefilled = seqs[s].prefilled
  PROVE  \A x \in DOMAIN seqs : PrefillDone(x)' <=> PrefillDone(x)
<1>1. ASSUME NEW x \in DOMAIN seqs
      PROVE  seqs'[x].prompt = seqs[x].prompt /\ seqs'[x].prefilled = seqs[x].prefilled
  <2>1. CASE x = s
    BY <2>1
  <2>2. CASE x # s
    BY <2>2
  <2> QED
    BY <2>1, <2>2
<1> QED
  BY <1>1 DEF PrefillDone, PromptLen

\* Another request changes.
LEMMA OtherPrefill ==
  ASSUME NEW s \in DOMAIN seqs, NEW r, seqs' = [seqs EXCEPT ![s] = r]
  PROVE  \A x \in DOMAIN seqs : x # s => (PrefillDone(x)' <=> PrefillDone(x))
<1>1. \A x \in DOMAIN seqs : x # s => seqs'[x] = seqs[x]
  OBVIOUS
<1> QED
  BY <1>1 DEF PrefillDone, PromptLen

\* The next chunk of a prompt completes it or takes all that is left of the budget.
LEMMA ChunkContinueKeepsChunks ==
  ASSUME IInv, LineInv, ChunkInv, ChunkContinue
  PROVE  ChunkInv'
<1>1. PICK s \in DOMAIN seqs :
        /\ ChunkTurn(s) /\ seqs' = [seqs EXCEPT ![s].prefilled = @ + Chunk(s)]
        /\ budget' = budget - Chunk(s) /\ todo' = Tail(todo)
        /\ UNCHANGED <<running, phase>>
  BY DEF ChunkContinue
<1> DEFINE n == Chunk(s)
           r == [seqs[s] EXCEPT !.prefilled = @ + n]
<1>2. /\ phase = "chunk" /\ todo # <<>> /\ s = Head(todo) /\ ~PrefillDone(s) /\ n > 0
      /\ s \in Range(running)
  <2>1. Queue(running, Ids)
    BY DEF IInv, QueuesInv
  <2> QED
    BY <1>1, <2>1, QueueMembers DEF ChunkTurn, StillRunning, InLoop
<1>3. /\ seqs[s] \in Requests /\ PromptLen(s) \in Nat /\ seqs[s].prefilled \in Nat
      /\ budget \in Nat
  BY RequestFacts, SchedulerAssumption DEF IInv, RequestsInv
<1>4. ChunkedPrefill
  BY <1>2 DEF ChunkInv
<1>5. RemainingPrefill(s) = PromptLen(s) - seqs[s].prefilled
  BY <1>2, <1>3 DEF RemainingPrefill, NonNegative, PrefillDone
<1>6. n = RemainingPrefill(s) \/ n = budget
  BY <1>3, <1>4, <1>5 DEF Chunk
<1> HIDE DEF n
<1>7. seqs' = [seqs EXCEPT ![s] = r] /\ r.prompt = seqs[s].prompt
      /\ r.prefilled = seqs[s].prefilled + n
  BY <1>1, <1>3 DEF Requests, n
<1> HIDE DEF r
<1>8. PrefillDone(s)' \/ budget' = 0
  <2>1. seqs'[s] = r
    BY <1>7
  <2>2. CASE n = RemainingPrefill(s)
    <3>1. seqs'[s].prefilled = PromptLen(s) /\ PromptLen(s)' = PromptLen(s)
      BY <1>3, <1>5, <1>7, <2>1, <2>2 DEF PromptLen
    <3> QED
      BY <1>3, <3>1 DEF PrefillDone
  <2>3. CASE n = budget
    BY <1>1, <1>3, <2>3 DEF n
  <2> QED
    BY <1>6, <2>2, <2>3
<1>9. \A x \in Range(running) : x # s => (PrefillDone(x)' <=> PrefillDone(x))
  BY <1>7, OtherPrefill, QueueIds
<1>10. \A x, t \in Range(running) : ~PrefillDone(x) => t <= x
  BY DEF ChunkInv
<1>11. ASSUME NEW x \in Range(running), ~PrefillDone(x)' PROVE x = s
  <2> SUFFICES ASSUME x # s PROVE FALSE
    OBVIOUS
  <2>1. ~PrefillDone(x)
    BY <1>9, <1>11
  <2>2. x <= s /\ s <= x /\ x \in Nat /\ s \in Nat
    BY <1>2, <1>10, <2>1, LineFacts
  <2> QED
    BY <2>2
<1>12. todo' \in Seq(Nat)
  BY <1>1, <1>2, TodoHead DEF ChunkInv
<1>13. \A x, t \in Range(running) : ~PrefillDone(x)' => t <= x
  BY <1>2, <1>10, <1>11
<1>14. \A x \in Range(running) : PrefillDone(x)' \/ budget' = 0
  BY <1>8, <1>11
<1> QED
  BY <1>1, <1>2, <1>4, <1>12, <1>13, <1>14 DEF ChunkInv

\* The first chunk of a prompt is all of it or all that is left of the budget, and
\* without chunking it is all of it.
LEMMA AdmitKeepsChunks ==
  ASSUME IInv, LineInv, ChunkInv, Admit
  PROVE  ChunkInv'
<1>1. PICK s : s = Head(waiting)
  OBVIOUS
<1> DEFINE n == AdmitTokens(s)
           r == [seqs[s] EXCEPT !.status = "running", !.cached = AdmitCached(s),
                                !.prefilled = n]
<1>2. /\ AdmitTurn /\ AdmitFits(s) /\ seqs' = [seqs EXCEPT ![s] = r]
      /\ running' = Append(running, s) /\ budget' = budget - AdmitChunk(s)
      /\ UNCHANGED <<phase, todo>>
  BY <1>1 DEF Admit, AdmitMatch, AdmitCached, AdmitChunk, AdmitTokens
<1>3. /\ waiting # <<>> /\ s \in DOMAIN seqs /\ s \in Ids /\ s \in Range(waiting)
      /\ seqs[s] \in Requests /\ PromptLen(s) \in Nat
      /\ AdmitCached(s) \in Nat /\ AdmitChunk(s) \in 1..budget
  BY <1>2, <1>1, AdmitFacts
<1>4. budget \in Nat /\ budget >= 1 /\ phase = "admit"
  BY <1>2, SchedulerAssumption DEF IInv, RequestsInv, AdmitTurn
<1>5. \A x \in Range(running) : PrefillDone(x)
  BY <1>4 DEF ChunkInv
<1>6. /\ Range(running') = Range(running) \cup {s} /\ s \notin Range(running)
      /\ \A x \in Range(running) : x < s /\ x \in DOMAIN seqs /\ x \in Nat
      /\ s \in Nat
  <2>1. s \notin Range(running) /\ Queue(running, Ids) /\ Ids \in SUBSET Nat
        /\ Range(running) \subseteq Ids /\ Ids = DOMAIN seqs
    BY <1>3, LineFacts
  <2>2. Range(running') = Range(running) \cup {s}
    BY <1>2, <1>3, <2>1, QueueAtEnd
  <2> QED
    BY <1>3, <2>1, <2>2 DEF LineInv, Ahead
<1>7. /\ Uncached(s) = PromptLen(s) - AdmitCached(s) /\ n = AdmitCached(s) + AdmitChunk(s)
      /\ AdmitChunk(s) = IF Uncached(s) < budget THEN Uncached(s) ELSE budget
      /\ ChunkedPrefill \/ Uncached(s) <= budget
  BY <1>2 DEF Uncached, AdmitCached, AdmitMatch, AdmitChunk, AdmitTokens, AdmitFits
<1>8. n \in Nat /\ (n = PromptLen(s) \/ budget' = 0) /\ (~ChunkedPrefill => n = PromptLen(s))
  <2> DEFINE c == AdmitCached(s)
             k == AdmitChunk(s)
             u == Uncached(s)
             l == PromptLen(s)
  <2>1. /\ c \in Nat /\ l \in Nat /\ k \in Nat /\ u = l - c /\ n = c + k
        /\ k = (IF u < budget THEN u ELSE budget) /\ budget' = budget - k
        /\ ChunkedPrefill \/ u <= budget
    BY <1>2, <1>3, <1>4, <1>7
  <2> HIDE DEF c, k, u, l, n
  <2>2. CASE u < budget
    BY <2>1, <2>2 DEF l
  <2>3. CASE ~(u < budget)
    <3>1. k = budget /\ budget' = 0 /\ (~ChunkedPrefill => u = budget)
      BY <1>4, <2>1, <2>3
    <3> QED
      BY <1>4, <2>1, <3>1 DEF l
  <2> QED
    BY <2>2, <2>3
<1> HIDE DEF n
<1>9. r.prompt = seqs[s].prompt /\ r.prefilled = n
  BY <1>3 DEF Requests
<1> HIDE DEF r
<1>10. seqs'[s] = r
  BY <1>2, <1>3
<1>11. (PrefillDone(s)' \/ budget' = 0) /\ (~ChunkedPrefill => PrefillDone(s)')
  BY <1>3, <1>8, <1>9, <1>10 DEF PrefillDone, PromptLen
<1>12. \A x \in Range(running) : PrefillDone(x)'
  <2>1. \A x \in DOMAIN seqs : x # s => (PrefillDone(x)' <=> PrefillDone(x))
    BY <1>2, <1>3, OtherPrefill
  <2> QED
    BY <1>5, <1>6, <2>1
<1>13. \A x, t \in Range(running') : ~PrefillDone(x)' => t <= x
  <2> SUFFICES ASSUME NEW x \in Range(running'), NEW t \in Range(running'), ~PrefillDone(x)'
               PROVE  t <= x
    OBVIOUS
  <2>1. x = s
    BY <1>6, <1>12
  <2> QED
    BY <1>6, <2>1
<1>14. \A x \in Range(running') : PrefillDone(x)' \/ budget' = 0
  BY <1>6, <1>11, <1>12
<1>15. ~ChunkedPrefill => \A x \in Range(running') : PrefillDone(x)'
  BY <1>6, <1>11, <1>12
<1> QED
  BY <1>2, <1>4, <1>13, <1>14, <1>15 DEF ChunkInv

\* Requests keep arrival times of the clock, and are preempted by recomputation.
InOrder == Arrivals = "clock" /\ PreemptionMode = "recompute"

OrderInv == LineInv /\ ChunkInv

\* Who is preempted while the decodes are scheduled: the newest running request.
LEMMA VictimIsNewest ==
  ASSUME IInv, LineInv, NEW s \in Range(running), NEW v \in DOMAIN seqs, IsVictim(v, s)
  PROVE  v \in Range(running) /\ \A t \in Range(running) : t <= v
<1>1. /\ ToSet(running) = Range(running) /\ Range(running) \subseteq Ids
      /\ \A a, b \in Ids : Before(a, b) <=> a < b
      /\ \A x \in Range(running) : ~IsFinished(x) /\ x \in Nat
  BY LineFacts, QueueMembers
<1> DEFINE others == {t \in ToSet(running) : t # s /\ ~IsFinished(t)}
           newer  == {t \in others : Before(s, t)}
<1>2. \A t \in Range(running) : t \in newer \/ t <= s
  BY <1>1
<1>3. \A t \in newer : t \in Range(running) /\ s < t
  BY <1>1
<1>4. \/ newer = {} /\ v = s
      \/ v \in newer /\ \A t \in newer : t = v \/ Before(t, v)
  BY DEF IsVictim
<1> HIDE DEF newer
<1>5. CASE newer = {} /\ v = s
  BY <1>2, <1>5
<1>6. CASE v \in newer /\ \A t \in newer : t = v \/ Before(t, v)
  <2>1. v \in Range(running) /\ s < v
    BY <1>3, <1>6
  <2>2. ASSUME NEW t \in Range(running) PROVE t <= v
    <3>1. CASE t \in newer
      BY <1>1, <1>6, <2>1, <3>1
    <3>2. CASE t <= s
      BY <1>1, <2>1, <3>2
    <3> QED
      BY <1>2, <3>1, <3>2
  <2> QED
    BY <2>1, <2>2
<1> QED
  BY <1>4, <1>5, <1>6

\* The newest running request is preempted.
LEMMA PreemptKeepsOrder ==
  ASSUME InOrder, IInv, OrderInv, NEW v \in Range(running),
         \A t \in Range(running) : t <= v, Preempt(v), UNCHANGED <<phase, budget>>,
         todo' = todo \/ (todo # <<>> /\ v = Head(todo) /\ todo' = Tail(todo))
  PROVE  OrderInv'
<1>1. LineInv'
  BY PreemptKeepsLine DEF InOrder, OrderInv
<1>2. Range(running') = Range(running) \ {v} /\ v \in DOMAIN seqs
      /\ Range(running) \subseteq DOMAIN seqs
  BY QueueWithout, LineFacts DEF Preempt, OrderInv
<1> DEFINE r == Preempted(seqs[v])
<1>3. seqs' = [seqs EXCEPT ![v] = r]
  BY DEF Preempt
<1> HIDE DEF r
<1>4. \A x \in Range(running') : PrefillDone(x)' <=> PrefillDone(x)
  BY <1>2, <1>3, OtherPrefill
<1>5. todo' \in Seq(Nat) /\ \A x \in Range(running') : x \in Range(todo) => x \in Range(todo')
  <2>1. todo \in Seq(Nat)
    BY DEF OrderInv, ChunkInv
  <2> QED
    BY <1>2, <2>1, TodoHead
<1>6. ChunkInv'
  BY <1>2, <1>4, <1>5, NoneJoinsKeepsChunks DEF OrderInv
<1> QED
  BY <1>1, <1>6 DEF OrderInv

\* A step of the scheduler, or a call, keeps the line and the order of the prefills.
LEMMA NextKeepsOrder ==
  ASSUME InOrder, IInv, OrderInv, Next
  PROVE  OrderInv'
<1>1. LineInv /\ ChunkInv /\ todo \in Seq(Nat)
  BY DEF OrderInv, ChunkInv
<1>2. /\ Queue(running, Ids) /\ Range(running) \subseteq DOMAIN seqs /\ Ids = DOMAIN seqs
      /\ \A x : Contains(running, x) <=> x \in Range(running)
  BY <1>1, LineFacts, QueueMembers
<1>3. ASSUME NEW p, NEW m, NEW a, AddRequest(p, m, a) PROVE OrderInv'
  <2>1. LineInv'
    BY <1>1, <1>3, AddRequestKeepsLine DEF InOrder
  <2>2. \A x \in Range(running) : PrefillDone(x)' <=> PrefillDone(x)
    <3>1. \A x \in DOMAIN seqs : seqs'[x] = seqs[x]
      BY <1>3 DEF AddRequest, IInv, RequestsInv
    <3> QED
      BY <1>2, <3>1 DEF PrefillDone, PromptLen
  <2>3. ChunkInv'
    BY <1>1, <1>3, <2>2, NoneJoinsKeepsChunks DEF AddRequest
  <2> QED
    BY <2>1, <2>3 DEF OrderInv
<1>4. ASSUME NEW s \in DOMAIN seqs, NEW st \in Statuses,
             seqs' = [seqs EXCEPT ![s].status = st], running' = Without(running, {s}),
             waiting' = waiting \/ waiting' = Without(waiting, {s}),
             swapped' = swapped \/ swapped' = Without(swapped, {s}),
             UNCHANGED <<phase, todo, budget>>
      PROVE  OrderInv'
  <2> DEFINE r == [seqs[s] EXCEPT !.status = st]
  <2>1. /\ seqs' = [seqs EXCEPT ![s] = r] /\ r.arrival = seqs[s].arrival
        /\ r.prompt = seqs[s].prompt /\ r.prefilled = seqs[s].prefilled
    BY <1>4, RequestFacts DEF IInv, Requests
  <2> HIDE DEF r
  <2>2. LineInv'
    BY <1>1, <1>4, <2>1, LeavingKeepsLine
  <2>3. Range(running') \subseteq Range(running)
    <3>1. Range(Without(running, {s})) = Range(running) \ {s}
      BY <1>2, QueueWithout
    <3> QED
      BY <1>4, <3>1
  <2>4. \A x \in Range(running') : PrefillDone(x)' <=> PrefillDone(x)
    BY <1>2, <2>1, <2>3, SamePrefill
  <2>5. ChunkInv'
    BY <1>1, <1>4, <2>3, <2>4, NoneJoinsKeepsChunks
  <2> QED
    BY <2>2, <2>5 DEF OrderInv
<1>5. ASSUME NEW s \in DOMAIN seqs, FinishEarly(s) \/ Abort(s) PROVE OrderInv'
  <2>1. CASE FinishEarly(s)
    BY <1>4, <2>1 DEF FinishEarly, Statuses
  <2>2. CASE Abort(s)
    BY <1>4, <2>2 DEF Abort, Statuses
  <2> QED
    BY <1>5, <2>1, <2>2
<1>6. CASE BeginStep \/ EndDecodes \/ EndResumes \/ EndChunks \/ EndStep
  <2>1. LineInv'
    BY <1>1, <1>6 DEF BeginStep, EndDecodes, EndResumes, EndChunks, EndStep, LineInv
  <2> QED
    BY <1>1, <1>6, <2>1, LoopsKeepChunks DEF OrderInv
<1>7. CASE DecodeSkip \/ ChunkSkip
  <2>1. /\ UNCHANGED <<seqs, waiting, running, swapped, phase, budget>>
        /\ todo # <<>> /\ todo' = Tail(todo)
    BY <1>7 DEF DecodeSkip, ChunkSkip, InLoop
  <2>2. LineInv'
    BY <1>1, <2>1 DEF LineInv
  <2>3. \A x \in Range(running') : PrefillDone(x)' <=> PrefillDone(x)
    BY <2>1 DEF PrefillDone, PromptLen
  <2>4. /\ todo' \in Seq(Nat)
        /\ \A x \in Range(todo) : x = Head(todo) \/ x \in Range(todo')
    BY <1>1, <2>1, TodoHead
  <2>5. ASSUME phase = "chunk", NEW x \in Range(running), x = Head(todo)
        PROVE  PrefillDone(x) \/ budget = 0
    <3>1. ChunkSkip
      BY <1>7, <2>5 DEF DecodeSkip, InLoop
    <3>2. StillRunning(x)
      BY <1>1, <1>2, <2>5 DEF StillRunning, LineInv
    <3> SUFFICES ASSUME ~PrefillDone(x) PROVE budget = 0
      OBVIOUS
    <3>3. Chunk(x) = 0 /\ ChunkedPrefill
      BY <1>1, <2>5, <3>1, <3>2 DEF ChunkSkip, ChunkInv
    <3>4. /\ PromptLen(x) \in Nat /\ seqs[x].prefilled \in Nat /\ budget \in Nat
          /\ RemainingPrefill(x) = PromptLen(x) - seqs[x].prefilled
      BY <1>2, RequestFacts, SchedulerAssumption
         DEF IInv, RequestsInv, RemainingPrefill, NonNegative, PrefillDone
    <3>5. RemainingPrefill(x) > 0 /\ RemainingPrefill(x) \in Nat
      BY <3>4 DEF PrefillDone
    <3> QED
      BY <3>3, <3>4, <3>5 DEF Chunk
  <2>6. ChunkInv'
    BY <1>1, <2>1, <2>3, <2>4, <2>5, NoneJoinsKeepsChunks
  <2> QED
    BY <2>2, <2>6 DEF OrderInv
<1>8. CASE DecodePreempt
  <2>1. PICK s, v \in DOMAIN seqs :
          /\ DecodeTurn(s) /\ IsVictim(v, s) /\ Preempt(v) /\ UNCHANGED <<phase, budget>>
          /\ todo' = IF v = s THEN Tail(todo) ELSE todo
    BY <1>8 DEF DecodePreempt
  <2>2. s \in Range(running) /\ todo # <<>> /\ s = Head(todo)
    BY <1>2, <2>1 DEF DecodeTurn, StillRunning, InLoop
  <2>3. v \in Range(running) /\ \A t \in Range(running) : t <= v
    BY <1>1, <2>1, <2>2, VictimIsNewest
  <2>4. todo' = todo \/ (todo # <<>> /\ v = Head(todo) /\ todo' = Tail(todo))
    <3>1. todo' = IF v = s THEN Tail(todo) ELSE todo
      BY <2>1
    <3>2. CASE v = s
      BY <2>2, <3>1, <3>2
    <3>3. CASE v # s
      BY <3>1, <3>3
    <3> QED
      BY <3>2, <3>3
  <2>5. Preempt(v) /\ UNCHANGED <<phase, budget>>
    BY <2>1
  <2> QED
    BY <2>3, <2>4, <2>5, PreemptKeepsOrder
<1>9. CASE ChunkPreempt
  <2>1. PICK s \in DOMAIN seqs :
          ChunkTurn(s) /\ Preempt(s) /\ UNCHANGED <<phase, budget>> /\ todo' = Tail(todo)
    BY <1>9 DEF ChunkPreempt
  <2>2. /\ s \in Range(running) /\ todo # <<>> /\ s = Head(todo)
        /\ \A t \in Range(running) : t <= s
    BY <1>1, <1>2, <2>1 DEF ChunkTurn, StillRunning, InLoop, ChunkInv
  <2> QED
    BY <2>1, <2>2, PreemptKeepsOrder
<1>10. CASE DecodeToken
  <2>1. PICK s \in DOMAIN seqs :
          LET done == seqs[s].generated + 1 >= seqs[s].max
          IN /\ DecodeTurn(s) /\ todo' = Tail(todo)
             /\ seqs' = [seqs EXCEPT ![s].generated = @ + 1,
                                     ![s].status = IF done THEN "finished" ELSE @]
             /\ running' = IF done THEN Without(running, {s}) ELSE running
             /\ UNCHANGED <<waiting, swapped, phase>>
    BY <1>10 DEF DecodeToken
  <2> DEFINE done == seqs[s].generated + 1 >= seqs[s].max
             st   == IF done THEN "finished" ELSE seqs[s].status
             r    == [seqs[s] EXCEPT !.generated = seqs[s].generated + 1, !.status = st]
  <2>2. /\ s \in Range(running) /\ seqs[s].status = "running" /\ phase = "decode"
        /\ todo # <<>>
    BY <1>2, <2>1 DEF DecodeTurn, StillRunning, InLoop
  <2>3. /\ seqs' = [seqs EXCEPT ![s] = r] /\ r.arrival = seqs[s].arrival /\ r.status = st
        /\ r.prompt = seqs[s].prompt /\ r.prefilled = seqs[s].prefilled
    BY <2>1, RequestFacts DEF IInv, Requests
  <2> HIDE DEF r
  <2>4. LineInv'
    <3>1. CASE done
      BY <1>1, <2>1, <2>3, <3>1, LeavingKeepsLine
    <3>2. CASE ~done
      BY <1>1, <2>1, <2>2, <2>3, <3>2, StayingKeepsLine
    <3> QED
      BY <3>1, <3>2
  <2>5. Range(running') \subseteq Range(running)
    <3>1. Range(Without(running, {s})) = Range(running) \ {s}
      BY <1>2, QueueWithout
    <3> QED
      BY <2>1, <3>1
  <2>6. \A x \in Range(running') : PrefillDone(x)' <=> PrefillDone(x)
    BY <1>2, <2>3, <2>5, SamePrefill
  <2>7. todo' \in Seq(Nat)
    BY <1>1, <2>1, <2>2, TodoHead
  <2>8. ChunkInv'
    BY <1>1, <2>1, <2>2, <2>5, <2>6, <2>7, NoneJoinsKeepsChunks
  <2> QED
    BY <2>4, <2>8 DEF OrderInv
<1>11. CASE ChunkContinue
  <2>1. PICK s \in DOMAIN seqs :
          /\ ChunkTurn(s) /\ seqs' = [seqs EXCEPT ![s].prefilled = @ + Chunk(s)]
          /\ UNCHANGED <<waiting, running, swapped>>
    BY <1>11 DEF ChunkContinue
  <2> DEFINE r == [seqs[s] EXCEPT !.prefilled = @ + Chunk(s)]
  <2>2. /\ seqs' = [seqs EXCEPT ![s] = r] /\ r.arrival = seqs[s].arrival
        /\ r.status = "running"
    BY <2>1, RequestFacts DEF IInv, Requests, ChunkTurn, StillRunning
  <2> HIDE DEF r
  <2>3. LineInv'
    BY <1>1, <2>1, <2>2, StayingKeepsLine
  <2> QED
    BY <1>1, <1>11, <2>3, ChunkContinueKeepsChunks DEF OrderInv
<1>12. CASE Admit
  <2> DEFINE s == Head(waiting)
             r == [seqs[s] EXCEPT !.status = "running", !.cached = AdmitCached(s),
                                  !.prefilled = AdmitTokens(s)]
  <2>1. /\ waiting # <<>> /\ waiting' = Tail(waiting) /\ swapped' = swapped
        /\ seqs' = [seqs EXCEPT ![s] = r] /\ running' = Append(running, s)
    BY <1>12 DEF Admit, AdmitTurn, AdmitMatch, AdmitCached, AdmitChunk, AdmitTokens
  <2>2. seqs[s] \in Requests
    BY <2>1, QueueHead, StatusFacts DEF IInv, QueuesInv, Ids
  <2>3. r.status = "running" /\ r.arrival = seqs[s].arrival /\ s = Head(waiting)
    BY <2>2 DEF Requests
  <2> HIDE DEF s, r
  <2>4. LineInv'
    BY <1>1, <2>1, <2>3, AdmitKeepsLine
  <2> QED
    BY <1>1, <1>12, <2>4, AdmitKeepsChunks DEF OrderInv
<1>13. ~ResumeSwapped
  BY <1>1 DEF ResumeSwapped, LineInv
<1> QED
  BY <1>3, <1>5, <1>6, <1>7, <1>8, <1>9, <1>10, <1>11, <1>12, <1>13 DEF Next, Step

\* The line is empty at first.
LEMMA InitOrder == Init => OrderInv
<1> SUFFICES ASSUME Init PROVE OrderInv
  OBVIOUS
<1>1. Range(running) = {} /\ DOMAIN running = {} /\ DOMAIN waiting = {} /\ DOMAIN seqs = {}
  BY DEF Init, Range
<1>2. LineInv
  BY <1>1 DEF Init, LineInv, Sorted, Ahead
<1>3. ChunkInv
  BY <1>1 DEF Init, ChunkInv
<1> QED
  BY <1>2, <1>3 DEF OrderInv

\* It stays as it is when nothing happens.
LEMMA SameOrder == ASSUME OrderInv, UNCHANGED vars PROVE OrderInv'
<1>1. \A x : PrefillDone(x)' <=> PrefillDone(x)
  BY DEF vars, PrefillDone, PromptLen
<1>2. LineInv'
  BY DEF vars, OrderInv, LineInv
<1>3. ChunkInv'
  BY <1>1 DEF vars, OrderInv, ChunkInv
<1> QED
  BY <1>2, <1>3 DEF OrderInv

\* The line is ordered in every reachable state.
LEMMA AlwaysOrderInv == InOrder => (Spec => [](IInv /\ OrderInv))
<1> SUFFICES ASSUME InOrder PROVE Spec => [](IInv /\ OrderInv)
  OBVIOUS
<1>1. IInv /\ OrderInv /\ [Next]_vars => OrderInv'
  BY NextKeepsOrder, SameOrder
<1> QED
  BY <1>1, InitOrder, InitKeepsIInv, NextKeepsIInv, PTL DEF Spec

\* First come, first served, for any pool, prompts, budget, number of slots, early
\* finish and cancellation: the requests that run arrived before those that wait, and
\* both queues are in arrival order, through preemption and readmission.
THEOREM AlwaysInArrivalOrder == InOrder => (Spec => []ArrivalOrder)
<1> SUFFICES ASSUME InOrder PROVE Spec => []ArrivalOrder
  OBVIOUS
<1>1. IInv /\ OrderInv => ArrivalOrder
  <2> SUFFICES ASSUME IInv, OrderInv PROVE ArrivalOrder
    OBVIOUS
  <2> DEFINE l == running \o waiting
             n == Len(running)
             m == Len(waiting)
  <2>1. /\ running \in Seq(Ids) /\ waiting \in Seq(Ids) /\ n \in Nat /\ m \in Nat
        /\ DOMAIN running = 1..n /\ DOMAIN waiting = 1..m
        /\ \A s, t \in Ids : Before(s, t) <=> s < t
        /\ Sorted(running) /\ Sorted(waiting) /\ Ahead(running, waiting)
    BY LineFacts DEF OrderInv, LineInv, Queue
  <2>2. /\ DOMAIN l = 1..(n + m)
        /\ \A i \in 1..n : l[i] = running[i] /\ l[i] \in Ids
        /\ \A i \in 1..(n + m) : ~(i <= n) =>
             i - n \in 1..m /\ l[i] = waiting[i - n] /\ l[i] \in Ids
    BY <2>1
  <2> HIDE DEF l
  <2>3. ASSUME NEW i \in 1..(n + m), NEW j \in 1..(n + m), i < j
        PROVE  l[i] \in Ids /\ l[j] \in Ids /\ l[i] < l[j]
    <3>1. CASE i <= n /\ j <= n
      <4>1. i \in 1..n /\ j \in 1..n
        BY <2>1, <3>1
      <4> QED
        BY <2>1, <2>2, <2>3, <4>1 DEF Sorted
    <3>2. CASE i <= n /\ ~(j <= n)
      <4>1. i \in 1..n
        BY <2>1, <3>2
      <4>2. running[i] \in Range(running) /\ waiting[j - n] \in Range(waiting)
        BY <2>1, <2>2, <3>2, <4>1 DEF Range
      <4> QED
        BY <2>1, <2>2, <3>2, <4>1, <4>2 DEF Ahead
    <3>3. CASE ~(i <= n) /\ ~(j <= n)
      <4>1. i - n < j - n
        BY <2>1, <2>3
      <4> QED
        BY <2>1, <2>2, <3>3, <4>1 DEF Sorted
    <3>4. ~(~(i <= n) /\ j <= n)
      BY <2>1, <2>3
    <3> QED
      BY <3>1, <3>2, <3>3, <3>4
  <2> QED
    BY <2>1, <2>2, <2>3 DEF ArrivalOrder, l
<1> QED
  BY <1>1, AlwaysOrderInv, PTL

\* At most one running request is partly prefilled, and it is the newest: a long prompt
\* is never overtaken halfway by a later one.
THEOREM AlwaysOnePartialPrefill == InOrder => (Spec => []OnePartialPrefill)
<1> SUFFICES ASSUME InOrder PROVE Spec => []OnePartialPrefill
  OBVIOUS
<1>1. IInv /\ OrderInv => OnePartialPrefill
  <2> SUFFICES ASSUME IInv, OrderInv, NEW i \in DOMAIN running, ~PrefillDone(running[i])
               PROVE  i = Len(running)
    BY DEF OnePartialPrefill
  <2>1. Ids \in SUBSET Nat /\ Queue(running, Ids) /\ Sorted(running)
    BY LineFacts DEF OrderInv, LineInv
  <2>2. \A x \in Range(running) : x <= running[i]
    BY DEF OrderInv, ChunkInv, Range
  <2> QED
    BY <2>1, <2>2, GreatestIsLast
<1> QED
  BY <1>1, AlwaysOrderInv, PTL

-----------------------------------------------------------------------------
(* The batch of a step *)

Firsts(q) == {q[i][1] : i \in DOMAIN q}

Decoded == Range(out.decodes)
Prefilled == Firsts(out.prefills)
Batch == Decoded \cup Prefilled

OutType ==
  out \in [prefills : Seq(Nat \X Nat), decodes : Seq(Nat),
           preempted : Seq(Nat), finished : Seq(Nat)]

\* What a step scheduled keeps running, unless the step itself finished it; between
\* steps a caller may have ended it.
BatchMembers ==
  /\ OutType
  /\ \A s \in Batch : s \in DOMAIN seqs /\ (s \in Range(running) \/ IsFinished(s))
  /\ phase # "idle" => \A s \in Batch : s \in Range(running) \/ s \in Range(out.finished)
  /\ \A s \in Decoded : s \in Range(running) => PrefillDone(s)

\* The loops meet each request once, in the order of the line.
BatchOrder ==
  /\ phase = "decode" => Prefilled = {} /\ Sorted(todo) /\ Ahead(out.decodes, todo)
  /\ phase = "resume" => Prefilled = {}
  /\ phase = "chunk" => Sorted(todo) /\ Prefilled \cap Range(todo) = {}

BatchInv == BatchMembers /\ BatchOrder

\* An element is appended to a list.
LEMMA AppendRange ==
  ASSUME NEW S, NEW q \in Seq(S), NEW v \in S
  PROVE  Append(q, v) \in Seq(S) /\ Range(Append(q, v)) = Range(q) \cup {v}
<1> DEFINE n == Len(q)
           a == Append(q, v)
<1>1. n \in Nat /\ DOMAIN q = 1..n
  OBVIOUS
<1>2. /\ a \in Seq(S) /\ DOMAIN a = 1..(n + 1) /\ a[n + 1] = v
      /\ \A i \in 1..n : a[i] = q[i]
  OBVIOUS
<1>3. /\ \A i \in 1..(n + 1) : i \in 1..n \/ i = n + 1
      /\ n + 1 \in 1..(n + 1) /\ \A i \in 1..n : i \in 1..(n + 1)
  BY <1>1
<1> HIDE DEF a
<1>4. Range(a) = Range(q) \cup {v}
  BY <1>1, <1>2, <1>3 DEF Range
<1> QED
  BY <1>2, <1>4 DEF a

\* A chunk is appended to the prefills.
LEMMA AppendFirsts ==
  ASSUME NEW q \in Seq(Nat \X Nat), NEW s \in Nat, NEW k \in Nat
  PROVE  /\ Append(q, <<s, k>>) \in Seq(Nat \X Nat)
         /\ Firsts(Append(q, <<s, k>>)) = Firsts(q) \cup {s}
<1> DEFINE n == Len(q)
           v == <<s, k>>
           a == Append(q, v)
<1>1. n \in Nat /\ DOMAIN q = 1..n /\ v \in Nat \X Nat /\ v[1] = s
  OBVIOUS
<1> HIDE DEF v
<1>2. /\ a \in Seq(Nat \X Nat) /\ DOMAIN a = 1..(n + 1) /\ a[n + 1] = v
      /\ \A i \in 1..n : a[i] = q[i]
  BY <1>1
<1>3. /\ \A i \in 1..(n + 1) : i \in 1..n \/ i = n + 1
      /\ n + 1 \in 1..(n + 1) /\ \A i \in 1..n : i \in 1..(n + 1)
  BY <1>1
<1> HIDE DEF a
<1>4. Firsts(a) = Firsts(q) \cup {s}
  <2>1. ASSUME NEW i \in DOMAIN a PROVE a[i][1] \in Firsts(q) \cup {s}
    BY <1>1, <1>2, <1>3 DEF Firsts
  <2>2. ASSUME NEW i \in DOMAIN q PROVE q[i][1] \in Firsts(a)
    <3>1. i \in DOMAIN a /\ a[i] = q[i]
      BY <1>1, <1>2, <1>3
    <3> QED
      BY <3>1 DEF Firsts
  <2>3. s \in Firsts(a)
    <3>1. n + 1 \in DOMAIN a /\ a[n + 1][1] = s
      BY <1>1, <1>2, <1>3
    <3> QED
      BY <3>1 DEF Firsts
  <2>4. Firsts(a) \subseteq Firsts(q) \cup {s}
    BY <2>1 DEF Firsts
  <2>5. Firsts(q) \subseteq Firsts(a)
    BY <2>2 DEF Firsts
  <2> QED
    BY <2>3, <2>4, <2>5
<1> QED
  BY <1>2, <1>4 DEF a, v

\* Nothing of the batch changes.
LEMMA SameBatch ==
  ASSUME BatchMembers, phase # "idle", UNCHANGED <<seqs, running, out>>
  PROVE  BatchMembers' /\ Batch' = Batch /\ Decoded' = Decoded /\ Prefilled' = Prefilled
BY DEF BatchMembers, OutType, Batch, Decoded, Prefilled, IsFinished, PrefillDone, PromptLen

\* A running request that is not in the batch is preempted.
LEMMA PreemptKeepsBatch ==
  ASSUME IInv, LineInv, BatchMembers, NEW v \in Range(running), v \notin Batch, Preempt(v),
         phase' = phase
  PROVE  /\ BatchMembers' /\ Prefilled' = Prefilled /\ out'.decodes = out.decodes
<1>1. v \in DOMAIN seqs /\ v \in Nat /\ Queue(running, Ids)
  BY LineFacts
<1> DEFINE r == Preempted(seqs[v])
<1>2. /\ running' = Without(running, {v}) /\ seqs' = [seqs EXCEPT ![v] = r]
      /\ out' = [out EXCEPT !.preempted = Append(@, v)]
  BY DEF Preempt
<1> HIDE DEF r
<1>3. Range(running') = Range(running) \ {v}
  BY <1>1, <1>2, QueueWithout
<1>4. /\ DOMAIN seqs' = DOMAIN seqs
      /\ \A x \in DOMAIN seqs : x # v => seqs'[x] = seqs[x]
  BY <1>2
<1>5. /\ OutType' /\ out'.decodes = out.decodes /\ out'.prefills = out.prefills
      /\ out'.finished = out.finished
  <2> DEFINE p == Append(out.preempted, v)
  <2>1. out.preempted \in Seq(Nat)
    BY DEF BatchMembers, OutType
  <2>2. p \in Seq(Nat) /\ out' = [out EXCEPT !.preempted = p]
    BY <1>1, <1>2, <2>1, AppendRange
  <2> HIDE DEF p
  <2> QED
    BY <2>2 DEF BatchMembers, OutType
<1>6. Batch' = Batch /\ Decoded' = Decoded /\ Prefilled' = Prefilled
  BY <1>5 DEF Batch, Decoded, Prefilled
<1>7. ASSUME NEW x \in Batch
      PROVE  /\ x \in DOMAIN seqs' /\ (x \in Range(running') \/ IsFinished(x)')
             /\ phase' # "idle" => x \in Range(running') \/ x \in Range(out'.finished)
             /\ x \in Decoded => (x \in Range(running') => PrefillDone(x)')
  <2>1. x # v /\ x \in DOMAIN seqs /\ seqs'[x] = seqs[x]
    BY <1>4 DEF BatchMembers
  <2>2. (IsFinished(x)' <=> IsFinished(x)) /\ (PrefillDone(x)' <=> PrefillDone(x))
    BY <2>1 DEF IsFinished, PrefillDone, PromptLen
  <2> QED
    BY <1>3, <1>4, <1>5, <2>1, <2>2 DEF BatchMembers
<1>8. BatchMembers'
  BY <1>5, <1>6, <1>7 DEF BatchMembers, Batch
<1> QED
  BY <1>5, <1>6, <1>8

\* A decoded request joins the batch.
LEMMA DecodeTokenKeepsBatch ==
  ASSUME IInv, LineInv, ChunkInv, BatchInv, DecodeToken
  PROVE  BatchInv'
<1>1. PICK s \in DOMAIN seqs :
        LET done == seqs[s].generated + 1 >= seqs[s].max
        IN /\ DecodeTurn(s) /\ todo' = Tail(todo) /\ phase' = phase
           /\ seqs' = [seqs EXCEPT ![s].generated = @ + 1,
                                   ![s].status = IF done THEN "finished" ELSE @]
           /\ running' = IF done THEN Without(running, {s}) ELSE running
           /\ out' = [out EXCEPT !.decodes = Append(@, s),
                                 !.finished = IF done THEN Append(@, s) ELSE @]
  BY DEF DecodeToken
<1> DEFINE done == seqs[s].generated + 1 >= seqs[s].max
           st   == IF done THEN "finished" ELSE seqs[s].status
           r    == [seqs[s] EXCEPT !.generated = seqs[s].generated + 1, !.status = st]
           d    == Append(out.decodes, s)
           f    == IF done THEN Append(out.finished, s) ELSE out.finished
<1>2. /\ Queue(running, Ids) /\ s \in Nat /\ s \in Range(running) /\ PrefillDone(s)
      /\ phase = "decode" /\ todo # <<>> /\ s = Head(todo)
  <2>1. Queue(running, Ids) /\ s \in Nat
    BY LineFacts
  <2> QED
    BY <1>1, <2>1, QueueMembers DEF DecodeTurn, StillRunning, InLoop
<1>3. /\ seqs' = [seqs EXCEPT ![s] = r] /\ out' = [out EXCEPT !.decodes = d, !.finished = f]
      /\ r.prompt = seqs[s].prompt /\ r.prefilled = seqs[s].prefilled
      /\ done => r.status = "finished"
  BY <1>1, RequestFacts DEF IInv, Requests
<1>4. /\ d \in Seq(Nat) /\ Range(d) = Decoded \cup {s} /\ f \in Seq(Nat)
      /\ Range(out.finished) \subseteq Range(f) /\ (done => s \in Range(f))
  <2>1. out.decodes \in Seq(Nat) /\ out.finished \in Seq(Nat)
    BY DEF BatchInv, BatchMembers, OutType
  <2>2. d \in Seq(Nat) /\ Range(d) = Decoded \cup {s}
    BY <1>2, <2>1, AppendRange DEF Decoded
  <2>3. /\ Append(out.finished, s) \in Seq(Nat)
        /\ Range(Append(out.finished, s)) = Range(out.finished) \cup {s}
    BY <1>2, <2>1, AppendRange
  <2> QED
    BY <2>1, <2>2, <2>3
<1>5. /\ DOMAIN seqs' = DOMAIN seqs /\ seqs'[s] = r
      /\ \A x \in DOMAIN seqs : x # s => seqs'[x] = seqs[x]
      /\ \A x \in DOMAIN seqs : PrefillDone(x)' <=> PrefillDone(x)
  <2>1. \A x \in DOMAIN seqs : PrefillDone(x)' <=> PrefillDone(x)
    BY <1>3, SamePrefill
  <2> QED
    BY <1>3, <2>1
<1>6. /\ \A x : x # s => (x \in Range(running') <=> x \in Range(running))
      /\ Range(running') \subseteq Range(running)
      /\ s \in Range(running') \/ done
  <2>1. Range(Without(running, {s})) = Range(running) \ {s}
    BY <1>2, QueueWithout
  <2>2. CASE done
    BY <1>1, <2>1, <2>2
  <2>3. CASE ~done
    BY <1>1, <1>2, <2>3
  <2> QED
    BY <2>2, <2>3
<1> HIDE DEF r, d, f, done
<1>7. OutType' /\ out'.decodes = d /\ out'.finished = f /\ out'.prefills = out.prefills
  BY <1>3, <1>4 DEF BatchInv, BatchMembers, OutType
<1>8. Decoded' = Decoded \cup {s} /\ Prefilled' = Prefilled /\ Batch' = Batch \cup {s}
  BY <1>4, <1>7 DEF Decoded, Prefilled, Batch
<1>9. /\ s \in DOMAIN seqs' /\ (s \in Range(running') \/ IsFinished(s)')
      /\ s \in Range(running') \/ s \in Range(out'.finished)
      /\ PrefillDone(s)'
  <2>1. done => IsFinished(s)'
    BY <1>3, <1>5 DEF IsFinished
  <2> QED
    BY <1>2, <1>4, <1>5, <1>6, <1>7, <2>1
<1>10. ASSUME NEW x \in Batch, x # s
       PROVE  /\ x \in DOMAIN seqs' /\ (x \in Range(running') \/ IsFinished(x)')
              /\ x \in Range(running') \/ x \in Range(out'.finished)
              /\ x \in Decoded => (x \in Range(running') => PrefillDone(x)')
  <2>1. x \in DOMAIN seqs /\ seqs'[x] = seqs[x]
    BY <1>5, <1>10 DEF BatchInv, BatchMembers
  <2>2. (IsFinished(x)' <=> IsFinished(x)) /\ (PrefillDone(x)' <=> PrefillDone(x))
    BY <1>5, <2>1 DEF IsFinished
  <2> QED
    BY <1>2, <1>4, <1>5, <1>6, <1>7, <1>10, <2>1, <2>2 DEF BatchInv, BatchMembers
<1>11. BatchMembers'
  BY <1>1, <1>2, <1>7, <1>8, <1>9, <1>10 DEF BatchMembers, Batch
<1>12. BatchOrder'
  <2>1. /\ Sorted(todo) /\ Prefilled = {} /\ Ahead(out.decodes, todo)
    BY <1>2 DEF BatchInv, BatchOrder
  <2>2. /\ Sorted(Tail(todo)) /\ \A y \in Range(Tail(todo)) : y \in Range(todo) /\ s < y
    BY <1>2, <2>1, SortedTail DEF ChunkInv
  <2>3. Ahead(out'.decodes, todo')
    BY <1>1, <1>4, <1>7, <2>1, <2>2 DEF Ahead, Decoded
  <2> QED
    BY <1>1, <1>2, <1>8, <2>1, <2>2, <2>3 DEF BatchOrder
<1> QED
  BY <1>11, <1>12 DEF BatchInv

\* A prompt that goes on joins the batch.
LEMMA ChunkContinueKeepsBatch ==
  ASSUME IInv, LineInv, ChunkInv, BatchInv, ChunkContinue
  PROVE  BatchInv'
<1>1. PICK s \in DOMAIN seqs :
        /\ ChunkTurn(s) /\ seqs' = [seqs EXCEPT ![s].prefilled = @ + Chunk(s)]
        /\ out' = [out EXCEPT !.prefills = Append(@, <<s, Chunk(s)>>)]
        /\ todo' = Tail(todo) /\ UNCHANGED <<running, phase>>
  BY DEF ChunkContinue
<1> DEFINE r == [seqs[s] EXCEPT !.prefilled = @ + Chunk(s)]
           p == Append(out.prefills, <<s, Chunk(s)>>)
<1>2. /\ s \in Nat /\ s \in Range(running) /\ ~PrefillDone(s)
      /\ phase = "chunk" /\ todo # <<>> /\ s = Head(todo) /\ todo \in Seq(Nat)
  <2>1. Queue(running, Ids) /\ s \in Nat
    BY LineFacts
  <2> QED
    BY <1>1, <2>1, QueueMembers DEF ChunkTurn, StillRunning, InLoop, ChunkInv
<1>3. seqs' = [seqs EXCEPT ![s] = r] /\ out' = [out EXCEPT !.prefills = p]
  BY <1>1
<1>4. p \in Seq(Nat \X Nat) /\ Firsts(p) = Prefilled \cup {s}
  <2>1. Chunk(s) \in Nat
    BY RequestFacts, SchedulerAssumption
       DEF IInv, RequestsInv, Chunk, RemainingPrefill, NonNegative
  <2>2. out.prefills \in Seq(Nat \X Nat)
    BY DEF BatchInv, BatchMembers, OutType
  <2> QED
    BY <1>2, <2>1, <2>2, AppendFirsts DEF Prefilled
<1> HIDE DEF r, p
<1>5. /\ DOMAIN seqs' = DOMAIN seqs
      /\ \A x \in DOMAIN seqs : x # s => seqs'[x] = seqs[x]
  BY <1>3
<1>6. OutType' /\ out'.prefills = p /\ out'.finished = out.finished
      /\ out'.decodes = out.decodes
  BY <1>3, <1>4 DEF BatchInv, BatchMembers, OutType
<1>7. Decoded' = Decoded /\ Prefilled' = Prefilled \cup {s} /\ Batch' = Batch \cup {s}
  BY <1>4, <1>6 DEF Decoded, Prefilled, Batch
<1>8. s \notin Decoded
  BY <1>2 DEF BatchInv, BatchMembers
<1>9. ASSUME NEW x \in Batch, x # s
      PROVE  /\ x \in DOMAIN seqs' /\ (x \in Range(running') \/ IsFinished(x)')
             /\ x \in Range(running') \/ x \in Range(out'.finished)
             /\ x \in Decoded => (x \in Range(running') => PrefillDone(x)')
  <2>1. x \in DOMAIN seqs /\ seqs'[x] = seqs[x]
    BY <1>5, <1>9 DEF BatchInv, BatchMembers
  <2>2. (IsFinished(x)' <=> IsFinished(x)) /\ (PrefillDone(x)' <=> PrefillDone(x))
    BY <2>1 DEF IsFinished, PrefillDone, PromptLen
  <2> QED
    BY <1>1, <1>2, <1>5, <1>6, <1>9, <2>1, <2>2 DEF BatchInv, BatchMembers
<1>10. BatchMembers'
  BY <1>1, <1>2, <1>5, <1>6, <1>7, <1>8, <1>9 DEF BatchMembers, Batch
<1>11. BatchOrder'
  <2>1. Sorted(todo) /\ Prefilled \cap Range(todo) = {}
    BY <1>2 DEF BatchInv, BatchOrder
  <2>2. /\ Sorted(Tail(todo)) /\ \A y \in Range(Tail(todo)) : y \in Range(todo) /\ s < y
    BY <1>2, <2>1, SortedTail
  <2>3. Prefilled' \cap Range(todo') = {}
    BY <1>1, <1>2, <1>7, <2>1, <2>2
  <2> QED
    BY <1>1, <1>2, <2>2, <2>3 DEF BatchOrder
<1> QED
  BY <1>10, <1>11 DEF BatchInv

\* An admitted request joins the batch.
LEMMA AdmitKeepsBatch ==
  ASSUME IInv, LineInv, StatusInv, BatchInv, Admit
  PROVE  BatchInv'
<1>1. PICK s : s = Head(waiting)
  OBVIOUS
<1> DEFINE r == [seqs[s] EXCEPT !.status = "running", !.cached = AdmitCached(s),
                                !.prefilled = AdmitTokens(s)]
           p == Append(out.prefills, <<s, AdmitChunk(s)>>)
<1>2. /\ AdmitTurn /\ AdmitFits(s) /\ seqs' = [seqs EXCEPT ![s] = r]
      /\ out' = [out EXCEPT !.prefills = p]
      /\ running' = Append(running, s) /\ UNCHANGED <<phase, todo>>
  BY <1>1 DEF Admit, AdmitMatch, AdmitCached, AdmitChunk, AdmitTokens
<1>3. /\ s \in DOMAIN seqs /\ s \in Nat /\ s \in Ids /\ s \in Range(waiting)
      /\ phase = "admit" /\ AdmitChunk(s) \in Nat
  <2>1. AdmitChunk(s) \in 1..budget /\ budget \in Nat
    BY <1>1, <1>2, AdmitFacts, SchedulerAssumption DEF IInv, RequestsInv
  <2> QED
    BY <1>1, <1>2, <2>1, AdmitFacts DEF AdmitTurn
<1>4. s \notin Range(running) /\ Queue(running, Ids) /\ s \notin Batch
  <2>1. s \notin Range(running) /\ Queue(running, Ids)
    BY <1>3, LineFacts
  <2>2. ~IsFinished(s)
    BY <1>3 DEF StatusInv, IsFinished
  <2> QED
    BY <2>1, <2>2 DEF BatchInv, BatchMembers
<1>5. Range(running') = Range(running) \cup {s}
  BY <1>2, <1>3, <1>4, QueueAtEnd
<1>6. p \in Seq(Nat \X Nat) /\ Firsts(p) = Prefilled \cup {s}
  <2>1. out.prefills \in Seq(Nat \X Nat)
    BY DEF BatchInv, BatchMembers, OutType
  <2> QED
    BY <1>3, <2>1, AppendFirsts DEF Prefilled
<1> HIDE DEF r, p
<1>7. /\ DOMAIN seqs' = DOMAIN seqs
      /\ \A x \in DOMAIN seqs : x # s => seqs'[x] = seqs[x]
  BY <1>2, <1>3
<1>8. OutType' /\ out'.prefills = p /\ out'.finished = out.finished
      /\ out'.decodes = out.decodes
  BY <1>2, <1>6 DEF BatchInv, BatchMembers, OutType
<1>9. Decoded' = Decoded /\ Prefilled' = Prefilled \cup {s} /\ Batch' = Batch \cup {s}
  BY <1>6, <1>8 DEF Decoded, Prefilled, Batch
<1>10. ASSUME NEW x \in Batch
       PROVE  /\ x \in DOMAIN seqs' /\ (x \in Range(running') \/ IsFinished(x)')
              /\ x \in Range(running') \/ x \in Range(out'.finished)
              /\ x \in Decoded => (x \in Range(running') => PrefillDone(x)')
  <2>1. x # s /\ x \in DOMAIN seqs /\ seqs'[x] = seqs[x]
    BY <1>4, <1>7 DEF BatchInv, BatchMembers
  <2>2. (IsFinished(x)' <=> IsFinished(x)) /\ (PrefillDone(x)' <=> PrefillDone(x))
    BY <2>1 DEF IsFinished, PrefillDone, PromptLen
  <2> QED
    BY <1>3, <1>5, <1>7, <1>8, <2>1, <2>2 DEF BatchInv, BatchMembers
<1>11. BatchMembers'
  BY <1>3, <1>4, <1>5, <1>7, <1>8, <1>9, <1>10 DEF BatchMembers, Batch
<1>12. BatchOrder'
  BY <1>2, <1>3 DEF BatchOrder
<1> QED
  BY <1>11, <1>12 DEF BatchInv

\* Nothing joins the batch, and a loop goes on or ends.
LEMMA LoopsKeepBatch ==
  ASSUME IInv, LineInv, ChunkInv, BatchInv,
         DecodeSkip \/ ChunkSkip \/ EndDecodes \/ EndResumes \/ EndChunks \/ EndStep
  PROVE  BatchInv'
<1>1. UNCHANGED <<seqs, running, out>> /\ phase # "idle"
  BY DEF DecodeSkip, ChunkSkip, EndDecodes, EndResumes, EndChunks, EndStep, InLoop
<1>2. BatchMembers' /\ Prefilled' = Prefilled
  BY <1>1, SameBatch DEF BatchInv
<1>3. CASE DecodeSkip \/ ChunkSkip
  <2>1. /\ phase' = phase /\ phase \in {"decode", "chunk"} /\ todo # <<>>
        /\ todo' = Tail(todo) /\ todo \in Seq(Nat)
    BY <1>3 DEF DecodeSkip, ChunkSkip, InLoop, ChunkInv
  <2>2. Sorted(todo)
    BY <2>1 DEF BatchInv, BatchOrder
  <2>3. Sorted(todo') /\ \A x \in Range(todo') : x \in Range(todo)
    BY <2>1, <2>2, SortedTail
  <2>4. CASE phase = "decode"
    BY <1>1, <1>2, <2>1, <2>3, <2>4 DEF BatchInv, BatchOrder, Ahead
  <2>5. CASE phase = "chunk"
    BY <1>1, <1>2, <2>1, <2>3, <2>5 DEF BatchInv, BatchOrder
  <2> QED
    BY <2>1, <2>4, <2>5
<1>4. CASE EndDecodes
  <2>1. phase = "decode" /\ phase' = "resume"
    BY <1>4 DEF EndDecodes
  <2> QED
    BY <1>2, <2>1 DEF BatchInv, BatchOrder
<1>5. CASE EndResumes
  <2>1. phase = "resume" /\ phase' = "chunk" /\ todo' = running
    BY <1>5 DEF EndResumes
  <2> QED
    BY <1>2, <2>1 DEF BatchInv, BatchOrder, LineInv
<1>6. CASE EndChunks \/ EndStep
  <2>1. phase' \in {"admit", "idle"}
    BY <1>6 DEF EndChunks, EndStep
  <2> QED
    BY <1>2, <2>1 DEF BatchInv, BatchOrder
<1> QED
  BY <1>3, <1>4, <1>5, <1>6

\* The victim of a preemption is not in the batch.
LEMMA PreemptionsKeepBatch ==
  ASSUME IInv, LineInv, ChunkInv, BatchInv, DecodePreempt \/ ChunkPreempt
  PROVE  BatchInv'
<1>1. /\ Queue(running, Ids) /\ todo \in Seq(Nat)
      /\ \A x : Contains(running, x) <=> x \in Range(running)
      /\ \A x \in DOMAIN seqs : x \in Nat
  BY LineFacts, QueueMembers DEF ChunkInv
<1>2. CASE DecodePreempt
  <2>1. PICK s, v \in DOMAIN seqs :
          /\ DecodeTurn(s) /\ IsVictim(v, s) /\ Preempt(v) /\ phase' = phase
          /\ todo' = IF v = s THEN Tail(todo) ELSE todo
    BY <1>2 DEF DecodePreempt
  <2>2. s \in Range(running) /\ todo # <<>> /\ s = Head(todo) /\ phase = "decode"
    BY <1>1, <2>1 DEF DecodeTurn, StillRunning, InLoop
  <2>3. v \in Range(running) /\ \A t \in Range(running) : t <= v
    BY <2>1, <2>2, VictimIsNewest
  <2>4. Prefilled = {} /\ Sorted(todo) /\ Ahead(out.decodes, todo)
    BY <2>2 DEF BatchInv, BatchOrder
  <2>5. v \notin Batch
    <3>1. s \in Range(todo)
      BY <1>1, <2>2 DEF Range
    <3>2. \A x \in Decoded : x < s /\ x \in Nat
      BY <1>1, <2>4, <3>1 DEF Ahead, Decoded, Batch, BatchInv, BatchMembers
    <3>3. s <= v /\ s \in Nat /\ v \in Nat
      BY <1>1, <2>2, <2>3
    <3> QED
      BY <2>4, <3>2, <3>3 DEF Batch
  <2>6. BatchMembers' /\ Prefilled' = Prefilled /\ out'.decodes = out.decodes
    BY <2>1, <2>3, <2>5, PreemptKeepsBatch DEF BatchInv
  <2>7. Sorted(todo') /\ \A x \in Range(todo') : x \in Range(todo)
    <3>1. Sorted(Tail(todo)) /\ \A x \in Range(Tail(todo)) : x \in Range(todo)
      BY <1>1, <2>2, <2>4, SortedTail
    <3>2. todo' = Tail(todo) \/ todo' = todo
      BY <2>1
    <3> QED
      BY <2>4, <3>1, <3>2
  <2> QED
    BY <2>1, <2>2, <2>4, <2>6, <2>7 DEF BatchInv, BatchOrder, Ahead
<1>3. CASE ChunkPreempt
  <2>1. PICK s \in DOMAIN seqs :
          ChunkTurn(s) /\ Preempt(s) /\ phase' = phase /\ todo' = Tail(todo)
    BY <1>3 DEF ChunkPreempt
  <2>2. /\ s \in Range(running) /\ todo # <<>> /\ s = Head(todo) /\ phase = "chunk"
        /\ ~PrefillDone(s)
    BY <1>1, <2>1 DEF ChunkTurn, StillRunning, InLoop
  <2>3. Sorted(todo) /\ Prefilled \cap Range(todo) = {}
    BY <2>2 DEF BatchInv, BatchOrder
  <2>4. s \notin Batch
    <3>1. s \in Range(todo)
      BY <1>1, <2>2 DEF Range
    <3> QED
      BY <2>2, <2>3, <3>1 DEF Batch, BatchInv, BatchMembers
  <2>5. BatchMembers' /\ Prefilled' = Prefilled
    BY <2>1, <2>2, <2>4, PreemptKeepsBatch DEF BatchInv
  <2>6. Sorted(Tail(todo)) /\ \A x \in Range(Tail(todo)) : x \in Range(todo)
    BY <1>1, <2>2, <2>3, SortedTail
  <2> QED
    BY <2>1, <2>2, <2>3, <2>5, <2>6 DEF BatchInv, BatchOrder
<1> QED
  BY <1>2, <1>3

\* Between steps the batch is what the last step scheduled.
LEMMA CallsKeepBatch ==
  ASSUME IInv, LineInv, BatchInv, phase = "idle", phase' = "idle", out' = out,
         DOMAIN seqs \subseteq DOMAIN seqs',
         \A x \in DOMAIN seqs :
           \/ /\ seqs'[x].status = seqs[x].status
              /\ x \in Range(running') <=> x \in Range(running)
           \/ IsFinished(x)' /\ x \notin Range(running'),
         \A x \in DOMAIN seqs : PrefillDone(x)' <=> PrefillDone(x)
  PROVE  BatchInv'
<1>1. OutType' /\ Batch' = Batch /\ Decoded' = Decoded
  BY DEF OutType, Batch, Decoded, Prefilled, BatchInv, BatchMembers
<1>2. ASSUME NEW x \in Batch
      PROVE  /\ x \in DOMAIN seqs' /\ (x \in Range(running') \/ IsFinished(x)')
             /\ x \in Decoded => (x \in Range(running') => PrefillDone(x)')
  <2>1. x \in DOMAIN seqs /\ (x \in Range(running) \/ IsFinished(x))
    BY DEF BatchInv, BatchMembers
  <2>2. CASE IsFinished(x)' /\ x \notin Range(running')
    BY <2>1, <2>2
  <2>3. CASE /\ seqs'[x].status = seqs[x].status
             /\ x \in Range(running') <=> x \in Range(running)
    <3>1. IsFinished(x)' <=> IsFinished(x)
      BY <2>3 DEF IsFinished
    <3> QED
      BY <2>1, <2>3, <3>1 DEF BatchInv, BatchMembers
  <2> QED
    BY <2>1, <2>2, <2>3
<1>3. BatchMembers' /\ BatchOrder'
  BY <1>1, <1>2 DEF BatchMembers, BatchOrder, Batch
<1> QED
  BY <1>3 DEF BatchInv

\* A step of the scheduler, or a call, keeps the batch.
LEMMA NextKeepsBatch ==
  ASSUME IInv, LineInv, ChunkInv, StatusInv, BatchInv, Next
  PROVE  BatchInv'
<1>1. Queue(running, Ids) /\ Range(running) \subseteq DOMAIN seqs
  BY LineFacts
<1>2. ASSUME NEW p, NEW m, NEW a, AddRequest(p, m, a) PROVE BatchInv'
  <2>1. /\ phase = "idle" /\ phase' = "idle" /\ out' = out /\ running' = running
        /\ DOMAIN seqs \subseteq DOMAIN seqs' /\ \A x \in DOMAIN seqs : seqs'[x] = seqs[x]
    BY <1>2 DEF AddRequest, IInv, RequestsInv
  <2>2. \A x \in DOMAIN seqs : PrefillDone(x)' <=> PrefillDone(x)
    BY <2>1 DEF PrefillDone, PromptLen
  <2> QED
    BY <2>1, <2>2, CallsKeepBatch
<1>3. ASSUME NEW s \in DOMAIN seqs, NEW st \in {"finished", "aborted"}, phase = "idle",
             phase' = "idle", out' = out,
             seqs' = [seqs EXCEPT ![s].status = st], running' = Without(running, {s})
      PROVE  BatchInv'
  <2> DEFINE r == [seqs[s] EXCEPT !.status = st]
  <2>1. /\ seqs' = [seqs EXCEPT ![s] = r] /\ r.status = st
        /\ r.prompt = seqs[s].prompt /\ r.prefilled = seqs[s].prefilled
    BY <1>3, RequestFacts DEF IInv, Requests
  <2> HIDE DEF r
  <2>2. /\ DOMAIN seqs' = DOMAIN seqs /\ seqs'[s] = r
        /\ \A x \in DOMAIN seqs : x # s => seqs'[x] = seqs[x]
    BY <2>1
  <2>3. \A x \in DOMAIN seqs : PrefillDone(x)' <=> PrefillDone(x)
    BY <2>1, SamePrefill
  <2>4. Range(running') = Range(running) \ {s}
    <3>1. Range(Without(running, {s})) = Range(running) \ {s}
      BY <1>1, QueueWithout
    <3> QED
      BY <1>3, <3>1
  <2>5. IsFinished(s)'
    BY <2>1, <2>2 DEF IsFinished
  <2>6. ASSUME NEW x \in DOMAIN seqs
        PROVE  \/ /\ seqs'[x].status = seqs[x].status
                  /\ x \in Range(running') <=> x \in Range(running)
               \/ IsFinished(x)' /\ x \notin Range(running')
    <3>1. CASE x = s
      BY <2>4, <2>5, <3>1
    <3>2. CASE x # s
      BY <2>2, <2>4, <3>2
    <3> QED
      BY <3>1, <3>2
  <2> QED
    BY <1>3, <2>2, <2>3, <2>6, CallsKeepBatch
<1>4. ASSUME NEW s \in DOMAIN seqs, FinishEarly(s) \/ Abort(s) PROVE BatchInv'
  <2>1. CASE FinishEarly(s)
    BY <1>3, <2>1 DEF FinishEarly
  <2>2. CASE Abort(s)
    BY <1>3, <2>2 DEF Abort
  <2> QED
    BY <1>4, <2>1, <2>2
<1>5. CASE BeginStep
  <2>1. /\ out' = EmptyOut /\ phase' = "decode" /\ todo' = running
    BY <1>5 DEF BeginStep
  <2>2. /\ out'.prefills = <<>> /\ out'.decodes = <<>> /\ OutType'
    BY <2>1 DEF EmptyOut, OutType
  <2>3. Decoded' = {} /\ Prefilled' = {} /\ Batch' = {} /\ Range(out'.decodes) = {}
    BY <2>2 DEF Decoded, Prefilled, Batch, Firsts, Range
  <2>4. BatchMembers'
    BY <2>2, <2>3 DEF BatchMembers
  <2>5. BatchOrder'
    BY <2>1, <2>3 DEF BatchOrder, Ahead, LineInv
  <2> QED
    BY <2>4, <2>5 DEF BatchInv
<1>6. CASE DecodeSkip \/ ChunkSkip \/ EndDecodes \/ EndResumes \/ EndChunks \/ EndStep
  BY <1>6, LoopsKeepBatch
<1>7. CASE DecodePreempt \/ ChunkPreempt
  BY <1>7, PreemptionsKeepBatch
<1>8. CASE DecodeToken
  BY <1>8, DecodeTokenKeepsBatch
<1>9. CASE ChunkContinue
  BY <1>9, ChunkContinueKeepsBatch
<1>10. CASE Admit
  BY <1>10, AdmitKeepsBatch
<1>11. ~ResumeSwapped
  BY DEF ResumeSwapped, LineInv
<1> QED
  BY <1>2, <1>4, <1>5, <1>6, <1>7, <1>8, <1>9, <1>10, <1>11 DEF Next, Step

\* finish() is called for sequences of the last batch only, if at all.
Engine == InOrder /\ EarlyFinish \in {"never", "batch"}

EngineInv == OrderInv /\ StatusInv /\ BatchInv

\* Such a sequence still runs.
LEMMA BatchFinishesRunning ==
  ASSUME Engine, BatchInv
  PROVE  FinishesRunning
<1> SUFFICES ASSUME NEW s \in DOMAIN seqs, FinishEarly(s) PROVE s \in Range(running)
  BY DEF FinishesRunning
<1>1. MayFinish(s) /\ ~IsFinished(s) /\ EarlyFinish = "batch"
  BY DEF FinishEarly, MayFinish, Engine
<1>2. s \in Batch
  <2>1. CASE Contains(out.decodes, s)
    <3>1. out.decodes \in Seq(Nat)
      BY DEF BatchInv, BatchMembers, OutType
    <3>2. s \in Range(out.decodes)
      BY <2>1, <3>1 DEF Contains, Range
    <3> QED
      BY <3>2 DEF Batch, Decoded
  <2>2. CASE \E i \in DOMAIN out.prefills : out.prefills[i][1] = s
    BY <2>2 DEF Batch, Prefilled, Firsts
  <2> QED
    BY <1>1, <2>1, <2>2 DEF MayFinish
<1> QED
  BY <1>1, <1>2 DEF BatchInv, BatchMembers

\* Line, statuses and batch hold together in every reachable state.
LEMMA AlwaysEngineInv == Engine => (Spec => [](IInv /\ EngineInv))
<1> SUFFICES ASSUME Engine PROVE Spec => [](IInv /\ EngineInv)
  OBVIOUS
<1>1. Init => EngineInv
  <2> SUFFICES ASSUME Init PROVE EngineInv
    OBVIOUS
  <2>1. OrderInv
    BY InitOrder
  <2>2. StatusInv
    BY DEF Init, StatusInv
  <2>3. out.prefills = <<>> /\ out.decodes = <<>> /\ OutType
    BY DEF Init, EmptyOut, OutType
  <2>4. Batch = {} /\ Decoded = {}
    BY <2>3 DEF Decoded, Prefilled, Batch, Firsts, Range
  <2>5. BatchInv
    BY <2>3, <2>4 DEF Init, BatchInv, BatchMembers, BatchOrder
  <2> QED
    BY <2>1, <2>2, <2>5 DEF EngineInv
<1>2. IInv /\ EngineInv /\ [Next]_vars => EngineInv'
  <2>1. ASSUME IInv, EngineInv, Next PROVE EngineInv'
    <3>1. InOrder /\ LineInv /\ ChunkInv /\ OrderInv /\ StatusInv /\ BatchInv
      BY <2>1 DEF Engine, EngineInv, OrderInv
    <3>2. OrderInv' /\ BatchInv'
      BY <2>1, <3>1, NextKeepsOrder, NextKeepsBatch
    <3>3. StatusInv'
      BY <2>1, <3>1, BatchFinishesRunning, NextKeepsStatus
    <3> QED
      BY <3>2, <3>3 DEF EngineInv
  <2>2. ASSUME EngineInv, UNCHANGED vars PROVE EngineInv'
    <3>1. OrderInv'
      BY <2>2, SameOrder DEF EngineInv
    <3>2. StatusInv'
      BY <2>2 DEF vars, EngineInv, StatusInv
    <3>3. BatchMembers'
      BY <2>2 DEF vars, EngineInv, BatchInv, BatchMembers, OutType, Batch, Decoded, Prefilled,
                  IsFinished, PrefillDone, PromptLen
    <3>4. BatchOrder'
      BY <2>2 DEF vars, EngineInv, BatchInv, BatchOrder, Prefilled
    <3> QED
      BY <3>1, <3>2, <3>3, <3>4 DEF EngineInv, BatchInv
  <2> QED
    BY <2>1, <2>2
<1> QED
  BY <1>1, <1>2, InitKeepsIInv, NextKeepsIInv, PTL DEF Spec

-----------------------------------------------------------------------------
(* Queues, ends and batches *)

\* finish() is not called, or for the batch that came back.
EndsInBatch == EarlyFinish = "never" \/ Engine

\* Queues and statuses agree, and an end is final.
LEMMA AlwaysMatching == EndsInBatch => (Spec => [](IInv /\ StatusInv) /\ [][EndsKept]_vars)
<1> SUFFICES ASSUME EndsInBatch PROVE Spec => [](IInv /\ StatusInv) /\ [][EndsKept]_vars
  OBVIOUS
<1>1. CASE EarlyFinish = "never"
  <2>1. IInv /\ StatusInv /\ [Next]_vars => [EndsKept]_vars
    BY <1>1, NeverFinishes, NextKeepsStatus
  <2>2. Spec => [](IInv /\ StatusInv)
    BY <1>1, AlwaysStatusInv
  <2> QED
    BY <2>1, <2>2, PTL DEF Spec
<1>2. CASE Engine
  <2>1. IInv /\ EngineInv /\ [Next]_vars => [EndsKept]_vars
    BY <1>2, BatchFinishesRunning, NextKeepsStatus DEF EngineInv
  <2>2. EngineInv => StatusInv
    BY DEF EngineInv
  <2>3. Spec => [](IInv /\ EngineInv)
    BY <1>2, AlwaysEngineInv
  <2> QED
    BY <2>1, <2>2, <2>3, PTL DEF Spec
<1> QED
  BY <1>1, <1>2 DEF EndsInBatch

\* "A request is in exactly one queue, the one its status says": whatever is
\* preempted, resumed, admitted, completed, stopped in its batch or aborted.
THEOREM QueuesAlwaysMatch == EndsInBatch => (Spec => []QueuesMatchStatus)
<1> SUFFICES ASSUME EndsInBatch PROVE Spec => []QueuesMatchStatus
  OBVIOUS
<1>1. IInv /\ StatusInv => QueuesMatchStatus
  BY StatusMatches
<1>2. Spec => [](IInv /\ StatusInv)
  BY AlwaysMatching
<1> QED
  BY <1>1, <1>2, PTL

\* Finished and aborted are final.  With swap preemption and a finish() for a request
\* that was swapped out they are not: it is resumed.
THEOREM EndsAreFinal == EndsInBatch => (Spec => EndedStaysEnded)
<1> SUFFICES ASSUME EndsInBatch PROVE Spec => EndedStaysEnded
  OBVIOUS
<1>1. Spec => [][EndsKept]_vars
  BY AlwaysMatching
<1>2. [EndsKept]_vars => [\A s \in DOMAIN seqs : IsFinished(s) =>
                            seqs'[s].status = seqs[s].status]_vars
  BY DEF EndsKept
<1> QED
  BY <1>1, <1>2, PTL DEF EndedStaysEnded

\* "The batch to run for one engine step": what a step schedules still has its blocks
\* when the step returns, unless the step itself finished it.
THEOREM BatchAlwaysKeepsItsBlocks == Engine => (Spec => []BatchKeepsItsBlocks)
<1> SUFFICES ASSUME Engine PROVE Spec => []BatchKeepsItsBlocks
  OBVIOUS
<1>1. IInv /\ EngineInv => BatchKeepsItsBlocks
  <2> SUFFICES ASSUME IInv, EngineInv, phase = "admit", NEW i \in DOMAIN Scheduled
               PROVE  Contains(running, Scheduled[i]) \/ Contains(out.finished, Scheduled[i])
    BY DEF BatchKeepsItsBlocks
  <2> DEFINE q == out.decodes
             p == out.prefills
             f == [j \in DOMAIN p |-> p[j][1]]
  <2>1. /\ q \in Seq(Nat) /\ p \in Seq(Nat \X Nat) /\ out.finished \in Seq(Nat)
        /\ \A s \in Batch : s \in Range(running) \/ s \in Range(out.finished)
    BY DEF EngineInv, BatchInv, BatchMembers, OutType
  <2>2. f \in Seq(Nat) /\ Range(f) = Prefilled
    <3> HIDE DEF p
    <3>1. DOMAIN p = 1..Len(p) /\ Len(p) \in Nat /\ \A j \in 1..Len(p) : p[j][1] \in Nat
      BY <2>1
    <3>2. f \in [1..Len(p) -> Nat]
      BY <3>1
    <3>3. f \in Seq(Nat) /\ DOMAIN f = DOMAIN p /\ \A j \in DOMAIN p : f[j] = p[j][1]
      BY <3>1, <3>2
    <3> HIDE DEF f
    <3>4. Range(f) = Firsts(p)
      BY <3>3 DEF Range, Firsts
    <3> QED
      BY <3>3, <3>4 DEF Prefilled, p
  <2> HIDE DEF f
  <2>3. Range(q \o f) = Batch
    BY <2>1, <2>2, RangeConcat DEF Batch, Decoded
  <2>4. Scheduled = q \o f
    BY DEF Scheduled, f
  <2>5. Scheduled[i] \in Batch
    BY <2>3, <2>4 DEF Range
  <2>6. Queue(running, Ids)
    BY DEF IInv, QueuesInv
  <2>7. CASE Scheduled[i] \in Range(running)
    BY <2>6, <2>7, QueueMembers
  <2>8. CASE Scheduled[i] \in Range(out.finished)
    BY <2>1, <2>8 DEF Contains, Range
  <2> QED
    BY <2>1, <2>5, <2>7, <2>8
<1> QED
  BY <1>1, AlwaysEngineInv, PTL

-----------------------------------------------------------------------------
(* What the requests have computed *)

\* Without chunking a request that runs, or ran before it was swapped out, has its
\* whole prompt; with swap preemption one that waits has computed nothing.
PrefillInv ==
  /\ ~ChunkedPrefill => \A s \in Range(running) \cup Range(swapped) : PrefillDone(s)
  /\ PreemptionMode = "swap" => \A s \in Range(waiting) : seqs[s].prefilled = 0

\* With swap preemption no computed token is lost.
Progress ==
  PreemptionMode = "swap" =>
    \A s \in DOMAIN seqs : /\ seqs'[s].prefilled >= seqs[s].prefilled
                           /\ seqs'[s].generated >= seqs[s].generated

\* No request changes, and none joins a queue.
LEMMA NoChangeKeepsPrefill ==
  ASSUME IInv, PrefillInv, \A s \in DOMAIN seqs : seqs'[s] = seqs[s],
         Range(running') \cup Range(swapped') \subseteq Range(running) \cup Range(swapped),
         \A s \in Range(waiting') : s \in Range(waiting) \/ seqs'[s].prefilled = 0
  PROVE  PrefillInv' /\ Progress
<1>1. /\ Range(waiting) \subseteq DOMAIN seqs /\ Range(running) \subseteq DOMAIN seqs
      /\ Range(swapped) \subseteq DOMAIN seqs
  BY QueueIds
<1>2. \A s \in DOMAIN seqs : PrefillDone(s)' <=> PrefillDone(s)
  BY DEF PrefillDone, PromptLen
<1>3. \A s \in DOMAIN seqs : seqs[s].prefilled >= seqs[s].prefilled
                             /\ seqs[s].generated >= seqs[s].generated
  BY RequestFacts DEF IInv
<1>4. Progress
  BY <1>3 DEF Progress
<1>5. PrefillInv'
  BY <1>1, <1>2 DEF PrefillInv
<1> QED
  BY <1>4, <1>5

\* One request changes, and at most it moves between the queues.
LEMMA OneChangeKeepsPrefill ==
  ASSUME IInv, PrefillInv, NEW s \in DOMAIN seqs, NEW r, seqs' = [seqs EXCEPT ![s] = r],
         Range(running') \cup Range(swapped')
           \subseteq Range(running) \cup Range(swapped) \cup {s},
         Range(waiting') \subseteq Range(waiting) \cup {s},
         ~ChunkedPrefill /\ s \in Range(running') \cup Range(swapped') =>
           r.prefilled >= Len(r.prompt),
         PreemptionMode = "swap" =>
           /\ s \in Range(waiting') => r.prefilled = 0
           /\ r.prefilled >= seqs[s].prefilled /\ r.generated >= seqs[s].generated
  PROVE  PrefillInv' /\ Progress
<1>1. /\ Range(waiting) \subseteq DOMAIN seqs /\ Range(running) \subseteq DOMAIN seqs
      /\ Range(swapped) \subseteq DOMAIN seqs
  BY QueueIds
<1>2. /\ seqs'[s] = r /\ \A x \in DOMAIN seqs : x # s => seqs'[x] = seqs[x]
  OBVIOUS
<1>3. /\ \A x \in DOMAIN seqs : x # s => (PrefillDone(x)' <=> PrefillDone(x))
      /\ PrefillDone(s)' <=> r.prefilled >= Len(r.prompt)
  BY <1>2 DEF PrefillDone, PromptLen
<1>4. \A x \in DOMAIN seqs : seqs[x].prefilled >= seqs[x].prefilled
                             /\ seqs[x].generated >= seqs[x].generated
  BY RequestFacts DEF IInv
<1>5. Progress
  BY <1>2, <1>4 DEF Progress
<1>6. ~ChunkedPrefill => \A x \in Range(running') \cup Range(swapped') : PrefillDone(x)'
  BY <1>1, <1>3 DEF PrefillInv
<1>7. PreemptionMode = "swap" => \A x \in Range(waiting') : seqs'[x].prefilled = 0
  BY <1>1, <1>2 DEF PrefillInv
<1> QED
  BY <1>5, <1>6, <1>7 DEF PrefillInv

\* A running request is preempted.
LEMMA PreemptKeepsPrefill ==
  ASSUME IInv, PrefillInv, NEW v \in Range(running), Preempt(v)
  PROVE  PrefillInv' /\ Progress
<1> DEFINE r == Preempted(seqs[v])
<1>1. /\ running' = Without(running, {v}) /\ seqs' = [seqs EXCEPT ![v] = r]
      /\ PreemptionMode = "swap" => swapped' = Append(swapped, v) /\ waiting' = waiting
      /\ PreemptionMode # "swap" => waiting' = Requeued(v, waiting) /\ swapped' = swapped
  BY DEF Preempt, Requeued
<1>2. /\ Queue(running, Ids) /\ Queue(swapped, Ids) /\ Queue(waiting, Ids) /\ v \in Ids
      /\ v \notin Range(waiting) /\ v \notin Range(swapped) /\ v \in DOMAIN seqs
      /\ seqs[v] \in Requests
  BY QueueIds, StatusFacts DEF Ids
<1>3. /\ seqs[v].prefilled \in Nat /\ seqs[v].generated \in Nat
      /\ seqs[v].prefilled >= seqs[v].prefilled /\ seqs[v].generated >= seqs[v].generated
  BY <1>2 DEF Requests
<1>4. PreemptionMode = "swap" => r.prefilled = seqs[v].prefilled /\ r.prompt = seqs[v].prompt
                                 /\ r.generated = seqs[v].generated
  BY <1>2 DEF Preempted, Requests
<1> HIDE DEF r
<1>5. Range(Without(running, {v})) = Range(running) \ {v}
  BY <1>2, QueueWithout
<1>6. CASE PreemptionMode = "swap"
  <2>1. Range(swapped') = Range(swapped) \cup {v}
    <3>1. swapped' = Append(swapped, v)
      BY <1>1, <1>6
    <3>2. Range(Append(swapped, v)) = Range(swapped) \cup {v}
      BY <1>2, QueueAtEnd
    <3> QED
      BY <3>1, <3>2
  <2>2. ~ChunkedPrefill => r.prefilled >= Len(r.prompt)
    BY <1>4, <1>6 DEF PrefillInv, PrefillDone, PromptLen
  <2> QED
    BY <1>1, <1>2, <1>3, <1>4, <1>5, <1>6, <2>1, <2>2, OneChangeKeepsPrefill
<1>7. CASE PreemptionMode # "swap"
  <2>1. Range(waiting') = Range(waiting) \cup {v}
    BY <1>1, <1>2, <1>7, QueueAtHead
  <2>2. v \notin Range(running') /\ v \notin Range(swapped')
    BY <1>1, <1>2, <1>5, <1>7
  <2> QED
    BY <1>1, <1>2, <1>5, <1>7, <2>1, <2>2, OneChangeKeepsPrefill
<1> QED
  BY <1>6, <1>7

\* Every step keeps it, whatever the callers do.
LEMMA NextKeepsPrefill ==
  ASSUME IInv, PrefillInv, Next
  PROVE  PrefillInv' /\ Progress
<1>1. /\ Queue(waiting, Ids) /\ Queue(running, Ids) /\ Queue(swapped, Ids)
      /\ Ids = DOMAIN seqs /\ Range(running) \subseteq DOMAIN seqs
      /\ \A x : Contains(running, x) <=> x \in Range(running)
  BY QueueIds, QueueMembers DEF IInv, QueuesInv, Ids
<1>2. ASSUME NEW p, NEW m, NEW a, AddRequest(p, m, a) PROVE PrefillInv' /\ Progress
  <2> DEFINE s == Len(seqs) + 1
             r == [prompt |-> p, max |-> m, arrival |-> a, status |-> "waiting",
                   prefilled |-> 0, generated |-> 0, cached |-> 0]
  <2>1. /\ seqs' = Append(seqs, r) /\ waiting' = Append(waiting, s)
        /\ UNCHANGED <<running, swapped>>
    BY <1>2 DEF AddRequest
  <2>2. seqs \in Seq(Requests) /\ DOMAIN seqs = 1..Len(seqs) /\ Len(seqs) \in Nat
    BY DEF IInv, RequestsInv
  <2>3. r.prefilled = 0
    OBVIOUS
  <2> HIDE DEF r
  <2>4. seqs'[s] = r /\ \A x \in DOMAIN seqs : seqs'[x] = seqs[x]
    BY <2>1, <2>2
  <2>5. Range(waiting') = Range(waiting) \cup {s}
    <3>1. waiting \in Seq(Nat) /\ s \in Nat
      BY <1>1, <2>2 DEF Queue
    <3> HIDE DEF s
    <3> QED
      BY <2>1, <3>1, AppendRange
  <2>6. \A x \in Range(waiting') : x \in Range(waiting) \/ seqs'[x].prefilled = 0
    BY <2>3, <2>4, <2>5
  <2> HIDE DEF s
  <2> QED
    BY <2>1, <2>4, <2>6, NoChangeKeepsPrefill
<1>3. ASSUME NEW s \in DOMAIN seqs, NEW st \in Statuses,
             seqs' = [seqs EXCEPT ![s].status = st], running' = Without(running, {s}),
             waiting' = waiting \/ waiting' = Without(waiting, {s}),
             swapped' = swapped \/ swapped' = Without(swapped, {s})
      PROVE  PrefillInv' /\ Progress
  <2> DEFINE r == [seqs[s] EXCEPT !.status = st]
  <2>1. /\ seqs' = [seqs EXCEPT ![s] = r] /\ r.prompt = seqs[s].prompt
        /\ r.prefilled = seqs[s].prefilled /\ r.generated = seqs[s].generated
        /\ seqs[s].prefilled \in Nat /\ seqs[s].generated \in Nat
    BY <1>3, RequestFacts DEF IInv, Requests
  <2> HIDE DEF r
  <2>2. /\ Range(Without(running, {s})) = Range(running) \ {s}
        /\ Range(Without(waiting, {s})) = Range(waiting) \ {s}
        /\ Range(Without(swapped, {s})) = Range(swapped) \ {s}
    BY <1>1, QueueWithout
  <2>3. /\ Range(running') = Range(running) \ {s} /\ Range(waiting') \subseteq Range(waiting)
        /\ Range(swapped') \subseteq Range(swapped)
    BY <1>3, <2>2
  <2>4. ~ChunkedPrefill /\ s \in Range(running') \cup Range(swapped') =>
          r.prefilled >= Len(r.prompt)
    BY <2>1, <2>3 DEF PrefillInv, PrefillDone, PromptLen
  <2>5. PreemptionMode = "swap" =>
          /\ s \in Range(waiting') => r.prefilled = 0
          /\ r.prefilled >= seqs[s].prefilled /\ r.generated >= seqs[s].generated
    BY <2>1, <2>3 DEF PrefillInv
  <2> QED
    BY <2>1, <2>3, <2>4, <2>5, OneChangeKeepsPrefill
<1>4. ASSUME NEW s \in DOMAIN seqs, FinishEarly(s) \/ Abort(s) PROVE PrefillInv' /\ Progress
  <2>1. CASE FinishEarly(s)
    BY <1>3, <2>1 DEF FinishEarly, Statuses
  <2>2. CASE Abort(s)
    BY <1>3, <2>2 DEF Abort, Statuses
  <2> QED
    BY <1>4, <2>1, <2>2
<1>5. CASE \/ BeginStep \/ DecodeSkip \/ EndDecodes \/ EndResumes
           \/ ChunkSkip \/ EndChunks \/ EndStep
  <2>1. UNCHANGED <<seqs, waiting, running, swapped>>
    BY <1>5 DEF BeginStep, DecodeSkip, EndDecodes, EndResumes, ChunkSkip, EndChunks, EndStep
  <2> QED
    BY <2>1, NoChangeKeepsPrefill
<1>6. CASE DecodePreempt
  <2>1. PICK s, v \in DOMAIN seqs : DecodeTurn(s) /\ IsVictim(v, s) /\ Preempt(v)
    BY <1>6 DEF DecodePreempt
  <2>2. v \in Range(running)
    BY <1>1, <2>1, QueueMembers DEF DecodeTurn, StillRunning, IsVictim
  <2> QED
    BY <2>1, <2>2, PreemptKeepsPrefill
<1>7. CASE ChunkPreempt
  <2>1. PICK s \in DOMAIN seqs : ChunkTurn(s) /\ Preempt(s)
    BY <1>7 DEF ChunkPreempt
  <2>2. s \in Range(running)
    BY <1>1, <2>1 DEF ChunkTurn, StillRunning
  <2> QED
    BY <2>1, <2>2, PreemptKeepsPrefill
<1>8. CASE DecodeToken
  <2>1. PICK s \in DOMAIN seqs :
          LET done == seqs[s].generated + 1 >= seqs[s].max
          IN /\ DecodeTurn(s)
             /\ seqs' = [seqs EXCEPT ![s].generated = @ + 1,
                                     ![s].status = IF done THEN "finished" ELSE @]
             /\ running' = IF done THEN Without(running, {s}) ELSE running
             /\ UNCHANGED <<waiting, swapped>>
    BY <1>8 DEF DecodeToken
  <2> DEFINE done == seqs[s].generated + 1 >= seqs[s].max
             st   == IF done THEN "finished" ELSE seqs[s].status
             r    == [seqs[s] EXCEPT !.generated = seqs[s].generated + 1, !.status = st]
  <2>2. s \in Range(running) /\ s \notin Range(waiting)
    BY <1>1, <2>1, StatusFacts DEF DecodeTurn, StillRunning
  <2>3. /\ seqs' = [seqs EXCEPT ![s] = r] /\ r.generated = seqs[s].generated + 1
        /\ r.prompt = seqs[s].prompt /\ r.prefilled = seqs[s].prefilled
        /\ seqs[s].prefilled \in Nat /\ seqs[s].generated \in Nat
    BY <2>1, RequestFacts DEF IInv, Requests
  <2> HIDE DEF r
  <2>4. Range(running') \subseteq Range(running)
    <3>1. Range(Without(running, {s})) = Range(running) \ {s}
      BY <1>1, QueueWithout
    <3> QED
      BY <2>1, <3>1
  <2>5. ~ChunkedPrefill => r.prefilled >= Len(r.prompt)
    BY <2>2, <2>3 DEF PrefillInv, PrefillDone, PromptLen
  <2>6. /\ r.prefilled >= seqs[s].prefilled /\ r.generated >= seqs[s].generated
    BY <2>3
  <2>7. s \notin Range(waiting') /\ Range(waiting') = Range(waiting)
        /\ Range(swapped') = Range(swapped)
    BY <2>1, <2>2
  <2> QED
    BY <2>3, <2>4, <2>5, <2>6, <2>7, OneChangeKeepsPrefill
<1>9. CASE ChunkContinue
  <2>1. PICK s \in DOMAIN seqs :
          /\ ChunkTurn(s)
          /\ seqs' = [seqs EXCEPT ![s].prefilled = @ + Chunk(s)]
          /\ UNCHANGED <<waiting, running, swapped>>
    BY <1>9 DEF ChunkContinue
  <2> DEFINE r == [seqs[s] EXCEPT !.prefilled = @ + Chunk(s)]
  <2>2. s \in Range(running) /\ s \notin Range(waiting) /\ seqs[s] \in Requests
    BY <1>1, <2>1, StatusFacts DEF ChunkTurn, StillRunning
  <2>3. /\ seqs' = [seqs EXCEPT ![s] = r] /\ r.generated = seqs[s].generated
        /\ r.prefilled = seqs[s].prefilled + Chunk(s)
        /\ seqs[s].prefilled \in Nat /\ seqs[s].generated \in Nat
    BY <2>1, <2>2 DEF Requests
  <2> HIDE DEF r
  <2>4. ChunkedPrefill
    BY <2>1, <2>2 DEF ChunkTurn, PrefillInv
  <2>5. Chunk(s) \in Nat
    <3>1. PromptLen(s) \in Nat /\ budget \in Nat
      BY <2>2, RequestFacts, SchedulerAssumption DEF IInv, RequestsInv
    <3>2. RemainingPrefill(s) \in Nat
      BY <2>3, <3>1 DEF RemainingPrefill, NonNegative
    <3>3. RemainingPrefill(s) <= budget \/ RemainingPrefill(s) > budget
      BY <3>1, <3>2
    <3> QED
      BY <2>4, <3>1, <3>2, <3>3 DEF Chunk
  <2>6. r.prefilled >= seqs[s].prefilled /\ r.generated >= seqs[s].generated
    BY <2>3, <2>5
  <2> QED
    BY <2>1, <2>2, <2>3, <2>4, <2>6, OneChangeKeepsPrefill
<1>10. CASE ResumeSwapped
  <2>1. PICK s : s = Head(swapped)
    OBVIOUS
  <2> DEFINE r == [seqs[s] EXCEPT !.status = "running"]
  <2>2. /\ swapped # <<>> /\ swapped' = Tail(swapped) /\ waiting' = waiting
        /\ seqs' = [seqs EXCEPT ![s] = r] /\ running' = Append(running, s)
    BY <1>10, <2>1 DEF ResumeSwapped
  <2>3. /\ s \in Ids /\ s \in Range(swapped) /\ Range(swapped') = Range(swapped) \ {s}
    BY <1>1, <2>1, <2>2, QueueHead
  <2>4. s \notin Range(waiting) /\ s \notin Range(running) /\ seqs[s] \in Requests
    BY <1>1, <2>3, StatusFacts
  <2>5. Range(running') = Range(running) \cup {s}
    BY <1>1, <2>2, <2>3, <2>4, QueueAtEnd
  <2>6. /\ r.prompt = seqs[s].prompt /\ r.prefilled = seqs[s].prefilled
        /\ r.generated = seqs[s].generated
        /\ seqs[s].prefilled \in Nat /\ seqs[s].generated \in Nat
    BY <2>4 DEF Requests
  <2> HIDE DEF r
  <2>7. ~ChunkedPrefill => r.prefilled >= Len(r.prompt)
    BY <2>3, <2>6 DEF PrefillInv, PrefillDone, PromptLen
  <2>8. r.prefilled >= seqs[s].prefilled /\ r.generated >= seqs[s].generated
    BY <2>6
  <2>9. Range(waiting') = Range(waiting) /\ s \notin Range(waiting')
    BY <2>2, <2>4
  <2> QED
    BY <1>1, <2>2, <2>3, <2>5, <2>7, <2>8, <2>9, OneChangeKeepsPrefill
<1>11. CASE Admit
  <2>1. PICK s : s = Head(waiting)
    OBVIOUS
  <2> DEFINE r == [seqs[s] EXCEPT !.status = "running", !.cached = AdmitCached(s),
                                  !.prefilled = AdmitTokens(s)]
  <2>2. /\ AdmitTurn /\ AdmitFits(s)
        /\ waiting' = Tail(waiting) /\ swapped' = swapped
        /\ seqs' = [seqs EXCEPT ![s] = r] /\ running' = Append(running, s)
    BY <1>11, <2>1 DEF Admit, AdmitMatch, AdmitCached, AdmitChunk, AdmitTokens
  <2>3. /\ waiting # <<>> /\ s \in DOMAIN seqs /\ s \in Ids /\ s \in Range(waiting)
        /\ seqs[s] \in Requests /\ AdmitCached(s) \in Nat /\ PromptLen(s) \in Nat
        /\ AdmitTokens(s) \in 1..PromptLen(s) /\ PromptLen(s) = Len(seqs[s].prompt)
    BY <2>1, <2>2, AdmitFacts
  <2>4. s \notin Range(swapped) /\ s \notin Range(running)
    BY <2>3, StatusFacts
  <2>5. Range(waiting') = Range(waiting) \ {s}
    BY <1>1, <2>1, <2>2, <2>3, QueueHead
  <2>6. Range(running') = Range(running) \cup {s}
    BY <1>1, <2>2, <2>3, <2>4, QueueAtEnd
  <2>7. /\ r.prompt = seqs[s].prompt /\ r.prefilled = AdmitTokens(s)
        /\ r.generated = seqs[s].generated /\ seqs[s].generated \in Nat
    BY <2>3 DEF Requests
  <2> HIDE DEF r
  <2>8. ~ChunkedPrefill => AdmitTokens(s) = PromptLen(s)
    <3> SUFFICES ASSUME ~ChunkedPrefill PROVE AdmitTokens(s) = PromptLen(s)
      OBVIOUS
    <3> DEFINE u == Uncached(s)
               c == AdmitCached(s)
               k == AdmitChunk(s)
               l == PromptLen(s)
    <3>1. /\ u <= budget /\ u = l - c /\ AdmitTokens(s) = c + k
          /\ k = IF u < budget THEN u ELSE budget
      BY <2>2 DEF AdmitFits, Uncached, AdmitCached, AdmitMatch, AdmitChunk, AdmitTokens
    <3>2. c \in Nat /\ l \in Nat /\ budget \in Nat
      BY <2>3, SchedulerAssumption DEF IInv, RequestsInv
    <3> HIDE DEF u, c, k, l
    <3> QED
      BY <3>1, <3>2 DEF l
  <2>9. ~ChunkedPrefill => r.prefilled >= Len(r.prompt)
    BY <2>3, <2>7, <2>8
  <2>10. PreemptionMode = "swap" => r.prefilled >= seqs[s].prefilled
    <3> SUFFICES ASSUME PreemptionMode = "swap" PROVE r.prefilled >= seqs[s].prefilled
      OBVIOUS
    <3>1. seqs[s].prefilled = 0
      BY <2>3 DEF PrefillInv
    <3> QED
      BY <2>3, <2>7, <3>1
  <2>11. r.generated >= seqs[s].generated /\ s \notin Range(waiting')
    BY <2>5, <2>7
  <2> QED
    BY <2>2, <2>3, <2>4, <2>5, <2>6, <2>9, <2>10, <2>11, OneChangeKeepsPrefill
<1> QED
  BY <1>2, <1>4, <1>5, <1>6, <1>7, <1>8, <1>9, <1>10, <1>11 DEF Next, Step

\* It holds in every reachable state, and no step loses a token that is kept.
LEMMA AlwaysPrefillInv == Spec => [](IInv /\ PrefillInv) /\ [][Progress]_vars
<1>1. Init => PrefillInv
  BY DEF Init, PrefillInv, Range
<1>2. IInv /\ PrefillInv /\ [Next]_vars => PrefillInv' /\ [Progress]_vars
  <2>1. ASSUME UNCHANGED vars, PrefillInv PROVE PrefillInv'
    <3>1. \A x : PrefillDone(x)' <=> PrefillDone(x)
      BY <2>1 DEF vars, PrefillDone, PromptLen
    <3> QED
      BY <2>1, <3>1 DEF vars, PrefillInv
  <2> QED
    BY <2>1, NextKeepsPrefill
<1> QED
  BY <1>1, <1>2, InitKeepsIInv, NextKeepsIInv, PTL DEF Spec

\* With chunking disabled no running request is partly prefilled, for any budget, pool
\* and preemption mode: a prompt waits until what the decodes leave takes it whole.
THEOREM PrefillsAlwaysWhole == Spec => []PrefillsAreWhole
<1>1. IInv /\ PrefillInv => PrefillsAreWhole
  BY DEF PrefillInv, PrefillsAreWhole, Range
<1> QED
  BY <1>1, AlwaysPrefillInv, PTL

\* Under swap preemption no computed token is lost, for any configuration.
THEOREM ProgressAlwaysKept == PreemptionMode = "swap" => (Spec => ProgressIsKept)
<1> SUFFICES ASSUME PreemptionMode = "swap" PROVE Spec => ProgressIsKept
  OBVIOUS
<1>1. [Progress]_vars => [\A s \in DOMAIN seqs : seqs'[s].prefilled >= seqs[s].prefilled
                                              /\ seqs'[s].generated >= seqs[s].generated]_vars
  BY DEF Progress
<1> QED
  BY <1>1, AlwaysPrefillInv, PTL DEF ProgressIsKept

-----------------------------------------------------------------------------
(* The scheduler implements the first-come first-served service *)

\* What the callers see of a status, and of the requests.
SeenAs(st) == IF st \in {"waiting", "swapped"} THEN "queued" ELSE st
View == [s \in DOMAIN seqs |-> SeenAs(seqs[s].status)]

\* The status of one request changes.
LEMMA OneViewChanges ==
  ASSUME NEW s \in DOMAIN seqs, NEW r, seqs' = [seqs EXCEPT ![s] = r]
  PROVE  /\ View' = [View EXCEPT ![s] = SeenAs(r.status)]
         /\ SeenAs(r.status) = SeenAs(seqs[s].status) => View' = View
<1>1. /\ DOMAIN seqs' = DOMAIN seqs /\ seqs'[s] = r
      /\ \A x \in DOMAIN seqs : x # s => seqs'[x] = seqs[x]
  OBVIOUS
<1>2. View' = [x \in DOMAIN seqs' |-> SeenAs(seqs'[x].status)]
  BY DEF View
<1>3. View' = [x \in DOMAIN seqs |-> IF x = s THEN SeenAs(r.status) ELSE View[x]]
  BY <1>1, <1>2 DEF View
<1>4. DOMAIN View = DOMAIN seqs /\ View[s] = SeenAs(seqs[s].status)
  BY DEF View
<1> HIDE DEF View
<1>5. View' = [View EXCEPT ![s] = SeenAs(r.status)]
  BY <1>3, <1>4
<1>6. SeenAs(r.status) = SeenAs(seqs[s].status) => View' = View
  <2>1. View = [x \in DOMAIN seqs |-> View[x]]
    BY DEF View
  <2> QED
    BY <1>3, <1>4, <2>1
<1> QED
  BY <1>5, <1>6

\* The instance counts as the scheduler does.
LEMMA SameCardinality == \A S : Service!Cardinality(S) = Cardinality(S)
BY DEF Service!Cardinality, Cardinality

\* The steps of the service, as steps of the view.
LEMMA ServiceSteps ==
  ASSUME NEW s \in DOMAIN View
  PROVE  /\ \/ /\ View[s] = "queued"
               /\ \A t \in DOMAIN View : View[t] = "queued" => s <= t
               /\ Cardinality({t \in DOMAIN View : View[t] = "running"}) < MaxNumSeqs
               /\ View' = [View EXCEPT ![s] = "running"]
            \/ /\ View[s] = "running"
               /\ \A t \in DOMAIN View : View[t] = "running" => t <= s
               /\ View' = [View EXCEPT ![s] = "queued"]
            \/ View[s] = "running" /\ View' = [View EXCEPT ![s] = "finished"]
            \/ View[s] \in {"queued", "running"} /\ View' = [View EXCEPT ![s] = "aborted"]
            => Service!Next
<1> DEFINE v == [x \in DOMAIN seqs |->
                   IF seqs[x].status \in {"waiting", "swapped"} THEN "queued"
                                                                ELSE seqs[x].status]
<1>1. View = v /\ View' = v'
  BY DEF View, SeenAs
<1>2. \A st : Service!In(st) = {t \in DOMAIN v : v[t] = st}
  BY DEF Service!In, v
<1>3. s \in DOMAIN v /\ s \in DOMAIN View
  BY <1>1
<1>4. Service!Start(s) \/ Service!Yield(s) \/ Service!Finish(s) \/ Service!Cancel(s)
        => Service!Next
  BY <1>3 DEF Service!Next, v
<1>5. CASE /\ View[s] = "queued"
           /\ \A t \in DOMAIN View : View[t] = "queued" => s <= t
           /\ Cardinality({t \in DOMAIN View : View[t] = "running"}) < MaxNumSeqs
           /\ View' = [View EXCEPT ![s] = "running"]
  <2>1. /\ s \in Service!In("queued") /\ \A t \in Service!In("queued") : s <= t
        /\ Cardinality(Service!In("running")) < MaxNumSeqs
    BY <1>1, <1>2, <1>3, <1>5
  <2>2. Service!Cardinality(Service!In("running")) < MaxNumSeqs
    BY <2>1, SameCardinality
  <2>3. v' = [v EXCEPT ![s] = "running"]
    BY <1>1, <1>5
  <2>4. Service!Start(s)
    BY <2>1, <2>3, <2>2 DEF Service!Start, v
  <2> QED
    BY <1>4, <2>4
<1>6. CASE /\ View[s] = "running"
           /\ \A t \in DOMAIN View : View[t] = "running" => t <= s
           /\ View' = [View EXCEPT ![s] = "queued"]
  <2>1. s \in Service!In("running") /\ \A t \in Service!In("running") : t <= s
    BY <1>1, <1>2, <1>3, <1>6
  <2>2. v' = [v EXCEPT ![s] = "queued"]
    BY <1>1, <1>6
  <2>3. Service!Yield(s)
    BY <2>1, <2>2 DEF Service!Yield, v
  <2> QED
    BY <1>4, <2>3
<1>7. CASE View[s] = "running" /\ View' = [View EXCEPT ![s] = "finished"]
  <2>1. s \in Service!In("running")
    BY <1>1, <1>2, <1>3, <1>7
  <2>2. v' = [v EXCEPT ![s] = "finished"]
    BY <1>1, <1>7
  <2>3. Service!Finish(s)
    BY <2>1, <2>2 DEF Service!Finish, v
  <2> QED
    BY <1>4, <2>3
<1>8. CASE View[s] \in {"queued", "running"} /\ View' = [View EXCEPT ![s] = "aborted"]
  <2>1. s \in Service!In("queued") \cup Service!In("running")
    BY <1>1, <1>2, <1>3, <1>8
  <2>2. v' = [v EXCEPT ![s] = "aborted"]
    BY <1>1, <1>8
  <2>3. Service!Cancel(s)
    BY <2>1, <2>2 DEF Service!Cancel, v
  <2> QED
    BY <1>4, <2>3
<1> QED
  BY <1>5, <1>6, <1>7, <1>8

\* A request arrives.
LEMMA ServiceArrives ==
  ASSUME NEW s \in 1..NumRequests, \A t \in DOMAIN View : t < s,
         View' = [t \in DOMAIN View \cup {s} |-> IF t = s THEN "queued" ELSE View[t]]
  PROVE  Service!Next
<1> DEFINE v == [x \in DOMAIN seqs |->
                   IF seqs[x].status \in {"waiting", "swapped"} THEN "queued"
                                                                ELSE seqs[x].status]
<1>1. View = v /\ View' = v'
  BY DEF View, SeenAs
<1> HIDE DEF v
<1>2. Service!Arrive(s)
  BY <1>1 DEF Service!Arrive, v
<1> QED
  BY <1>2 DEF Service!Next

\* At first there is nobody.
LEMMA ServiceStarts == Init => Service!Init
<1> SUFFICES ASSUME Init PROVE Service!Init
  OBVIOUS
<1>1. seqs = <<>> /\ DOMAIN seqs = {}
  BY DEF Init
<1> QED
  BY <1>1 DEF Service!Init

\* A list with one more element, as a function.
LEMMA AppendIs ==
  ASSUME NEW S, NEW q \in Seq(S), NEW e
  PROVE  Append(q, e) = [i \in 1..(Len(q) + 1) |-> IF i = Len(q) + 1 THEN e ELSE q[i]]
<1> DEFINE n == Len(q)
           a == Append(q, e)
<1>1. n \in Nat /\ DOMAIN q = 1..n
  OBVIOUS
<1>2. q \in Seq(S \cup {e}) /\ e \in S \cup {e}
  <2>1. q \in [1..n -> S \cup {e}]
    BY <1>1
  <2> QED
    BY <1>1, <2>1
<1>3. /\ a \in Seq(S \cup {e}) /\ Len(a) = n + 1 /\ a[n + 1] = e
      /\ \A i \in 1..n : a[i] = q[i]
  BY <1>1, <1>2
<1> HIDE DEF a
<1>4. a = [i \in 1..(n + 1) |-> a[i]]
  BY <1>1, <1>3
<1>5. \A i \in 1..(n + 1) : i = n + 1 \/ (i # n + 1 /\ i \in 1..n)
  BY <1>1
<1>6. \A i \in 1..(n + 1) : a[i] = IF i = n + 1 THEN e ELSE q[i]
  BY <1>3, <1>5
<1> QED
  BY <1>4, <1>6 DEF a

\* The list of the running requests is as long as there are running requests.
LEMMA RunningSlots ==
  ASSUME NEW ids, NEW q, Queue(q, ids)
  PROVE  IsFiniteSet(Range(q)) /\ Cardinality(Range(q)) <= Len(q)
<1>1. q \in Seq(ids) /\ Len(q) \in Nat /\ DOMAIN q = 1..Len(q)
  BY DEF Queue
<1>2. IsFiniteSet(1..Len(q)) /\ Cardinality(1..Len(q)) = Len(q)
  BY <1>1, FS_Interval
<1>3. q \in [1..Len(q) -> Range(q)] /\ \A x \in Range(q) : \E i \in 1..Len(q) : q[i] = x
  BY <1>1 DEF Range
<1>4. q \in Surjection(1..Len(q), Range(q))
  BY <1>3 DEF Surjection
<1> QED
  BY <1>2, <1>4, FS_Surjection

\* What the view says of the queues.
LEMMA ViewOfQueues ==
  ASSUME IInv, EngineInv
  PROVE  /\ DOMAIN View = DOMAIN seqs /\ DOMAIN seqs \subseteq Nat
         /\ \A s \in DOMAIN seqs : /\ View[s] = SeenAs(seqs[s].status)
                                   /\ View[s] = "queued" <=> s \in Range(waiting)
                                   /\ View[s] = "running" <=> s \in Range(running)
         /\ {t \in DOMAIN View : View[t] = "running"} = Range(running)
         /\ Cardinality(Range(running)) <= Len(running) /\ Len(running) \in Nat
<1>1. DOMAIN View = DOMAIN seqs /\ \A s \in DOMAIN seqs : View[s] = SeenAs(seqs[s].status)
  BY DEF View
<1>2. StatusInv /\ LineInv
  BY DEF EngineInv, OrderInv
<1>3. Ids \in SUBSET Nat /\ Ids = DOMAIN seqs /\ Range(running) \subseteq DOMAIN seqs
      /\ Queue(running, Ids)
  BY <1>2, LineFacts
<1>4. \A s : s \notin Range(swapped)
  BY <1>2 DEF LineInv, Range
<1>5. \A s \in DOMAIN seqs : seqs[s].status \in Statuses
  BY StatusFacts DEF Requests
<1>6. ASSUME NEW s \in DOMAIN seqs
      PROVE  /\ View[s] = "queued" <=> s \in Range(waiting)
             /\ View[s] = "running" <=> s \in Range(running)
  <2>1. /\ s \in Range(waiting) <=> seqs[s].status = "waiting"
        /\ s \in Range(running) <=> seqs[s].status = "running"
        /\ seqs[s].status # "swapped"
    BY <1>2, <1>4 DEF StatusInv
  <2>2. seqs[s].status \in {"waiting", "running", "finished", "aborted"}
    BY <1>5, <2>1 DEF Statuses
  <2> QED
    BY <1>1, <2>1, <2>2 DEF SeenAs
<1>7. {t \in DOMAIN View : View[t] = "running"} = Range(running)
  BY <1>1, <1>3, <1>6
<1>8. Len(running) \in Nat
  BY <1>3 DEF Queue
<1> QED
  BY <1>1, <1>3, <1>6, <1>7, <1>8, RunningSlots

\* The newest running request loses its slot.
LEMMA PreemptYields ==
  ASSUME IInv, EngineInv, NEW v \in Range(running), \A t \in Range(running) : t <= v,
         Preempt(v)
  PROVE  Service!Next
<1> DEFINE r == Preempted(seqs[v])
<1>1. v \in DOMAIN seqs /\ seqs[v] \in Requests /\ seqs' = [seqs EXCEPT ![v] = r]
  BY QueueIds, StatusFacts DEF Preempt
<1>2. r.status \in {"waiting", "swapped"}
  BY <1>1 DEF Preempted, Requests
<1> HIDE DEF r
<1>3. View' = [View EXCEPT ![v] = "queued"]
  BY <1>1, <1>2, OneViewChanges DEF SeenAs
<1>4. /\ v \in DOMAIN View /\ View[v] = "running"
      /\ \A t \in DOMAIN View : View[t] = "running" => t <= v
  BY <1>1, ViewOfQueues
<1> QED
  BY <1>3, <1>4, ServiceSteps

\* Every step of the scheduler is one of the service, or none.
LEMMA NextImplements ==
  ASSUME Engine, IInv, EngineInv, Next
  PROVE  Service!Next \/ View' = View
<1>1. /\ InOrder /\ LineInv /\ ChunkInv /\ StatusInv /\ BatchInv
      /\ Queue(running, Ids) /\ Queue(waiting, Ids) /\ Ids = DOMAIN seqs
      /\ Range(running) \subseteq DOMAIN seqs /\ Ids \in SUBSET Nat
      /\ \A x : Contains(running, x) <=> x \in Range(running)
  <2>1. InOrder /\ LineInv /\ ChunkInv /\ StatusInv /\ BatchInv
    BY DEF Engine, EngineInv, OrderInv
  <2> QED
    BY <2>1, LineFacts, QueueMembers
<1>2. ASSUME NEW p, NEW m, NEW a, AddRequest(p, m, a) PROVE Service!Next
  <2> DEFINE n == Len(seqs)
             r == [prompt |-> p, max |-> m, arrival |-> a, status |-> "waiting",
                   prefilled |-> 0, generated |-> 0, cached |-> 0]
  <2>1. seqs' = Append(seqs, r) /\ seqs \in Seq(Requests) /\ n \in Nat /\ DOMAIN seqs = 1..n
    BY <1>2 DEF AddRequest, IInv, RequestsInv
  <2>2. r.status = "waiting"
    OBVIOUS
  <2> HIDE DEF r
  <2>3. /\ DOMAIN seqs' = 1..(n + 1) /\ seqs'[n + 1] = r
        /\ \A i \in 1..n : seqs'[i] = seqs[i]
    BY <2>1
  <2>4. View' = [i \in 1..(n + 1) |-> SeenAs(seqs'[i].status)]
    BY <2>3 DEF View
  <2>5. View = [i \in 1..n |-> SeenAs(seqs[i].status)]
    BY <2>1 DEF View
  <2>6. DOMAIN View = 1..n /\ n + 1 \in 1..NumRequests /\ \A i \in 1..n : i < n + 1
    <3>1. n < NumRequests /\ NumRequests \in Nat
      BY <1>2, SchedulerAssumption DEF AddRequest
    <3> QED
      BY <2>1, <2>5, <3>1
  <2>7. 1..(n + 1) = DOMAIN View \cup {n + 1}
    BY <2>1, <2>6
  <2>8. SeenAs(r.status) = "queued"
    BY <2>2 DEF SeenAs
  <2>9. \A i \in 1..(n + 1) : i \in 1..n \/ i = n + 1
    BY <2>1
  <2>10. \A i \in 1..(n + 1) :
           SeenAs(seqs'[i].status) = IF i = n + 1 THEN "queued" ELSE View[i]
    BY <2>1, <2>3, <2>5, <2>8, <2>9
  <2>11. View' = [i \in DOMAIN View \cup {n + 1} |-> IF i = n + 1 THEN "queued" ELSE View[i]]
    BY <2>4, <2>7, <2>10
  <2> HIDE DEF n
  <2> QED
    BY <2>6, <2>11, ServiceArrives
<1>3. ASSUME NEW s \in DOMAIN seqs, FinishEarly(s) PROVE Service!Next
  <2> DEFINE r == [seqs[s] EXCEPT !.status = "finished"]
  <2>1. s \in Range(running) /\ seqs' = [seqs EXCEPT ![s] = r]
    BY <1>1, <1>3, BatchFinishesRunning DEF FinishEarly, FinishesRunning
  <2>2. r.status = "finished"
    BY StatusFacts DEF Requests
  <2> HIDE DEF r
  <2>3. SeenAs(r.status) = "finished"
    BY <2>2 DEF SeenAs
  <2>4. View' = [View EXCEPT ![s] = "finished"]
    BY <2>1, <2>3, OneViewChanges
  <2>5. s \in DOMAIN View /\ View[s] = "running"
    BY <2>1, ViewOfQueues
  <2> QED
    BY <2>4, <2>5, ServiceSteps
<1>4. ASSUME NEW s \in DOMAIN seqs, Abort(s) PROVE Service!Next
  <2> DEFINE r == [seqs[s] EXCEPT !.status = "aborted"]
  <2>1. ~IsFinished(s) /\ seqs' = [seqs EXCEPT ![s] = r]
    BY <1>4 DEF Abort
  <2>2. r.status = "aborted" /\ seqs[s].status \in Statuses
    BY StatusFacts DEF Requests
  <2> HIDE DEF r
  <2>3. SeenAs(r.status) = "aborted"
    BY <2>2 DEF SeenAs
  <2>4. View' = [View EXCEPT ![s] = "aborted"]
    BY <2>1, <2>3, OneViewChanges
  <2>5. s \in DOMAIN View /\ View[s] = SeenAs(seqs[s].status)
    BY ViewOfQueues
  <2>6. View[s] \in {"queued", "running"}
    BY <2>1, <2>2, <2>5 DEF Statuses, IsFinished, SeenAs
  <2> QED
    BY <2>4, <2>5, <2>6, ServiceSteps
<1>5. CASE \/ BeginStep \/ DecodeSkip \/ EndDecodes \/ EndResumes
           \/ ChunkSkip \/ EndChunks \/ EndStep
  <2>1. seqs' = seqs
    BY <1>5 DEF BeginStep, DecodeSkip, EndDecodes, EndResumes, ChunkSkip, EndChunks, EndStep
  <2> QED
    BY <2>1 DEF View
<1>6. CASE DecodePreempt
  <2>1. PICK s, v \in DOMAIN seqs : DecodeTurn(s) /\ IsVictim(v, s) /\ Preempt(v)
    BY <1>6 DEF DecodePreempt
  <2>2. s \in Range(running)
    BY <1>1, <2>1 DEF DecodeTurn, StillRunning
  <2>3. v \in Range(running) /\ \A t \in Range(running) : t <= v
    BY <1>1, <2>1, <2>2, VictimIsNewest
  <2> QED
    BY <2>1, <2>3, PreemptYields
<1>7. CASE ChunkPreempt
  <2>1. PICK s \in DOMAIN seqs : ChunkTurn(s) /\ Preempt(s)
    BY <1>7 DEF ChunkPreempt
  <2>2. s \in Range(running) /\ \A t \in Range(running) : t <= s
    BY <1>1, <2>1 DEF ChunkTurn, StillRunning, ChunkInv
  <2> QED
    BY <2>1, <2>2, PreemptYields
<1>8. CASE DecodeToken
  <2>1. PICK s \in DOMAIN seqs :
          LET done == seqs[s].generated + 1 >= seqs[s].max
          IN /\ DecodeTurn(s)
             /\ seqs' = [seqs EXCEPT ![s].generated = @ + 1,
                                     ![s].status = IF done THEN "finished" ELSE @]
    BY <1>8 DEF DecodeToken
  <2> DEFINE done == seqs[s].generated + 1 >= seqs[s].max
             st   == IF done THEN "finished" ELSE seqs[s].status
             r    == [seqs[s] EXCEPT !.generated = seqs[s].generated + 1, !.status = st]
  <2>2. s \in Range(running)
    BY <1>1, <2>1 DEF DecodeTurn, StillRunning
  <2>3. seqs' = [seqs EXCEPT ![s] = r] /\ r.status = st
    BY <2>1, StatusFacts DEF Requests
  <2> HIDE DEF r
  <2>4. s \in DOMAIN View /\ View[s] = "running"
    BY <2>2, ViewOfQueues
  <2>5. CASE done
    <3>1. SeenAs(r.status) = "finished"
      BY <2>3, <2>5 DEF SeenAs
    <3>2. View' = [View EXCEPT ![s] = "finished"]
      BY <2>3, <3>1, OneViewChanges
    <3> QED
      BY <2>4, <3>2, ServiceSteps
  <2>6. CASE ~done
    BY <2>3, <2>6, OneViewChanges
  <2> QED
    BY <2>5, <2>6
<1>9. CASE ChunkContinue
  <2>1. PICK s \in DOMAIN seqs : seqs' = [seqs EXCEPT ![s].prefilled = @ + Chunk(s)]
    BY <1>9 DEF ChunkContinue
  <2> DEFINE r == [seqs[s] EXCEPT !.prefilled = @ + Chunk(s)]
  <2>2. seqs' = [seqs EXCEPT ![s] = r] /\ r.status = seqs[s].status
    BY <2>1, StatusFacts DEF Requests
  <2> HIDE DEF r
  <2> QED
    BY <2>2, OneViewChanges
<1>10. CASE Admit
  <2>1. PICK s : s = Head(waiting)
    OBVIOUS
  <2> DEFINE r == [seqs[s] EXCEPT !.status = "running", !.cached = AdmitCached(s),
                                  !.prefilled = AdmitTokens(s)]
  <2>2. /\ waiting # <<>> /\ Len(running) < MaxNumSeqs /\ seqs' = [seqs EXCEPT ![s] = r]
    BY <1>10, <2>1 DEF Admit, AdmitTurn, AdmitMatch, AdmitCached, AdmitChunk, AdmitTokens
  <2>3. s \in Ids /\ s \in Range(waiting)
    BY <1>1, <2>1, <2>2, QueueHead
  <2>4. r.status = "running"
    BY <1>1, <2>3, StatusFacts DEF Requests
  <2> HIDE DEF r
  <2>5. SeenAs(r.status) = "running"
    BY <2>4 DEF SeenAs
  <2>6. View' = [View EXCEPT ![s] = "running"]
    BY <1>1, <2>2, <2>3, <2>5, OneViewChanges
  <2>7. s \in DOMAIN View /\ View[s] = "queued"
    BY <1>1, <2>3, ViewOfQueues
  <2>8. \A t \in Range(waiting) : s <= t
    <3>1. /\ DOMAIN waiting = 1..Len(waiting) /\ Len(waiting) \in Nat
          /\ \A i \in DOMAIN waiting : waiting[i] \in Nat
      BY <1>1 DEF Queue
    <3>2. s = waiting[1] /\ \A i \in DOMAIN waiting : i = 1 \/ (1 \in DOMAIN waiting /\ 1 < i)
      BY <2>1, <2>2, <3>1
    <3>3. \A i \in DOMAIN waiting : s <= waiting[i]
      BY <1>1, <3>1, <3>2 DEF LineInv, Sorted
    <3> QED
      BY <3>3 DEF Range
  <2>9. \A t \in DOMAIN View : View[t] = "queued" => s <= t
    BY <2>8, ViewOfQueues
  <2>10. Cardinality({t \in DOMAIN View : View[t] = "running"}) < MaxNumSeqs
    <3> DEFINE c == Cardinality(Range(running))
    <3>1. c <= Len(running) /\ Len(running) \in Nat /\ MaxNumSeqs \in Nat /\ c \in Nat
      <4>1. IsFiniteSet(Range(running))
        BY <1>1, RunningSlots
      <4> QED
        BY <4>1, ViewOfQueues, FS_CardinalityType, SchedulerAssumption
    <3> HIDE DEF c
    <3>2. c < MaxNumSeqs
      BY <2>2, <3>1
    <3> QED
      BY <3>2, ViewOfQueues DEF c
  <2> QED
    BY <2>6, <2>7, <2>9, <2>10, ServiceSteps
<1>11. ~ResumeSwapped
  BY <1>1 DEF ResumeSwapped, LineInv
<1> QED
  BY <1>2, <1>3, <1>4, <1>5, <1>6, <1>7, <1>8, <1>9, <1>10, <1>11 DEF Next, Step

\* The scheduler under its engine implements FCFSService, for any pool, cache, budget,
\* number of slots and prompts: batching, chunking, sharing and preemption are invisible
\* to the callers except as a request that loses its slot to older ones.
THEOREM EngineImplementsService == Engine => (Spec => ImplementsService)
<1> SUFFICES ASSUME Engine PROVE Spec => Service!Spec
  BY DEF ImplementsService
<1>1. IInv /\ EngineInv /\ [Next]_vars => [Service!Next]_View
  <2>1. ASSUME UNCHANGED vars PROVE View' = View
    BY <2>1 DEF vars, View
  <2> QED
    BY <2>1, NextImplements
<1>2. View = [s \in DOMAIN seqs |->
                IF seqs[s].status \in {"waiting", "swapped"} THEN "queued"
                                                             ELSE seqs[s].status]
  BY DEF View, SeenAs
<1> QED
  BY <1>1, <1>2, ServiceStarts, AlwaysEngineInv, PTL DEF Spec, Service!Spec, View, SeenAs

-----------------------------------------------------------------------------
(* The token budget *)

\* The requests and the token counts of a list of chunks.
FirstsOf(q) == [i \in DOMAIN q |-> q[i][1]]
ChunksOf(q) == [i \in DOMAIN q |-> q[i][2]]

\* What a step has handed out so far is what is missing from its budget.
TokensInv ==
  /\ BatchTokens \in Nat /\ BatchTokens <= MaxNumBatchedTokens
  /\ phase # "idle" => BatchTokens + budget = MaxNumBatchedTokens

\* No request is in the batch twice.
OnceInv ==
  /\ OutType
  /\ Queue(out.decodes, Nat) /\ Queue(FirstsOf(out.prefills), Nat)
  /\ Decoded \cap Prefilled = {}

\* Why a loop cannot schedule a request again: it meets each once, what was decoded
\* has its prompt computed for as long as it holds tokens, and what was preempted
\* into the waiting queue is at its head, where it stops the admissions.
TurnsInv ==
  phase # "idle" =>
    /\ phase \in {"decode", "chunk"} => Queue(todo, Nat)
    /\ phase \in {"decode", "resume"} => out.prefills = <<>>
    /\ phase = "decode" => Decoded \cap Range(todo) = {}
    /\ phase = "chunk" => Prefilled \cap Range(todo) = {}
    /\ \A s \in Decoded : s \in Range(running) \cup Range(swapped) => PrefillDone(s)
    /\ Batch \cap Range(waiting) # {} => waiting # <<>> /\ Head(waiting) \in Range(out.preempted)

BudgetInv == TokensInv /\ OnceInv /\ TurnsInv

\* A list of chunks, seen as its requests and as its token counts.
LEMMA ChunkLists ==
  ASSUME NEW q \in Seq(Nat \X Nat)
  PROVE  /\ FirstsOf(q) \in Seq(Nat) /\ ChunksOf(q) \in Seq(Nat) /\ Range(FirstsOf(q)) = Firsts(q)
         /\ \A s, k \in Nat : /\ FirstsOf(Append(q, <<s, k>>)) = Append(FirstsOf(q), s)
                              /\ ChunksOf(Append(q, <<s, k>>)) = Append(ChunksOf(q), k)
<1> DEFINE n == Len(q)
<1>1. n \in Nat /\ DOMAIN q = 1..n /\ \A i \in 1..n : q[i] \in Nat \X Nat
  OBVIOUS
<1>2. \A i \in 1..n : q[i][1] \in Nat /\ q[i][2] \in Nat
  BY <1>1
<1>3. FirstsOf(q) \in Seq(Nat) /\ ChunksOf(q) \in Seq(Nat)
  <2>1. FirstsOf(q) = [i \in 1..n |-> q[i][1]] /\ ChunksOf(q) = [i \in 1..n |-> q[i][2]]
    BY <1>1 DEF FirstsOf, ChunksOf
  <2>2. FirstsOf(q) \in [1..n -> Nat] /\ ChunksOf(q) \in [1..n -> Nat]
    BY <1>2, <2>1
  <2> DEFINE f == FirstsOf(q)
             c == ChunksOf(q)
  <2>3. f \in [1..n -> Nat] /\ c \in [1..n -> Nat] /\ n \in Nat
    BY <1>1, <2>2
  <2> HIDE DEF f, c, n
  <2>4. f \in Seq(Nat) /\ c \in Seq(Nat)
    BY <2>3
  <2> QED BY <2>4 DEF f, c
<1>4. Range(FirstsOf(q)) = Firsts(q)
  BY DEF Range, FirstsOf, Firsts
<1>5. ASSUME NEW s \in Nat, NEW k \in Nat
      PROVE  /\ FirstsOf(Append(q, <<s, k>>)) = Append(FirstsOf(q), s)
             /\ ChunksOf(Append(q, <<s, k>>)) = Append(ChunksOf(q), k)
  <2> DEFINE v == <<s, k>>
             a == Append(q, v)
             f == FirstsOf(q)
             c == ChunksOf(q)
  <2>1. v \in Nat \X Nat /\ v[1] = s /\ v[2] = k
    OBVIOUS
  <2> HIDE DEF v
  <2>2. /\ DOMAIN a = 1..(n + 1) /\ a[n + 1] = v /\ \A i \in 1..n : a[i] = q[i]
    BY <1>1
  <2> HIDE DEF a
  <2>3. /\ f \in Seq(Nat) /\ Len(f) = n /\ DOMAIN f = 1..n /\ \A i \in 1..n : f[i] = q[i][1]
        /\ c \in Seq(Nat) /\ Len(c) = n /\ DOMAIN c = 1..n /\ \A i \in 1..n : c[i] = q[i][2]
    <3>1. /\ DOMAIN f = 1..n /\ \A i \in 1..n : f[i] = q[i][1]
          /\ DOMAIN c = 1..n /\ \A i \in 1..n : c[i] = q[i][2]
      BY <1>1 DEF FirstsOf, ChunksOf
    <3>2. f \in Seq(Nat) /\ c \in Seq(Nat)
      BY <1>3
    <3> HIDE DEF f, c
    <3> QED BY <1>1, <3>1, <3>2
  <2>4. /\ \A i \in 1..(n + 1) : i \in 1..n \/ i = n + 1
        /\ n + 1 \in 1..(n + 1)
    BY <1>1
  <2> HIDE DEF f, c
  <2>5. Append(f, s) = [i \in 1..(n + 1) |-> a[i][1]]
    <3>1. Append(f, s) = [i \in 1..(n + 1) |-> IF i = n + 1 THEN s ELSE f[i]]
      BY <2>3, AppendIs
    <3>2. \A i \in 1..(n + 1) : (IF i = n + 1 THEN s ELSE f[i]) = a[i][1]
      BY <2>1, <2>2, <2>3, <2>4
    <3> HIDE DEF n
    <3> QED BY <3>1, <3>2
  <2>6. Append(c, k) = [i \in 1..(n + 1) |-> a[i][2]]
    <3>1. Append(c, k) = [i \in 1..(n + 1) |-> IF i = n + 1 THEN k ELSE c[i]]
      BY <2>3, AppendIs
    <3>2. \A i \in 1..(n + 1) : (IF i = n + 1 THEN k ELSE c[i]) = a[i][2]
      BY <2>1, <2>2, <2>3, <2>4
    <3> HIDE DEF n
    <3> QED BY <3>1, <3>2
  <2>7. FirstsOf(a) = Append(f, s) /\ ChunksOf(a) = Append(c, k)
    BY <2>2, <2>5, <2>6 DEF FirstsOf, ChunksOf
  <2> QED BY <2>7 DEF f, c, a, v
<1> QED BY <1>3, <1>4, <1>5

\* A step begins with no chunk.
LEMMA NoChunks == Firsts(<<>>) = {} /\ ChunksOf(<<>>) = <<>>
  BY DEF Firsts, ChunksOf

\* The token count of a batch, by its lists.
LEMMA TokensOfLists ==
  /\ BatchTokens = Len(out.decodes) + SumFunction(ChunksOf(out.prefills))
  /\ Scheduled = out.decodes \o FirstsOf(out.prefills)
BY DEF BatchTokens, ChunksOf, Scheduled, FirstsOf

\* A chunk adds its tokens to a list of chunks.
LEMMA ChunkAdds ==
  ASSUME NEW q \in Seq(Nat \X Nat), NEW s \in Nat, NEW k \in Nat
  PROVE  /\ SumFunction(ChunksOf(q)) \in Int
         /\ SumFunction(ChunksOf(Append(q, <<s, k>>))) = SumFunction(ChunksOf(q)) + k
<1> DEFINE c == ChunksOf(q)
           a == ChunksOf(Append(q, <<s, k>>))
<1>1. c \in Seq(Nat) /\ a = Append(c, k)
  BY ChunkLists
<1> HIDE DEF c, a
<1>2. c \in Seq(Int) /\ k \in Int
  BY <1>1
<1>3. SumFunction(c) \in Int /\ SumFunction(Append(c, k)) = SumFunction(c) + k
  BY <1>2, SumSeqAppend
<1> QED BY <1>1, <1>3 DEF c, a

\* A request that is not in the batch is decoded.
LEMMA DecodeKeepsOnce ==
  ASSUME OnceInv, TokensInv, phase = "decode", phase' = phase, budget >= 1, budget \in Nat,
         NEW s \in Nat, s \notin Decoded, out.prefills = <<>>, NEW f \in Seq(Nat),
         out' = [out EXCEPT !.decodes = Append(@, s), !.finished = f], budget' = budget - 1
  PROVE  /\ OnceInv' /\ TokensInv' /\ Decoded' = Decoded \cup {s} /\ Prefilled' = {}
         /\ out'.prefills = <<>> /\ out'.preempted = out.preempted
<1> DEFINE d == Append(out.decodes, s)
<1>1. out' = [out EXCEPT !.decodes = d, !.finished = f]
  OBVIOUS
<1>2. Queue(d, Nat) /\ Range(d) = Decoded \cup {s} /\ Len(d) = Len(out.decodes) + 1
      /\ Len(out.decodes) \in Nat
  <2>1. Queue(out.decodes, Nat) /\ out.decodes \in Seq(Nat)
    BY DEF OnceInv, Queue
  <2> QED
    BY <2>1, QueueAtEnd DEF Decoded
<1>3. d \in Seq(Nat)
  BY <1>2 DEF Queue
<1> HIDE DEF d
<1>4. /\ OutType' /\ out'.decodes = d /\ out'.prefills = <<>> /\ out'.preempted = out.preempted
  BY <1>1, <1>3 DEF OnceInv, OutType
<1>5. Decoded' = Decoded \cup {s} /\ Prefilled' = {}
  BY <1>2, <1>4, NoChunks DEF Decoded, Prefilled
<1>6. OnceInv'
  <2>1. Queue(FirstsOf(out'.prefills), Nat)
    BY <1>4 DEF OnceInv
  <2> QED BY <1>2, <1>4, <1>5, <2>1 DEF OnceInv
<1>7. BatchTokens' = BatchTokens + 1
  <2> DEFINE k == SumFunction(ChunksOf(out.prefills))
  <2>1. k = 0
    BY NoChunks, SumSeqEmpty
  <2>2. BatchTokens' = Len(d) + k
    BY <1>4 DEF BatchTokens, ChunksOf
  <2>3. BatchTokens = Len(out.decodes) + k
    BY TokensOfLists
  <2> HIDE DEF k
  <2> QED BY <1>2, <2>1, <2>2, <2>3
<1>8. TokensInv'
  BY <1>7, SchedulerAssumption DEF TokensInv
<1> QED BY <1>4, <1>5, <1>6, <1>8

\* A chunk of a request that is not in the batch is scheduled.
LEMMA ChunkKeepsOnce ==
  ASSUME OnceInv, TokensInv, phase \in {"chunk", "admit"}, phase' = phase, budget \in Nat,
         NEW s \in Nat, s \notin Batch, NEW k \in Nat, k <= budget,
         out' = [out EXCEPT !.prefills = Append(@, <<s, k>>)], budget' = budget - k
  PROVE  /\ OnceInv' /\ TokensInv' /\ Decoded' = Decoded /\ Prefilled' = Prefilled \cup {s}
         /\ Batch' = Batch \cup {s} /\ out'.preempted = out.preempted
<1> DEFINE p == Append(out.prefills, <<s, k>>)
<1>1. out' = [out EXCEPT !.prefills = p]
  OBVIOUS
<1>2. out.prefills \in Seq(Nat \X Nat)
  BY DEF OnceInv, OutType
<1>3. /\ p \in Seq(Nat \X Nat) /\ Firsts(p) = Prefilled \cup {s}
      /\ FirstsOf(p) = Append(FirstsOf(out.prefills), s)
  BY <1>2, AppendFirsts, ChunkLists DEF Prefilled
<1>4. SumFunction(ChunksOf(out.prefills)) \in Int
      /\ SumFunction(ChunksOf(p)) = SumFunction(ChunksOf(out.prefills)) + k
  BY <1>2, ChunkAdds
<1> HIDE DEF p
<1>5. /\ OutType' /\ out'.prefills = p /\ out'.decodes = out.decodes
      /\ out'.preempted = out.preempted
  BY <1>1, <1>3 DEF OnceInv, OutType
<1>6. Decoded' = Decoded /\ Prefilled' = Prefilled \cup {s} /\ Batch' = Batch \cup {s}
  BY <1>3, <1>5 DEF Decoded, Prefilled, Batch
<1>7. Queue(FirstsOf(p), Nat)
  <2>1. s \notin Range(FirstsOf(out.prefills))
    BY <1>2, ChunkLists DEF Batch, Prefilled
  <2>2. Queue(FirstsOf(out.prefills), Nat)
    BY DEF OnceInv
  <2> QED BY <1>3, <2>1, <2>2, QueueAtEnd
<1>8. OnceInv'
  BY <1>5, <1>6, <1>7 DEF OnceInv, Batch
<1>9. BatchTokens' = BatchTokens + k
  <2>1. BatchTokens' = Len(out.decodes) + SumFunction(ChunksOf(p))
    <3>1. BatchTokens' = Len(out'.decodes) + SumFunction(ChunksOf(out'.prefills))
      BY DEF BatchTokens, ChunksOf
    <3> QED BY <1>5, <3>1
  <2>2. Len(out.decodes) \in Nat
    BY DEF OnceInv, OutType
  <2> QED BY <1>4, <2>1, <2>2, TokensOfLists
<1>10. TokensInv'
  BY <1>9, SchedulerAssumption DEF TokensInv
<1> QED BY <1>5, <1>6, <1>8, <1>10

\* Nothing is scheduled.
LEMMA SameBudget ==
  ASSUME OnceInv, TokensInv, UNCHANGED budget, phase # "idle",
         out'.prefills = out.prefills, out'.decodes = out.decodes, OutType'
  PROVE  OnceInv' /\ TokensInv' /\ Decoded' = Decoded /\ Prefilled' = Prefilled /\ Batch' = Batch
BY DEF OnceInv, TokensInv, BatchTokens, Decoded, Prefilled, Batch

\* A loop turns or ends and schedules nothing.
LEMMA LoopsKeepBudget ==
  ASSUME IInv, BudgetInv,
         DecodeSkip \/ ChunkSkip \/ EndDecodes \/ EndResumes \/ EndChunks \/ EndStep
  PROVE  BudgetInv'
<1>1. UNCHANGED <<seqs, running, waiting, swapped, out>> /\ phase # "idle"
  BY DEF DecodeSkip, ChunkSkip, EndDecodes, EndResumes, EndChunks, EndStep, InLoop
<1>2. /\ Decoded' = Decoded /\ Prefilled' = Prefilled /\ Batch' = Batch
      /\ BatchTokens' = BatchTokens /\ OnceInv'
      /\ \A x : PrefillDone(x)' <=> PrefillDone(x)
  BY <1>1 DEF BudgetInv, OnceInv, OutType, BatchTokens, Decoded, Prefilled, Batch,
              PrefillDone, PromptLen
<1>3. /\ \A x \in Decoded' : x \in Range(running') \cup Range(swapped') => PrefillDone(x)'
      /\ Batch' \cap Range(waiting') # {} =>
           waiting' # <<>> /\ Head(waiting') \in Range(out'.preempted)
  BY <1>1, <1>2 DEF BudgetInv, TurnsInv
<1>4. CASE DecodeSkip \/ ChunkSkip
  <2>1. /\ UNCHANGED <<phase, budget>> /\ phase \in {"decode", "chunk"} /\ todo # <<>>
        /\ todo' = Tail(todo)
    BY <1>4 DEF DecodeSkip, ChunkSkip, InLoop
  <2>2. Queue(todo, Nat)
    BY <2>1 DEF BudgetInv, TurnsInv
  <2>3. Queue(todo', Nat) /\ Range(todo') \subseteq Range(todo)
    BY <2>1, <2>2, QueueHead
  <2> QED
    BY <1>1, <1>2, <1>3, <2>1, <2>3 DEF BudgetInv, TurnsInv, TokensInv
<1>5. CASE EndDecodes
  <2>1. phase = "decode" /\ phase' = "resume" /\ budget' = budget
    BY <1>5 DEF EndDecodes
  <2> QED
    BY <1>1, <1>2, <1>3, <2>1 DEF BudgetInv, TurnsInv, TokensInv
<1>6. CASE EndResumes
  <2>1. phase = "resume" /\ phase' = "chunk" /\ todo' = running /\ budget' = budget
    BY <1>6 DEF EndResumes
  <2>2. Queue(running, Nat)
    <3>1. Queue(running, Ids) /\ Ids \subseteq Nat
      BY RequestFacts DEF IInv, QueuesInv, Ids
    <3> QED BY <3>1, WiderQueue
  <2>3. Prefilled' = {}
    BY <1>2, <2>1, NoChunks DEF BudgetInv, TurnsInv, Prefilled
  <2> QED
    BY <1>1, <1>2, <1>3, <2>1, <2>2, <2>3 DEF BudgetInv, TurnsInv, TokensInv
<1>7. CASE EndChunks
  <2>1. phase' = "admit" /\ budget' = budget
    BY <1>7 DEF EndChunks
  <2> QED
    BY <1>1, <1>2, <1>3, <2>1 DEF BudgetInv, TurnsInv, TokensInv
<1>8. CASE EndStep
  <2>1. phase' = "idle"
    BY <1>8 DEF EndStep
  <2> QED
    BY <1>2, <2>1 DEF BudgetInv, TurnsInv, TokensInv
<1> QED
  BY <1>4, <1>5, <1>6, <1>7, <1>8

\* A running request is preempted: swapped out, or first in line again.
LEMMA PreemptKeepsBudget ==
  ASSUME IInv, BudgetInv, phase \in {"decode", "chunk"}, UNCHANGED <<phase, budget>>,
         NEW v \in Range(running), Preempt(v),
         todo' = todo \/ (todo # <<>> /\ todo' = Tail(todo))
  PROVE  BudgetInv'
<1> DEFINE r == Preempted(seqs[v])
<1>1. /\ running' = Without(running, {v}) /\ seqs' = [seqs EXCEPT ![v] = r]
      /\ out' = [out EXCEPT !.preempted = Append(@, v)]
      /\ PreemptionMode = "swap" => swapped' = Append(swapped, v) /\ waiting' = waiting
      /\ PreemptionMode # "swap" => waiting' = Requeued(v, waiting) /\ swapped' = swapped
  BY DEF Preempt, Requeued
<1>2. /\ Queue(running, Ids) /\ Queue(swapped, Ids) /\ Queue(waiting, Ids) /\ v \in Ids
      /\ v \notin Range(waiting) /\ v \notin Range(swapped) /\ v \in DOMAIN seqs
      /\ seqs[v] \in Requests /\ v \in Nat
  BY QueueIds, StatusFacts, RequestFacts DEF Ids, IInv
<1>3. PreemptionMode = "swap" => r.prefilled = seqs[v].prefilled /\ r.prompt = seqs[v].prompt
  BY <1>2 DEF Preempted, Requests
<1> HIDE DEF r
<1>4. /\ \A x \in DOMAIN seqs : x # v => seqs'[x] = seqs[x]
      /\ seqs'[v] = r
  BY <1>1, <1>2
<1>5. Range(running') = Range(running) \ {v}
  BY <1>1, <1>2, QueueWithout
<1>6. /\ OutType' /\ out'.decodes = out.decodes /\ out'.prefills = out.prefills
      /\ Range(out'.preempted) = Range(out.preempted) \cup {v}
  <2> DEFINE p == Append(out.preempted, v)
  <2>1. out.preempted \in Seq(Nat)
    BY DEF BudgetInv, OnceInv, OutType
  <2>2. p \in Seq(Nat) /\ out' = [out EXCEPT !.preempted = p]
        /\ Range(p) = Range(out.preempted) \cup {v}
    BY <1>1, <1>2, <2>1, AppendRange
  <2> HIDE DEF p
  <2> QED
    BY <2>2 DEF BudgetInv, OnceInv, OutType
<1>7. OnceInv' /\ TokensInv' /\ Decoded' = Decoded /\ Prefilled' = Prefilled /\ Batch' = Batch
  BY <1>6, SameBudget DEF BudgetInv
<1>8. Queue(todo', Nat) /\ Range(todo') \subseteq Range(todo)
  <2>1. Queue(todo, Nat)
    BY DEF BudgetInv, TurnsInv
  <2>2. CASE todo' = todo
    BY <2>1, <2>2
  <2>3. CASE todo # <<>> /\ todo' = Tail(todo)
    BY <2>1, <2>3, QueueHead
  <2> QED BY <2>2, <2>3
<1>9. \A x \in Decoded' : x \in Range(running') \cup Range(swapped') => PrefillDone(x)'
  <2> SUFFICES ASSUME NEW x \in Decoded, x \in Range(running') \cup Range(swapped')
               PROVE  PrefillDone(x)'
    BY <1>7
  <2>1. Range(swapped') = IF PreemptionMode = "swap" THEN Range(swapped) \cup {v} ELSE Range(swapped)
    <3>1. Range(Append(swapped, v)) = Range(swapped) \cup {v}
      BY <1>2, QueueAtEnd
    <3> QED BY <1>1, <3>1
  <2>2. /\ x \in Range(running) \cup Range(swapped) /\ x \in DOMAIN seqs
        /\ x = v => PreemptionMode = "swap"
    BY <1>2, <1>5, <2>1, QueueIds
  <2>3. PrefillDone(x)
    BY <2>2 DEF BudgetInv, TurnsInv
  <2>4. seqs'[x].prompt = seqs[x].prompt /\ seqs'[x].prefilled = seqs[x].prefilled
    BY <1>3, <1>4, <2>2
  <2> QED BY <2>3, <2>4 DEF PrefillDone, PromptLen
<1>10. Batch' \cap Range(waiting') # {} => waiting' # <<>> /\ Head(waiting') \in Range(out'.preempted)
  <2>1. CASE PreemptionMode = "swap"
    BY <1>1, <1>6, <1>7, <2>1 DEF BudgetInv, TurnsInv
  <2>2. CASE PreemptionMode # "swap"
    <3>1. waiting' = <<v>> \o waiting /\ waiting \in Seq(Ids) /\ v \in Ids
      BY <1>1, <1>2, <2>2 DEF Requeued, Queue
    <3>2. waiting' # <<>> /\ Head(waiting') = v
      BY <3>1
    <3> QED BY <1>6, <3>2
  <2> QED BY <2>1, <2>2
<1>11. TurnsInv'
  BY <1>6, <1>7, <1>8, <1>9, <1>10 DEF BudgetInv, TurnsInv
<1> QED BY <1>7, <1>11 DEF BudgetInv

\* A token is decoded.
LEMMA DecodeTokenKeepsBudget ==
  ASSUME IInv, BudgetInv, DecodeToken
  PROVE  BudgetInv'
<1>1. PICK s \in DOMAIN seqs :
        LET done == seqs[s].generated + 1 >= seqs[s].max
        IN /\ DecodeTurn(s) /\ todo' = Tail(todo) /\ phase' = phase
           /\ budget' = budget - 1
           /\ seqs' = [seqs EXCEPT ![s].generated = @ + 1,
                                   ![s].status = IF done THEN "finished" ELSE @]
           /\ running' = IF done THEN Without(running, {s}) ELSE running
           /\ UNCHANGED <<waiting, swapped>>
           /\ out' = [out EXCEPT !.decodes = Append(@, s),
                                 !.finished = IF done THEN Append(@, s) ELSE @]
  BY DEF DecodeToken
<1> DEFINE done == seqs[s].generated + 1 >= seqs[s].max
           st   == IF done THEN "finished" ELSE seqs[s].status
           r    == [seqs[s] EXCEPT !.generated = seqs[s].generated + 1, !.status = st]
           f    == IF done THEN Append(out.finished, s) ELSE out.finished
<1>2. /\ Queue(running, Ids) /\ s \in Nat /\ s \in Range(running) /\ PrefillDone(s)
      /\ phase = "decode" /\ todo # <<>> /\ s = Head(todo) /\ budget >= 1
      /\ budget \in Nat /\ s \notin Range(waiting) /\ seqs[s] \in Requests
  <2>1. Queue(running, Ids) /\ s \in Nat /\ budget \in Nat /\ seqs[s] \in Requests
    BY RequestFacts, SchedulerAssumption DEF IInv, QueuesInv, RequestsInv
  <2>2. /\ s \in Range(running) /\ PrefillDone(s) /\ phase = "decode" /\ todo # <<>>
        /\ s = Head(todo) /\ budget >= 1
    BY <1>1, <2>1, QueueMembers DEF DecodeTurn, StillRunning, InLoop
  <2> QED
    BY <2>1, <2>2 DEF IInv, QueuesInv
<1>3. /\ seqs' = [seqs EXCEPT ![s] = r] /\ r.prompt = seqs[s].prompt
      /\ r.prefilled = seqs[s].prefilled
      /\ out' = [out EXCEPT !.decodes = Append(@, s), !.finished = f]
  BY <1>1, <1>2 DEF Requests
<1>4. f \in Seq(Nat)
  BY <1>2, AppendRange DEF BudgetInv, OnceInv, OutType
<1>5. /\ Queue(todo, Nat) /\ out.prefills = <<>> /\ Decoded \cap Range(todo) = {}
  BY <1>2 DEF BudgetInv, TurnsInv
<1>6. /\ s \in Range(todo) /\ Queue(todo', Nat) /\ Range(todo') = Range(todo) \ {s}
  BY <1>1, <1>2, <1>5, QueueHead
<1> HIDE DEF r, f, done
<1>7. /\ OnceInv' /\ TokensInv' /\ Decoded' = Decoded \cup {s} /\ Prefilled' = {}
      /\ out'.prefills = <<>> /\ out'.preempted = out.preempted
  BY <1>1, <1>2, <1>3, <1>4, <1>5, <1>6, DecodeKeepsOnce DEF BudgetInv
<1>8. Batch' = Batch \cup {s}
  <2>1. Prefilled = {}
    BY <1>5, NoChunks DEF Prefilled
  <2> QED BY <1>7, <2>1 DEF Batch
<1>9. /\ DOMAIN seqs' = DOMAIN seqs /\ \A x : PrefillDone(x)' <=> PrefillDone(x)
  <2>1. \A x \in DOMAIN seqs : seqs'[x].prompt = seqs[x].prompt /\ seqs'[x].prefilled = seqs[x].prefilled
    BY <1>2, <1>3
  <2>2. \A x : x \notin DOMAIN seqs => seqs'[x] = seqs[x]
    BY <1>3
  <2> QED BY <1>3, <2>1 DEF PrefillDone, PromptLen
<1>10. Range(running') \subseteq Range(running)
  <2>1. Range(Without(running, {s})) = Range(running) \ {s}
    BY <1>2, QueueWithout
  <2> QED BY <1>1, <2>1
<1>11. TurnsInv'
  BY <1>1, <1>2, <1>5, <1>6, <1>7, <1>8, <1>9, <1>10 DEF BudgetInv, TurnsInv
<1> QED BY <1>7, <1>11 DEF BudgetInv

\* A prompt goes on.
LEMMA ChunkContinueKeepsBudget ==
  ASSUME IInv, BudgetInv, ChunkContinue
  PROVE  BudgetInv'
<1>1. PICK s \in DOMAIN seqs :
        /\ ChunkTurn(s) /\ seqs' = [seqs EXCEPT ![s].prefilled = @ + Chunk(s)]
        /\ out' = [out EXCEPT !.prefills = Append(@, <<s, Chunk(s)>>)]
        /\ budget' = budget - Chunk(s)
        /\ todo' = Tail(todo) /\ UNCHANGED <<waiting, running, swapped, phase>>
  BY DEF ChunkContinue
<1> DEFINE k == Chunk(s)
           r == [seqs[s] EXCEPT !.prefilled = @ + k]
<1>2. /\ s \in Nat /\ s \in Range(running) /\ ~PrefillDone(s)
      /\ phase = "chunk" /\ todo # <<>> /\ s = Head(todo)
      /\ s \notin Range(waiting) /\ seqs[s] \in Requests
  <2>1. Queue(running, Ids) /\ s \in Nat /\ seqs[s] \in Requests
    BY RequestFacts DEF IInv, QueuesInv
  <2>2. /\ s \in Range(running) /\ ~PrefillDone(s) /\ phase = "chunk" /\ todo # <<>>
        /\ s = Head(todo)
    BY <1>1, <2>1, QueueMembers DEF ChunkTurn, StillRunning, InLoop
  <2> QED
    BY <2>1, <2>2 DEF IInv, QueuesInv
<1>3. k \in Nat /\ k <= budget /\ budget \in Nat
  <2>1. PromptLen(s) \in Nat /\ seqs[s].prefilled \in Nat /\ budget \in Nat
    BY RequestFacts, SchedulerAssumption DEF IInv, RequestsInv
  <2> QED
    BY <2>1 DEF Chunk, RemainingPrefill, NonNegative
<1>4. s \notin Batch
  <2>1. Queue(todo, Nat) /\ Prefilled \cap Range(todo) = {}
    BY <1>2 DEF BudgetInv, TurnsInv
  <2>2. s \in Range(todo)
    BY <1>2, <2>1, QueueHead
  <2>3. s \notin Decoded
    BY <1>2 DEF BudgetInv, TurnsInv
  <2> QED BY <2>1, <2>2, <2>3 DEF Batch
<1>5. seqs' = [seqs EXCEPT ![s] = r] /\ out' = [out EXCEPT !.prefills = Append(@, <<s, k>>)]
      /\ budget' = budget - k
  BY <1>1
<1> HIDE DEF k, r
<1>6. /\ OnceInv' /\ TokensInv' /\ Decoded' = Decoded /\ Prefilled' = Prefilled \cup {s}
      /\ Batch' = Batch \cup {s} /\ out'.preempted = out.preempted
  BY <1>1, <1>2, <1>3, <1>4, <1>5, ChunkKeepsOnce DEF BudgetInv
<1>7. \A x \in Decoded' : x \in Range(running') \cup Range(swapped') => PrefillDone(x)'
  <2>1. \A x \in Decoded : x # s /\ seqs'[x] = seqs[x]
    BY <1>4, <1>5 DEF Batch
  <2> QED BY <1>1, <1>2, <1>6, <2>1 DEF BudgetInv, TurnsInv, PrefillDone, PromptLen
<1>8. Queue(todo', Nat) /\ Prefilled' \cap Range(todo') = {}
  <2>1. Queue(todo, Nat) /\ Prefilled \cap Range(todo) = {}
    BY <1>2 DEF BudgetInv, TurnsInv
  <2> QED BY <1>1, <1>2, <1>6, <2>1, QueueHead
<1>9. Batch' \cap Range(waiting') # {} => waiting' # <<>> /\ Head(waiting') \in Range(out'.preempted)
  BY <1>1, <1>2, <1>6 DEF BudgetInv, TurnsInv
<1>10. TurnsInv'
  BY <1>1, <1>2, <1>7, <1>8, <1>9 DEF TurnsInv
<1> QED BY <1>6, <1>10 DEF BudgetInv

\* A waiting request is admitted with the first chunk of its prompt.
LEMMA AdmitKeepsBudget ==
  ASSUME IInv, BudgetInv, Admit
  PROVE  BudgetInv'
<1>1. PICK s : s = Head(waiting)
  OBVIOUS
<1> DEFINE k == AdmitChunk(s)
<1>2. /\ AdmitTurn /\ AdmitFits(s) /\ waiting' = Tail(waiting) /\ UNCHANGED <<swapped, phase>>
      /\ out' = [out EXCEPT !.prefills = Append(@, <<s, k>>)]
      /\ budget' = budget - k /\ running' = Append(running, s)
      /\ \E r : seqs' = [seqs EXCEPT ![s] = r]
  <2>1. /\ AdmitTurn /\ AdmitFits(s) /\ waiting' = Tail(waiting) /\ UNCHANGED <<swapped, phase>>
        /\ out' = [out EXCEPT !.prefills = Append(@, <<s, k>>)]
        /\ budget' = budget - k /\ running' = Append(running, s)
    BY <1>1 DEF Admit, AdmitChunk
  <2>2. seqs' = [seqs EXCEPT ![s].status = "running", ![s].cached = AdmitCached(s),
                             ![s].prefilled = AdmitTokens(s)]
    BY <1>1 DEF Admit, AdmitMatch, AdmitCached, AdmitChunk, AdmitTokens
  <2>3. seqs' = [seqs EXCEPT ![s] = [seqs[s] EXCEPT !.status = "running",
                             !.cached = AdmitCached(s), !.prefilled = AdmitTokens(s)]]
    BY <2>2
  <2> QED BY <2>1, <2>3
<1>3. /\ s \in DOMAIN seqs /\ s \in Nat /\ s \in Range(waiting) /\ waiting # <<>>
      /\ phase = "admit" /\ k \in Nat /\ k <= budget /\ budget \in Nat
      /\ Queue(waiting, Ids) /\ s \notin Range(swapped)
  <2>1. k \in 1..budget /\ budget \in Nat
    BY <1>1, <1>2, AdmitFacts, SchedulerAssumption DEF IInv, RequestsInv
  <2>2. /\ s \in DOMAIN seqs /\ s \in Nat /\ s \in Range(waiting) /\ waiting # <<>>
        /\ phase = "admit"
    BY <1>1, <1>2, AdmitFacts, RequestFacts DEF AdmitTurn, IInv
  <2> HIDE DEF k
  <2> QED BY <2>1, <2>2 DEF IInv, QueuesInv
<1>4. Batch \cap Range(waiting) = {}
  <2>1. Head(waiting) \notin Range(out.preempted)
    <3>1. DOMAIN out.preempted = 1..Len(out.preempted)
      BY DEF BudgetInv, OnceInv, OutType
    <3> QED BY <1>2, <3>1 DEF AdmitTurn, Contains, Range
  <2> QED BY <1>3, <2>1 DEF BudgetInv, TurnsInv
<1> HIDE DEF k
<1>5. /\ OnceInv' /\ TokensInv' /\ Decoded' = Decoded /\ Prefilled' = Prefilled \cup {s}
      /\ Batch' = Batch \cup {s} /\ out'.preempted = out.preempted
  <2>1. s \notin Batch
    BY <1>3, <1>4
  <2> QED BY <1>2, <1>3, <2>1, ChunkKeepsOnce DEF BudgetInv
<1>6. Range(waiting') = Range(waiting) \ {s}
  BY <1>1, <1>2, <1>3, QueueHead
<1>7. \A x \in Decoded' : x \in Range(running') \cup Range(swapped') => PrefillDone(x)'
  <2>1. Range(running') = Range(running) \cup {s}
    <3>1. Queue(running, Ids) /\ s \notin Range(running) /\ s \in Ids
      BY <1>3 DEF IInv, QueuesInv, Ids
    <3> QED BY <1>2, <3>1, QueueAtEnd
  <2>2. \A x \in Decoded : x # s
    BY <1>3, <1>4 DEF Batch
  <2>3. \A x \in Decoded : seqs'[x] = seqs[x]
    BY <1>2, <2>2
  <2> QED BY <1>2, <1>3, <1>5, <2>1, <2>2, <2>3 DEF BudgetInv, TurnsInv, PrefillDone, PromptLen
<1>8. TurnsInv'
  BY <1>2, <1>3, <1>4, <1>5, <1>6, <1>7 DEF TurnsInv
<1> QED BY <1>5, <1>8 DEF BudgetInv

\* A request swapped out comes back.
LEMMA ResumeKeepsBudget ==
  ASSUME IInv, BudgetInv, ResumeSwapped
  PROVE  BudgetInv'
<1>1. PICK s : s = Head(swapped)
  OBVIOUS
<1>2. /\ swapped # <<>> /\ swapped' = Tail(swapped) /\ running' = Append(running, s)
      /\ seqs' = [seqs EXCEPT ![s].status = "running"] /\ phase = "resume"
      /\ UNCHANGED <<waiting, phase, todo, budget, out>>
  BY <1>1 DEF ResumeSwapped
<1>3. /\ s \in Ids /\ s \in Range(swapped) /\ Range(swapped') = Range(swapped) \ {s}
      /\ Range(running') = Range(running) \cup {s} /\ seqs[s] \in Requests
  <2>1. Queue(swapped, Ids) /\ Queue(running, Ids)
    BY DEF IInv, QueuesInv
  <2>2. /\ s \in Ids /\ s \in Range(swapped) /\ Range(swapped') = Range(swapped) \ {s}
    BY <1>1, <1>2, <2>1, QueueHead
  <2>3. s \notin Range(running) /\ seqs[s] \in Requests
    BY <2>2, RequestFacts DEF IInv, QueuesInv, Ids
  <2> QED BY <1>2, <2>1, <2>2, <2>3, QueueAtEnd
<1>4. /\ Decoded' = Decoded /\ Prefilled' = Prefilled /\ Batch' = Batch
      /\ BatchTokens' = BatchTokens /\ OnceInv'
  BY <1>2 DEF BudgetInv, OnceInv, OutType, BatchTokens, Decoded, Prefilled, Batch
<1>5. \A x : PrefillDone(x) => PrefillDone(x)'
  <2>1. \A x \in DOMAIN seqs : seqs'[x].prompt = seqs[x].prompt /\ seqs'[x].prefilled = seqs[x].prefilled
    BY <1>2, <1>3 DEF Requests
  <2>2. \A x : x \notin DOMAIN seqs => seqs'[x] = seqs[x]
    BY <1>2
  <2> QED BY <2>1, <2>2 DEF PrefillDone, PromptLen
<1>6. TurnsInv'
  BY <1>2, <1>3, <1>4, <1>5 DEF BudgetInv, TurnsInv
<1> QED BY <1>2, <1>4, <1>6 DEF BudgetInv, TokensInv

\* Every step keeps the invariant, for any configuration and any callers.
LEMMA NextKeepsBudget ==
  ASSUME IInv, BudgetInv, Next
  PROVE  BudgetInv'
<1>1. ASSUME phase = "idle", phase' = "idle", out' = out PROVE BudgetInv'
  <2>1. Decoded' = Decoded /\ Prefilled' = Prefilled /\ BatchTokens' = BatchTokens /\ OutType'
    BY <1>1 DEF Decoded, Prefilled, BatchTokens, BudgetInv, OnceInv, OutType
  <2> QED BY <1>1, <2>1 DEF BudgetInv, TokensInv, OnceInv, TurnsInv
<1>2. ASSUME NEW p, NEW m, NEW a, AddRequest(p, m, a) PROVE BudgetInv'
  BY <1>1, <1>2 DEF AddRequest
<1>3. ASSUME NEW s \in DOMAIN seqs, FinishEarly(s) \/ Abort(s) PROVE BudgetInv'
  BY <1>1, <1>3 DEF FinishEarly, Abort
<1>4. CASE BeginStep
  <2>1. /\ out' = EmptyOut /\ phase' = "decode" /\ todo' = running
        /\ budget' = MaxNumBatchedTokens
    BY <1>4 DEF BeginStep
  <2>2. /\ out'.prefills = <<>> /\ out'.decodes = <<>> /\ OutType'
    BY <2>1 DEF EmptyOut, OutType
  <2>3. Decoded' = {} /\ Prefilled' = {} /\ Batch' = {} /\ Range(out'.decodes) = {}
    BY <2>2, NoChunks DEF Decoded, Prefilled, Batch, Range
  <2>4. Queue(<<>>, Nat) /\ FirstsOf(<<>>) = <<>>
    BY DEF Queue, IsInjective, FirstsOf
  <2>5. OnceInv'
    BY <2>2, <2>3, <2>4 DEF OnceInv
  <2>6. BatchTokens' = 0
    <3>1. BatchTokens' = Len(out'.decodes) + SumFunction(ChunksOf(out'.prefills))
      BY DEF BatchTokens, ChunksOf
    <3> QED BY <2>2, <3>1, NoChunks, SumSeqEmpty
  <2>7. Queue(running, Nat)
    <3>1. Queue(running, Ids) /\ Ids \subseteq Nat
      BY RequestFacts DEF IInv, QueuesInv, Ids
    <3> QED BY <3>1, WiderQueue
  <2>8. TurnsInv'
    BY <2>1, <2>2, <2>3, <2>7 DEF TurnsInv
  <2> QED BY <2>1, <2>5, <2>6, <2>8, SchedulerAssumption DEF BudgetInv, TokensInv
<1>5. CASE DecodeSkip \/ ChunkSkip \/ EndDecodes \/ EndResumes \/ EndChunks \/ EndStep
  BY <1>5, LoopsKeepBudget
<1>6. CASE DecodePreempt
  <2>1. PICK s, v \in DOMAIN seqs :
          /\ DecodeTurn(s) /\ IsVictim(v, s) /\ Preempt(v) /\ UNCHANGED <<phase, budget>>
          /\ todo' = IF v = s THEN Tail(todo) ELSE todo
    BY <1>6 DEF DecodePreempt
  <2>2. v \in Range(running) /\ phase = "decode" /\ todo # <<>>
    BY <2>1, QueueMembers DEF DecodeTurn, StillRunning, IsVictim, InLoop, IInv, QueuesInv
  <2> QED BY <2>1, <2>2, PreemptKeepsBudget
<1>7. CASE ChunkPreempt
  <2>1. PICK s \in DOMAIN seqs : ChunkTurn(s) /\ Preempt(s) /\ todo' = Tail(todo)
                                 /\ UNCHANGED <<phase, budget>>
    BY <1>7 DEF ChunkPreempt
  <2>2. s \in Range(running) /\ phase = "chunk" /\ todo # <<>>
    BY <2>1, QueueMembers DEF ChunkTurn, StillRunning, InLoop, IInv, QueuesInv
  <2> QED BY <2>1, <2>2, PreemptKeepsBudget
<1>8. CASE DecodeToken
  BY <1>8, DecodeTokenKeepsBudget
<1>9. CASE ChunkContinue
  BY <1>9, ChunkContinueKeepsBudget
<1>10. CASE Admit
  BY <1>10, AdmitKeepsBudget
<1>11. CASE ResumeSwapped
  BY <1>11, ResumeKeepsBudget
<1> QED
  BY <1>2, <1>3, <1>4, <1>5, <1>6, <1>7, <1>8, <1>9, <1>10, <1>11 DEF Next, Step

\* The budget of a step and what it has handed out agree in every reachable state.
LEMMA AlwaysBudgetInv == Spec => [](IInv /\ BudgetInv)
<1>1. Init => BudgetInv
  <2> SUFFICES ASSUME Init PROVE BudgetInv
    OBVIOUS
  <2>1. /\ out.prefills = <<>> /\ out.decodes = <<>> /\ OutType /\ phase = "idle"
    BY DEF Init, EmptyOut, OutType
  <2>2. Decoded = {} /\ Prefilled = {}
    BY <2>1, NoChunks DEF Decoded, Prefilled, Range
  <2>3. Queue(<<>>, Nat) /\ FirstsOf(<<>>) = <<>>
    BY DEF Queue, IsInjective, FirstsOf
  <2>4. BatchTokens = 0
    BY <2>1, TokensOfLists, NoChunks, SumSeqEmpty
  <2> QED BY <2>1, <2>2, <2>3, <2>4, SchedulerAssumption
          DEF BudgetInv, TokensInv, OnceInv, TurnsInv
<1>2. IInv /\ BudgetInv /\ [Next]_vars => BudgetInv'
  <2>1. ASSUME UNCHANGED vars, BudgetInv PROVE BudgetInv'
    <3>1. /\ Decoded' = Decoded /\ Prefilled' = Prefilled /\ Batch' = Batch
          /\ BatchTokens' = BatchTokens /\ OutType' /\ \A x : PrefillDone(x)' <=> PrefillDone(x)
      BY <2>1 DEF vars, Decoded, Prefilled, Batch, BatchTokens, BudgetInv, OnceInv, OutType,
                  PrefillDone, PromptLen
    <3> QED BY <2>1, <3>1 DEF vars, BudgetInv, TokensInv, OnceInv, TurnsInv
  <2> QED BY <2>1, NextKeepsBudget
<1> QED
  BY <1>1, <1>2, InitKeepsIInv, NextKeepsIInv, PTL DEF Spec

\* The batch of a step stays within max_num_batched_tokens and schedules no request
\* twice, for any configuration, arrival order, preemption mode and pattern of
\* finish() and abort() calls.
THEOREM BatchAlwaysWithinBudget == Spec => []BatchWithinBudget
<1>1. BudgetInv => BatchWithinBudget
  <2> SUFFICES ASSUME BudgetInv PROVE BatchWithinBudget
    OBVIOUS
  <2>1. Range(FirstsOf(out.prefills)) = Prefilled /\ Range(out.decodes) = Decoded
    BY ChunkLists DEF BudgetInv, OnceInv, OutType, Prefilled, Decoded
  <2>2. Queue(Scheduled, Nat)
    BY <2>1, TokensOfLists, QueuesTogether DEF BudgetInv, OnceInv
  <2> QED BY <2>2 DEF BudgetInv, TokensInv, BatchWithinBudget, Queue
<1> QED BY <1>1, AlwaysBudgetInv, PTL

-----------------------------------------------------------------------------
(* The oldest request keeps running *)

\* Arrival times are those of the clock, what runs has not ended, a request that holds
\* tokens has not generated all it asked for, and nothing is cached when caching is off.
AgeInv ==
  /\ \A s \in DOMAIN seqs : seqs[s].arrival = s
  /\ \A s \in Range(running) : seqs[s].status = "running"
  /\ \A s \in Range(running) \cup Range(swapped) :
       seqs[s].generated = 0 \/ seqs[s].generated < seqs[s].max
  /\ ~PrefixCaching => DOMAIN cache.block = {}

\* The pool is large enough for any one request.
FitsAlone ==
  \A p \in Prompts, m \in MaxTokensChoices :
    /\ Len(p) + 1 <= NumBlocks * BlockSize
    /\ Len(p) + m <= NumBlocks * BlockSize

\* One request changes.
LEMMA OneChangeKeepsAge ==
  ASSUME IInv, AgeInv, NEW s \in DOMAIN seqs, NEW r, seqs' = [seqs EXCEPT ![s] = r],
         r.arrival = seqs[s].arrival,
         Range(running') \subseteq Range(running) \cup {s},
         Range(swapped') \subseteq Range(running) \cup Range(swapped) \cup {s},
         s \in Range(running') => r.status = "running",
         s \in Range(running') \cup Range(swapped') => r.generated = 0 \/ r.generated < r.max,
         ~PrefixCaching => cache' = cache
  PROVE  AgeInv'
<1>1. /\ DOMAIN seqs' = DOMAIN seqs /\ seqs'[s] = r
      /\ \A x \in DOMAIN seqs : x # s => seqs'[x] = seqs[x]
  OBVIOUS
<1>2. Range(running) \subseteq DOMAIN seqs /\ Range(swapped) \subseteq DOMAIN seqs
  BY QueueIds
<1>3. \A x \in DOMAIN seqs' : seqs'[x].arrival = x
  BY <1>1 DEF AgeInv
<1>4. \A x \in Range(running') : seqs'[x].status = "running"
  BY <1>1, <1>2 DEF AgeInv
<1>5. \A x \in Range(running') \cup Range(swapped') :
        seqs'[x].generated = 0 \/ seqs'[x].generated < seqs'[x].max
  <2> SUFFICES ASSUME NEW x \in Range(running') \cup Range(swapped')
               PROVE  seqs'[x].generated = 0 \/ seqs'[x].generated < seqs'[x].max
    OBVIOUS
  <2>1. CASE x = s
    BY <1>1, <2>1
  <2>2. CASE x # s
    <3>1. x \in Range(running) \cup Range(swapped) /\ seqs'[x] = seqs[x]
      BY <1>1, <1>2, <2>2
    <3> QED BY <3>1 DEF AgeInv
  <2> QED BY <2>1, <2>2
<1>6. ~PrefixCaching => DOMAIN cache'.block = {}
  BY DEF AgeInv
<1> QED BY <1>3, <1>4, <1>5, <1>6 DEF AgeInv

\* A running request is preempted.
LEMMA PreemptKeepsAge ==
  ASSUME IInv, AgeInv, NEW v \in Range(running), Preempt(v), cache' = cache
  PROVE  AgeInv'
<1> DEFINE r == Preempted(seqs[v])
<1>1. /\ running' = Without(running, {v}) /\ seqs' = [seqs EXCEPT ![v] = r]
      /\ PreemptionMode = "swap" => swapped' = Append(swapped, v) /\ waiting' = waiting
      /\ PreemptionMode # "swap" => waiting' = Requeued(v, waiting) /\ swapped' = swapped
  BY DEF Preempt, Requeued
<1>2. /\ Queue(running, Ids) /\ Queue(swapped, Ids) /\ v \in Ids
      /\ v \notin Range(swapped) /\ v \in DOMAIN seqs /\ seqs[v] \in Requests
  BY QueueIds, StatusFacts DEF Ids
<1>3. /\ r.arrival = seqs[v].arrival /\ r.max = seqs[v].max
      /\ r.generated = 0 \/ r.generated = seqs[v].generated
  BY <1>2 DEF Preempted, Requests
<1> HIDE DEF r
<1>4. Range(running') = Range(running) \ {v}
  BY <1>1, <1>2, QueueWithout
<1>5. Range(swapped') \subseteq Range(running) \cup Range(swapped) \cup {v}
  <2>1. Range(Append(swapped, v)) = Range(swapped) \cup {v}
    BY <1>2, QueueAtEnd
  <2> QED BY <1>1, <2>1
<1>6. r.generated = 0 \/ r.generated < r.max
  BY <1>3 DEF AgeInv
<1> QED BY <1>1, <1>2, <1>3, <1>4, <1>5, <1>6, OneChangeKeepsAge

\* Without prefix caching the index never changes.
LEMMA NothingIsCached ==
  ASSUME ~PrefixCaching, Next
  PROVE  cache' = cache
<1>1. \A st, p, t : Insert(st, p, t) = st
  BY DEF Insert
<1>2. \A c, p : Touch(c, p) = c
  BY DEF Touch
<1>3. \A pool, s : Finished(pool, s).cache = cache
  BY <1>1 DEF Finished
<1>4. ASSUME DecodeToken PROVE cache' = cache
  <2>1. PICK s \in DOMAIN seqs :
          LET done == seqs[s].generated + 1 >= seqs[s].max
          IN IF done THEN cache' = Finished(AppendTokens(kv, s, 1), s).cache ELSE cache' = cache
    BY <1>4 DEF DecodeToken
  <2> QED BY <1>3, <2>1
<1>5. ASSUME Admit PROVE cache' = cache
  <2> DEFINE s == Head(waiting)
             pool == Allocate(kv, s, AdmitTokens(s), AdmitMatch(s))
             index == Touch(cache, seqs[s].prompt)
             st == IF AdmitTokens(s) >= PromptLen(s)
                   THEN Insert([kv |-> pool, cache |-> index], seqs[s].prompt, pool.table[s])
                   ELSE [kv |-> pool, cache |-> index]
  <2>1. cache' = st.cache
    BY <1>5 DEF Admit, AdmitTokens, AdmitMatch, AdmitCached, AdmitChunk
  <2>2. index = cache
    BY <1>2
  <2>3. st = [kv |-> pool, cache |-> index]
    BY <1>1
  <2> HIDE DEF st, index, pool
  <2> QED BY <2>1, <2>2, <2>3
<1>6. ASSUME EndStep PROVE cache' = cache
  BY <1>2, <1>6 DEF EndStep
<1>7. ASSUME NEW s \in DOMAIN seqs, FinishEarly(s) \/ Abort(s) PROVE cache' = cache
  <2>1. ASSUME FinishEarly(s) PROVE cache' = cache
    BY <1>3, <2>1 DEF FinishEarly
  <2> QED BY <1>7, <2>1 DEF Abort
<1>8. ASSUME NEW p, NEW m, NEW a, AddRequest(p, m, a) PROVE cache' = cache
  BY <1>8 DEF AddRequest
<1>9. ASSUME \/ BeginStep \/ DecodeSkip \/ DecodePreempt \/ EndDecodes \/ ResumeSwapped
             \/ EndResumes \/ ChunkSkip \/ ChunkPreempt \/ ChunkContinue \/ EndChunks
      PROVE  cache' = cache
  BY <1>9 DEF BeginStep, DecodeSkip, DecodePreempt, EndDecodes, ResumeSwapped, EndResumes,
              ChunkSkip, ChunkPreempt, ChunkContinue, EndChunks
<1> QED BY <1>4, <1>5, <1>6, <1>7, <1>8, <1>9 DEF Next, Step

\* Every step keeps the ages.
LEMMA NextKeepsAge ==
  ASSUME Arrivals = "clock", IInv, AgeInv, Next
  PROVE  AgeInv'
<1>1. /\ Queue(waiting, Ids) /\ Queue(running, Ids) /\ Queue(swapped, Ids)
      /\ Ids = DOMAIN seqs /\ Range(running) \subseteq DOMAIN seqs
      /\ Range(swapped) \subseteq DOMAIN seqs
      /\ \A x : Contains(running, x) <=> x \in Range(running)
  BY QueueIds, QueueMembers DEF IInv, QueuesInv, Ids
<1>2. ~PrefixCaching => cache' = cache
  BY NothingIsCached
<1>3. ASSUME NEW p, NEW m, NEW a, AddRequest(p, m, a) PROVE AgeInv'
  <2> DEFINE s == Len(seqs) + 1
             r == [prompt |-> p, max |-> m, arrival |-> a, status |-> "waiting",
                   prefilled |-> 0, generated |-> 0, cached |-> 0]
  <2>1. /\ seqs' = Append(seqs, r) /\ UNCHANGED <<running, swapped, cache>> /\ r.arrival = s
    BY <1>3 DEF AddRequest
  <2>2. seqs \in Seq(Requests) /\ DOMAIN seqs = 1..Len(seqs) /\ Len(seqs) \in Nat
    BY DEF IInv, RequestsInv
  <2> HIDE DEF r
  <2>3. /\ seqs'[s] = r /\ \A x \in DOMAIN seqs : seqs'[x] = seqs[x]
        /\ \A x \in DOMAIN seqs' : x \in DOMAIN seqs \/ x = s
    <3> seqs' = [i \in 1..(Len(seqs) + 1) |-> IF i = Len(seqs) + 1 THEN r ELSE seqs[i]]
      BY <2>1, <2>2, AppendIs
    <3> QED BY <2>2
  <2> HIDE DEF s
  <2> QED BY <1>1, <2>1, <2>3 DEF AgeInv
<1>4. ASSUME NEW s \in DOMAIN seqs, NEW st \in Statuses,
             seqs' = [seqs EXCEPT ![s].status = st], running' = Without(running, {s}),
             swapped' = swapped \/ swapped' = Without(swapped, {s})
      PROVE  AgeInv'
  <2> DEFINE r == [seqs[s] EXCEPT !.status = st]
  <2>1. /\ seqs' = [seqs EXCEPT ![s] = r] /\ r.arrival = seqs[s].arrival
        /\ r.max = seqs[s].max /\ r.generated = seqs[s].generated
    BY <1>4, RequestFacts DEF IInv, Requests
  <2> HIDE DEF r
  <2>2. /\ Range(Without(running, {s})) = Range(running) \ {s}
        /\ Range(Without(swapped, {s})) = Range(swapped) \ {s}
    BY <1>1, QueueWithout
  <2>3. /\ Range(running') = Range(running) \ {s} /\ Range(swapped') \subseteq Range(swapped)
    BY <1>4, <2>2
  <2>4. s \in Range(running') \cup Range(swapped') => r.generated = 0 \/ r.generated < r.max
    BY <2>1, <2>3 DEF AgeInv
  <2> QED
    BY <1>2, <2>1, <2>3, <2>4, OneChangeKeepsAge
<1>5. ASSUME NEW s \in DOMAIN seqs, FinishEarly(s) \/ Abort(s) PROVE AgeInv'
  <2>1. CASE FinishEarly(s)
    BY <1>4, <2>1 DEF FinishEarly, Statuses
  <2>2. CASE Abort(s)
    BY <1>4, <2>2 DEF Abort, Statuses
  <2> QED
    BY <1>5, <2>1, <2>2
<1>6. CASE \/ BeginStep \/ DecodeSkip \/ EndDecodes \/ EndResumes
           \/ ChunkSkip \/ EndChunks \/ EndStep
  <2>1. UNCHANGED <<seqs, running, swapped>>
    BY <1>6 DEF BeginStep, DecodeSkip, EndDecodes, EndResumes, ChunkSkip, EndChunks, EndStep
  <2> QED
    BY <1>2, <2>1 DEF AgeInv
<1>7. CASE DecodePreempt
  <2>1. PICK s, v \in DOMAIN seqs : DecodeTurn(s) /\ IsVictim(v, s) /\ Preempt(v)
                                    /\ cache' = cache
    BY <1>7 DEF DecodePreempt
  <2>2. v \in Range(running)
    BY <1>1, <2>1, QueueMembers DEF DecodeTurn, StillRunning, IsVictim
  <2> QED
    BY <2>1, <2>2, PreemptKeepsAge
<1>8. CASE ChunkPreempt
  <2>1. PICK s \in DOMAIN seqs : ChunkTurn(s) /\ Preempt(s) /\ cache' = cache
    BY <1>8 DEF ChunkPreempt
  <2>2. s \in Range(running)
    BY <1>1, <2>1 DEF ChunkTurn, StillRunning
  <2> QED
    BY <2>1, <2>2, PreemptKeepsAge
<1>9. CASE DecodeToken
  <2>1. PICK s \in DOMAIN seqs :
          LET done == seqs[s].generated + 1 >= seqs[s].max
          IN /\ DecodeTurn(s)
             /\ seqs' = [seqs EXCEPT ![s].generated = @ + 1,
                                     ![s].status = IF done THEN "finished" ELSE @]
             /\ running' = IF done THEN Without(running, {s}) ELSE running
             /\ UNCHANGED <<waiting, swapped>>
    BY <1>9 DEF DecodeToken
  <2> DEFINE done == seqs[s].generated + 1 >= seqs[s].max
             st   == IF done THEN "finished" ELSE seqs[s].status
             r    == [seqs[s] EXCEPT !.generated = seqs[s].generated + 1, !.status = st]
  <2>2. s \in Range(running) /\ s \notin Range(swapped)
    BY <1>1, <2>1, StatusFacts DEF DecodeTurn, StillRunning
  <2>3. /\ seqs' = [seqs EXCEPT ![s] = r] /\ r.generated = seqs[s].generated + 1
        /\ r.max = seqs[s].max /\ r.arrival = seqs[s].arrival
        /\ seqs[s].max \in Nat /\ seqs[s].generated \in Nat
        /\ ~done => r.status = seqs[s].status
    BY <2>1, RequestFacts, SchedulerAssumption DEF IInv, Requests
  <2> HIDE DEF r
  <2>4. Range(running') \subseteq Range(running) /\ (done => s \notin Range(running'))
    <3>1. Range(Without(running, {s})) = Range(running) \ {s}
      BY <1>1, QueueWithout
    <3> QED
      BY <2>1, <3>1
  <2>5. ~done => r.generated < r.max
    BY <2>3
  <2>6. ~done => r.status = "running"
    BY <2>2, <2>3 DEF AgeInv
  <2> HIDE DEF done
  <2> QED
    BY <1>2, <2>1, <2>2, <2>3, <2>4, <2>5, <2>6, OneChangeKeepsAge
<1>10. CASE ChunkContinue
  <2>1. PICK s \in DOMAIN seqs :
          /\ ChunkTurn(s)
          /\ seqs' = [seqs EXCEPT ![s].prefilled = @ + Chunk(s)]
          /\ UNCHANGED <<waiting, running, swapped>>
    BY <1>10 DEF ChunkContinue
  <2> DEFINE r == [seqs[s] EXCEPT !.prefilled = @ + Chunk(s)]
  <2>2. s \in Range(running) /\ seqs[s] \in Requests
    BY <1>1, <2>1, StatusFacts DEF ChunkTurn, StillRunning
  <2>3. /\ seqs' = [seqs EXCEPT ![s] = r] /\ r.generated = seqs[s].generated
        /\ r.max = seqs[s].max /\ r.arrival = seqs[s].arrival /\ r.status = seqs[s].status
    BY <2>1, <2>2 DEF Requests
  <2> HIDE DEF r
  <2>4. r.generated = 0 \/ r.generated < r.max
    BY <2>2, <2>3 DEF AgeInv
  <2>5. r.status = "running"
    BY <2>2, <2>3 DEF AgeInv
  <2> QED
    BY <1>2, <2>1, <2>3, <2>4, <2>5, OneChangeKeepsAge
<1>11. CASE ResumeSwapped
  <2>1. PICK s : s = Head(swapped)
    OBVIOUS
  <2> DEFINE r == [seqs[s] EXCEPT !.status = "running"]
  <2>2. /\ swapped # <<>> /\ swapped' = Tail(swapped)
        /\ seqs' = [seqs EXCEPT ![s] = r] /\ running' = Append(running, s)
    BY <1>11, <2>1 DEF ResumeSwapped
  <2>3. /\ s \in Ids /\ s \in Range(swapped) /\ Range(swapped') = Range(swapped) \ {s}
    BY <1>1, <2>1, <2>2, QueueHead
  <2>4. s \notin Range(running) /\ seqs[s] \in Requests
    BY <1>1, <2>3, StatusFacts
  <2>5. Range(running') = Range(running) \cup {s}
    BY <1>1, <2>2, <2>3, <2>4, QueueAtEnd
  <2>6. /\ r.generated = seqs[s].generated /\ r.max = seqs[s].max
        /\ r.arrival = seqs[s].arrival /\ r.status = "running"
    BY <2>4 DEF Requests
  <2> HIDE DEF r
  <2>7. r.generated = 0 \/ r.generated < r.max
    BY <2>3, <2>6 DEF AgeInv
  <2> QED
    BY <1>1, <1>2, <2>2, <2>3, <2>5, <2>6, <2>7, OneChangeKeepsAge
<1>12. CASE Admit
  <2>1. PICK s : s = Head(waiting)
    OBVIOUS
  <2> DEFINE r == [seqs[s] EXCEPT !.status = "running", !.cached = AdmitCached(s),
                                  !.prefilled = AdmitTokens(s)]
  <2>2. /\ AdmitTurn /\ AdmitFits(s) /\ swapped' = swapped
        /\ seqs' = [seqs EXCEPT ![s] = r] /\ running' = Append(running, s)
    BY <1>12, <2>1 DEF Admit, AdmitMatch, AdmitCached, AdmitChunk, AdmitTokens
  <2>3. /\ s \in DOMAIN seqs /\ s \in Ids /\ s \in Range(waiting) /\ seqs[s] \in Requests
    BY <2>1, <2>2, AdmitFacts
  <2>4. s \notin Range(running)
    BY <2>3, StatusFacts
  <2>5. Range(running') = Range(running) \cup {s}
    BY <1>1, <2>2, <2>3, <2>4, QueueAtEnd
  <2>6. /\ r.arrival = seqs[s].arrival /\ r.status = "running"
        /\ r.generated = seqs[s].generated
    BY <2>3 DEF Requests
  <2>7. seqs[s].generated = 0
    BY <2>3 DEF IInv, HoldingInv
  <2> HIDE DEF r
  <2> QED
    BY <1>2, <2>2, <2>3, <2>5, <2>6, <2>7, OneChangeKeepsAge
<1> QED
  BY <1>3, <1>5, <1>6, <1>7, <1>8, <1>9, <1>10, <1>11, <1>12 DEF Next, Step

\* A sequence that has the pool to itself finds blocks for all its tokens.
LEMMA AloneCanAppend ==
  ASSUME IInv, DOMAIN cache.block = {}, NEW s, Range(running) = {s}, NEW n \in Nat,
         Computed(s) + n <= NumBlocks * BlockSize
  PROVE  CanAppend(kv, s, n)
<1> DEFINE t == kv.table[s]
           need == BlocksForTokens(Computed(s) + n)
<1>1. /\ DOMAIN kv.table = {s} /\ kv.len[s] = Computed(s) /\ s \in DOMAIN seqs
      /\ Computed(s) \in Nat
  <2>1. s \in DOMAIN seqs
    BY QueueIds
  <2> QED BY <2>1, RequestFacts DEF IInv, HoldingInv
<1>2. /\ PoolType(kv, Nat) /\ RefsExact(kv, EntryPins(cache)) /\ FreeExact(kv)
  BY DEF IInv, MemoryInv, PoolInv
<1>3. t \in Seq(Blocks) /\ DOMAIN kv.len = {s} /\ Len(t) \in Nat /\ DOMAIN t = 1..Len(t)
  BY <1>1, <1>2 DEF PoolType
<1>4. \A b \in Blocks \ Range(t) : b \in kv.free
  <2> SUFFICES ASSUME NEW b \in Blocks, b \notin Range(t) PROVE b \in kv.free
    OBVIOUS
  <2>1. {k \in DOMAIN cache.block : cache.block[k] = b} = {}
    OBVIOUS
  <2>2. EntryPins(cache)[b] = 0
    BY <2>1, FS_EmptySet DEF EntryPins
  <2>3. TableSlots(kv, b) = {}
    BY <1>1 DEF TableSlots, SlotsOf, Range
  <2>4. kv.ref[b] = 0
    <3>1. kv.ref[b] = Cardinality(TableSlots(kv, b)) + EntryPins(cache)[b]
      BY <1>2 DEF RefsExact
    <3> QED BY <2>2, <2>3, <3>1, FS_EmptySet
  <2> QED BY <1>2, <2>4 DEF FreeExact
<1>5. IsFiniteSet(Blocks) /\ Cardinality(Blocks) = NumBlocks /\ NumBlocks \in Nat
      /\ BlockSize \in Nat \ {0}
  BY FS_Interval, KVAssumption DEF Blocks
<1>6. IsFiniteSet(Range(t)) /\ Cardinality(Range(t)) <= Len(t) /\ Range(t) \subseteq Blocks
  <2>1. IsFiniteSet(1..Len(t)) /\ Cardinality(1..Len(t)) = Len(t)
    BY <1>3, FS_Interval
  <2>2. t \in Surjection(1..Len(t), Range(t)) /\ Range(t) \subseteq Blocks
    <3> DEFINE D == 1..Len(t)
    <3>1. DOMAIN t = D /\ t = [i \in D |-> t[i]]
      BY <1>3
    <3> HIDE DEF D, t
    <3>2. t \in [D -> Range(t)] /\ \A y \in Range(t) : \E i \in D : t[i] = y
      BY <3>1 DEF Range
    <3>3. Range(t) \subseteq Blocks
      BY <1>3, <3>1 DEF Range
    <3> QED BY <3>2, <3>3 DEF Surjection, D
  <2> QED BY <2>1, <2>2, FS_Surjection
<1>7. NumFree(kv) \in Nat /\ NumFree(kv) >= NumBlocks - Len(t)
  <2>1. IsFiniteSet(kv.free) /\ Blocks \ Range(t) \subseteq kv.free
    BY <1>2, <1>4, FreeIsFinite
  <2>2. Cardinality(Blocks \ Range(t)) <= Cardinality(kv.free)
        /\ Cardinality(kv.free) \in Nat
    BY <2>1, FS_Subset, FS_CardinalityType
  <2>3. /\ Cardinality(Blocks \ Range(t)) = NumBlocks - Cardinality(Blocks \cap Range(t))
    BY <1>5, FS_Difference
  <2>4. Blocks \cap Range(t) = Range(t)
    BY <1>6
  <2>5. Cardinality(Range(t)) \in Nat
    BY <1>6, FS_CardinalityType
  <2> DEFINE free == Cardinality(kv.free)
             inB == Cardinality(Blocks \ Range(t))
             inT == Cardinality(Range(t))
             length == Len(t)
  <2>6. /\ inB <= free /\ free \in Nat /\ inB = NumBlocks - inT
        /\ inT \in Nat /\ inT <= length /\ length \in Nat /\ NumBlocks \in Nat
    BY <1>3, <1>5, <1>6, <2>2, <2>3, <2>4, <2>5
  <2>7. NumFree(kv) = free
    BY DEF NumFree
  <2> HIDE DEF free, inB, inT, length
  <2>8. free \in Nat /\ free >= NumBlocks - length
    BY <2>6
  <2> QED BY <2>7, <2>8 DEF length
<1>8. need \in Nat /\ need <= NumBlocks
  <2> DEFINE c == Computed(s) + n
  <2>1. c \in Nat /\ c <= NumBlocks * BlockSize
    BY <1>1
  <2> HIDE DEF c
  <2> DEFINE q == BlocksForTokens(c)
  <2>2. q \in Nat /\ q * BlockSize < c + BlockSize
    BY <2>1, CeilingDivision
  <2> HIDE DEF q
  <2>3. q * BlockSize < NumBlocks * BlockSize + BlockSize
    BY <1>5, <2>1, <2>2
  <2>4. q <= NumBlocks
    <3>1. SUFFICES ASSUME q >= NumBlocks + 1 PROVE FALSE
      BY <1>5, <2>2
    <3>2. PICK d \in Nat : q = NumBlocks + 1 + d
      BY <1>5, <2>2, <3>1
    <3>3. q * BlockSize = NumBlocks * BlockSize + BlockSize + d * BlockSize /\ d * BlockSize \in Nat
      BY <1>5, <3>2
    <3> QED BY <1>5, <2>3, <3>3
  <2> QED BY <2>2, <2>4 DEF q, c
<1>9. BlocksNeededToAppend(kv, s, n) = NonNegative(need - Len(t))
  BY <1>1, <1>3 DEF BlocksNeededToAppend, SeqLength, BlockTable
<1> HIDE DEF need, t
<1> QED BY <1>3, <1>5, <1>7, <1>8, <1>9 DEF CanAppend, NonNegative

\* A request stops running and is queued again only by a preemption.
LEMMA OnlyPreemptionQueues ==
  ASSUME IInv, Next, NEW s \in DOMAIN seqs, LeavesRunning(s)
  PROVE  \/ \E x \in DOMAIN seqs : DecodeTurn(x) /\ ~CanAppend(kv, x, 1) /\ IsVictim(s, x)
         \/ ChunkTurn(s) /\ ~CanAppend(kv, s, Chunk(s))
<1>1. seqs[s].status = "running" /\ seqs'[s].status \in {"waiting", "swapped"}
      /\ seqs[s] \in Requests /\ seqs \in Seq(Requests) /\ \A x \in DOMAIN seqs : seqs[x] \in Requests
  BY RequestFacts DEF LeavesRunning, IInv, RequestsInv
<1>2. ASSUME NEW p, NEW m, NEW a, AddRequest(p, m, a) PROVE FALSE
  <2>1. \A x \in DOMAIN seqs : seqs'[x] = seqs[x]
    BY <1>1, <1>2 DEF AddRequest
  <2> QED BY <1>1, <2>1
<1>3. ASSUME NEW x \in DOMAIN seqs, FinishEarly(x) \/ Abort(x) PROVE FALSE
  <2>1. PICK st \in {"finished", "aborted"} : seqs' = [seqs EXCEPT ![x].status = st]
    BY <1>3 DEF FinishEarly, Abort
  <2>2. seqs'[s].status = seqs[s].status \/ seqs'[s].status = st
    BY <1>1, <2>1 DEF Requests
  <2> QED BY <1>1, <2>1, <2>2
<1>4. CASE \/ BeginStep \/ DecodeSkip \/ EndDecodes \/ EndResumes
           \/ ChunkSkip \/ EndChunks \/ EndStep
  BY <1>1, <1>4 DEF BeginStep, DecodeSkip, EndDecodes, EndResumes, ChunkSkip, EndChunks, EndStep
<1>5. ASSUME NEW x \in DOMAIN seqs, Preempt(x) PROVE x = s
  BY <1>1, <1>5 DEF Preempt
<1>6. CASE DecodePreempt
  BY <1>5, <1>6 DEF DecodePreempt
<1>7. CASE ChunkPreempt
  BY <1>5, <1>7 DEF ChunkPreempt
<1>8. ASSUME DecodeToken PROVE FALSE
  <2>1. PICK x \in DOMAIN seqs, done \in BOOLEAN :
          seqs' = [seqs EXCEPT ![x].generated = @ + 1,
                               ![x].status = IF done THEN "finished" ELSE @]
    BY <1>8 DEF DecodeToken
  <2>2. seqs'[s].status = seqs[s].status \/ seqs'[s].status = "finished"
    BY <1>1, <2>1 DEF Requests
  <2> QED BY <1>1, <2>2
<1>9. ASSUME ChunkContinue PROVE FALSE
  <2>1. PICK x \in DOMAIN seqs : seqs' = [seqs EXCEPT ![x].prefilled = @ + Chunk(x)]
    BY <1>9 DEF ChunkContinue
  <2>2. seqs'[s].status = seqs[s].status
    BY <1>1, <2>1 DEF Requests
  <2> QED BY <1>1, <2>2
<1>10. ASSUME ResumeSwapped PROVE FALSE
  <2>1. PICK x : x = Head(swapped)
    OBVIOUS
  <2>2. seqs' = [seqs EXCEPT ![x].status = "running"]
    BY <1>10, <2>1 DEF ResumeSwapped
  <2>3. seqs'[s].status = "running"
    BY <1>1, <2>2 DEF Requests
  <2> QED BY <1>1, <2>3
<1>11. ASSUME Admit PROVE FALSE
  <2>1. PICK x : x = Head(waiting)
    OBVIOUS
  <2>2. seqs' = [seqs EXCEPT ![x].status = "running", ![x].cached = AdmitCached(x),
                             ![x].prefilled = AdmitTokens(x)]
    BY <1>11, <2>1 DEF Admit, AdmitMatch, AdmitCached, AdmitChunk, AdmitTokens
  <2>3. seqs'[s].status = "running"
    BY <1>1, <2>2 DEF Requests
  <2> QED BY <1>1, <2>3
<1> QED
  BY <1>2, <1>3, <1>4, <1>6, <1>7, <1>8, <1>9, <1>10, <1>11 DEF Next, Step

\* What a running request still needs fits the pool.
LEMMA NeedsFit ==
  ASSUME IInv, AgeInv, FitsAlone, NEW s \in Range(running)
  PROVE  /\ PrefillDone(s) => Computed(s) + 1 <= NumBlocks * BlockSize
         /\ ~PrefillDone(s) => Chunk(s) \in Nat /\ Computed(s) + Chunk(s) <= NumBlocks * BlockSize
<1> DEFINE l == PromptLen(s)
           f == seqs[s].prefilled
           g == seqs[s].generated
           m == seqs[s].max
           cap == NumBlocks * BlockSize
<1>1. /\ l \in Nat /\ f \in Nat /\ f <= l /\ g \in Nat /\ m \in Nat /\ budget \in Nat
      /\ Computed(s) = f + g /\ l + 1 <= cap /\ l + m <= cap /\ cap \in Nat
      /\ g = 0 \/ g < m
  <2>1. s \in DOMAIN seqs
    BY QueueIds
  <2>2. /\ l \in Nat /\ f \in Nat /\ f <= l /\ g \in Nat /\ Computed(s) = f + g
        /\ seqs[s].prompt \in Prompts /\ m \in MaxTokensChoices
    BY <2>1, RequestFacts DEF IInv, Requests
  <2>3. l + 1 <= cap /\ l + m <= cap
    BY <2>2 DEF FitsAlone, PromptLen
  <2>4. m \in Nat
    BY <2>2, SchedulerAssumption
  <2>5. budget \in Nat
    BY SchedulerAssumption DEF IInv, RequestsInv
  <2>6. cap \in Nat
    <3>1. NumBlocks \in Nat /\ BlockSize \in Nat
      BY KVAssumption
    <3> QED BY <3>1
  <2> QED BY <2>2, <2>3, <2>4, <2>5, <2>6 DEF AgeInv
<1>2. ~PrefillDone(s) => Chunk(s) \in Nat /\ f + Chunk(s) <= l
  BY <1>1 DEF Chunk, RemainingPrefill, NonNegative, PrefillDone
<1> HIDE DEF l, f, g, m, cap
<1>3. Computed(s) + 1 <= cap
  BY <1>1
<1>4. ~PrefillDone(s) => Computed(s) + Chunk(s) <= cap
  BY <1>1, <1>2
<1> QED BY <1>2, <1>3, <1>4 DEF cap

\* A preempted request ran next to an older one.
LEMMA AnOlderOneRuns ==
  ASSUME ~PrefixCaching, FitsAlone, IInv, AgeInv, PrefillInv, ChunkedPrefill => OrderInv,
         Next, NEW s \in DOMAIN seqs, LeavesRunning(s)
  PROVE  \E t \in ToSet(running) : Before(t, s)
<1>1. /\ ToSet(running) = Range(running) /\ Range(running) \subseteq DOMAIN seqs
      /\ \A x : Contains(running, x) <=> x \in Range(running)
      /\ \A x \in Range(running) : ~IsFinished(x) /\ x \in Nat
      /\ DOMAIN cache.block = {}
  BY QueueIds, QueueMembers, RequestFacts DEF IInv, QueuesInv, AgeInv, IsFinished
<1>2. \A x, y \in DOMAIN seqs : (Before(x, y) <=> x < y) /\ x \in Nat
  BY RequestFacts DEF Before, AgeInv, IInv
<1>3. SUFFICES ASSUME \A t \in Range(running) : ~(t < s) PROVE FALSE
  BY <1>1, <1>2
<1>4. ASSUME NEW x \in DOMAIN seqs, DecodeTurn(x), ~CanAppend(kv, x, 1), IsVictim(s, x)
      PROVE  FALSE
  <2>1. x \in Range(running) /\ PrefillDone(x)
    BY <1>1, <1>4 DEF DecodeTurn, StillRunning
  <2>2. CASE s = x
    <3>1. \A t \in Range(running) : t # s => ~(s < t)
      BY <1>1, <1>2, <1>4, <2>2 DEF IsVictim
    <3>2. Range(running) = {s}
      BY <1>1, <1>2, <1>3, <2>1, <2>2, <3>1
    <3> QED BY <1>1, <1>4, <2>1, <2>2, <3>2, NeedsFit, AloneCanAppend
  <2>3. CASE s # x
    BY <1>1, <1>2, <1>3, <1>4, <2>1, <2>3 DEF IsVictim
  <2> QED BY <2>2, <2>3
<1>5. ASSUME ChunkTurn(s), ~CanAppend(kv, s, Chunk(s)) PROVE FALSE
  <2>1. s \in Range(running) /\ ~PrefillDone(s)
    BY <1>1, <1>5 DEF ChunkTurn, StillRunning
  <2>2. ChunkedPrefill
    BY <2>1 DEF PrefillInv
  <2>3. \A t \in Range(running) : t <= s
    BY <2>1, <2>2 DEF OrderInv, ChunkInv
  <2>4. Range(running) = {s}
    BY <1>1, <1>3, <2>1, <2>3
  <2> QED BY <1>1, <1>5, <2>1, <2>4, NeedsFit, AloneCanAppend
<1> QED BY <1>4, <1>5, OnlyPreemptionQueues

\* "The oldest request in flight is never the victim": a running request is preempted
\* only while one that arrived before it runs, when no request is larger than the pool
\* and no entry of the prefix cache holds blocks.  A chunk is preempted without a look at
\* its age, so prompts come whole or the prefill in flight is the newest request.
THEOREM OldestAlwaysKeepsRunning ==
  /\ Arrivals = "clock" /\ ~PrefixCaching /\ FitsAlone
  /\ InOrder \/ ~ChunkedPrefill
  => (Spec => OldestKeepsRunning)
<1> SUFFICES ASSUME Arrivals = "clock", ~PrefixCaching, FitsAlone, InOrder \/ ~ChunkedPrefill
             PROVE  Spec => OldestKeepsRunning
  OBVIOUS
<1> DEFINE Kept == \A s \in DOMAIN seqs : LeavesRunning(s) =>
                     \E t \in ToSet(running) : Before(t, s)
           Inv == IInv /\ AgeInv /\ (ChunkedPrefill => OrderInv) /\ PrefillInv
<1>1. Init => AgeInv
  BY DEF Init, AgeInv, EmptyIndex, Range
<1>2. IInv /\ AgeInv /\ [Next]_vars => AgeInv'
  <2>1. ASSUME UNCHANGED vars, AgeInv PROVE AgeInv'
    BY <2>1 DEF vars, AgeInv
  <2> QED BY <2>1, NextKeepsAge
<1>3. Spec => [](IInv /\ AgeInv)
  BY <1>1, <1>2, InitKeepsIInv, NextKeepsIInv, PTL DEF Spec
<1>4. Spec => [](ChunkedPrefill => OrderInv)
  <2>1. CASE InOrder
    BY <2>1, AlwaysOrderInv, PTL
  <2>2. CASE ~ChunkedPrefill
    <3>1. ChunkedPrefill => OrderInv
      BY <2>2
    <3> QED BY <3>1, PTL
  <2> QED BY <2>1, <2>2
<1>5. Inv /\ [Next]_vars => [Kept]_vars
  <2>1. ASSUME Inv, Next PROVE Kept
    BY <2>1, AnOlderOneRuns
  <2> QED BY <2>1
<1> QED BY <1>3, <1>4, <1>5, AlwaysPrefillInv, PTL DEF Spec, OldestKeepsRunning

-----------------------------------------------------------------------------
(* No step is wasted *)

\* A pool that nobody uses admits every request, and no prompt is too long for a batch
\* that takes prompts whole.
ServesAny ==
  /\ FitsAlone
  /\ \A p \in Prompts :
       /\ BlocksForTokens(Len(p)) + WatermarkBlocks <= NumBlocks
       /\ ChunkedPrefill \/ Len(p) <= MaxNumBatchedTokens
  /\ PreemptionMode = "swap" =>
       \A p \in Prompts, m \in MaxTokensChoices :
         BlocksForTokens(Len(p) + m) + WatermarkBlocks <= NumBlocks

Oldest(s) == s \in Range(running) /\ \A t \in Range(running) : s <= t

NoBatch == out.decodes = <<>> /\ out.prefills = <<>>

\* While the batch is empty: the loop over the decodes has the oldest running request
\* still before it, or has seen that its prompt is not computed; nothing has been
\* preempted behind that loop, what runs has its prompt to compute unless it has been
\* swapped back, and if nothing runs nothing is left to swap back.
WorkInv ==
  NoBatch =>
    /\ phase = "decode" =>
         /\ \A s : Oldest(s) =>
              /\ s \in Range(todo) \/ ~PrefillDone(s)
              /\ out.preempted # <<>> => PrefillDone(s)
         /\ out.preempted # <<>> => running # <<>>
    /\ phase \in {"resume", "chunk", "admit"} =>
         /\ out.preempted = <<>>
         /\ PreemptionMode = "recompute" => \A s \in Range(running) : ~PrefillDone(s)
    /\ phase \in {"chunk", "admit"} => running # <<>> \/ swapped = <<>>

\* The invariants it rests on.
RoundInv ==
  /\ IInv /\ AgeInv /\ PrefillInv /\ BudgetInv
  /\ PreemptionMode = "recompute" => OrderInv

\* The configurations of the theorem.
Orderly ==
  /\ Arrivals = "clock" /\ ~PrefixCaching /\ ServesAny
  /\ PreemptionMode = "recompute" \/ ~ChunkedPrefill

\* A set of numbers has a least one.
LEMMA LeastNumber ==
  ASSUME NEW S \in SUBSET Nat, S # {}
  PROVE  \E m \in S : \A x \in S : m <= x
<1> DEFINE Has == \E m \in S : \A x \in S : m <= x
           F == {n \in Nat : Has \/ \A x \in S : n <= x}
<1>1. 0 \in F
  OBVIOUS
<1>2. ASSUME NEW n \in Nat, n \in F PROVE n + 1 \in F
  <2>1. CASE Has
    BY <2>1
  <2>2. CASE \A x \in S : n <= x
    <3>1. CASE n \in S
      BY <2>2, <3>1
    <3>2. CASE n \notin S
      BY <2>2, <3>2
    <3> QED BY <3>1, <3>2
  <2> QED BY <1>2, <2>1, <2>2
<1>3. Nat \subseteq F
  <2> HIDE DEF F
  <2> QED BY <1>1, <1>2, NatSetInduction
<1>4. PICK x \in S : TRUE
  OBVIOUS
<1>5. x + 1 \in F
  BY <1>3
<1> QED BY <1>4, <1>5

\* A batch that nothing is in has all of its budget left.
LEMMA EmptyBatch ==
  ASSUME RoundInv, NoBatch, phase # "idle"
  PROVE  budget = MaxNumBatchedTokens /\ budget >= 1
<1>1. BatchTokens = 0
  BY TokensOfLists, NoChunks, SumSeqEmpty DEF NoBatch
<1>2. BatchTokens + budget = MaxNumBatchedTokens /\ budget \in Nat
  BY SchedulerAssumption DEF RoundInv, BudgetInv, TokensInv, IInv, RequestsInv
<1> QED BY <1>1, <1>2, SchedulerAssumption

\* When nothing runs and nothing is cached the whole pool is free.
LEMMA NothingHeld ==
  ASSUME IInv, DOMAIN cache.block = {}, Range(running) = {}
  PROVE  NumFree(kv) = NumBlocks
<1>1. /\ PoolType(kv, Nat) /\ RefsExact(kv, EntryPins(cache)) /\ FreeExact(kv)
      /\ DOMAIN kv.table = {}
  BY DEF IInv, MemoryInv, PoolInv, HoldingInv
<1>2. ASSUME NEW b \in Blocks PROVE b \in kv.free
  <2>1. {k \in DOMAIN cache.block : cache.block[k] = b} = {}
    OBVIOUS
  <2>2. EntryPins(cache)[b] = 0
    BY <2>1, FS_EmptySet DEF EntryPins
  <2>3. TableSlots(kv, b) = {}
    BY <1>1 DEF TableSlots, SlotsOf, Range
  <2>4. kv.ref[b] = 0
    <3>1. kv.ref[b] = Cardinality(TableSlots(kv, b)) + EntryPins(cache)[b]
      BY <1>1 DEF RefsExact
    <3> QED BY <2>2, <2>3, <3>1, FS_EmptySet
  <2> QED BY <1>1, <2>4 DEF FreeExact
<1>3. kv.free = Blocks
  BY <1>1, <1>2 DEF PoolType
<1> QED BY <1>3, FS_Interval, KVAssumption DEF Blocks, NumFree

\* So it takes what fits above the watermark.
LEMMA AllocatesAlone ==
  ASSUME IInv, DOMAIN cache.block = {}, Range(running) = {}, NEW n \in Nat,
         BlocksForTokens(n) + WatermarkBlocks <= NumBlocks
  PROVE  CanAllocate(kv, n, 0)
<1> DEFINE q == BlocksForTokens(n)
<1>1. q \in Nat /\ NumFree(kv) = NumBlocks /\ NumBlocks \in Nat /\ WatermarkBlocks \in Nat
  BY NothingHeld, CeilingDivision, KVAssumption
<1> HIDE DEF q
<1>2. NumBlocks - NonNegative(q - 0) >= WatermarkBlocks
  BY <1>1 DEF NonNegative, q
<1> QED BY <1>1, <1>2 DEF CanAllocate, q

\* The facts of a round that its steps use.
LEMMA RoundFacts ==
  ASSUME Orderly, RoundInv
  PROVE  /\ ChunkedPrefill => OrderInv
         /\ DOMAIN cache.block = {} /\ PreemptionMode \in {"recompute", "swap"}
         /\ Range(running) \subseteq DOMAIN seqs /\ Range(running) \subseteq Nat
         /\ ToSet(running) = Range(running) /\ \A x : Contains(running, x) <=> x \in Range(running)
         /\ running = <<>> <=> Range(running) = {}
         /\ \A x, y \in DOMAIN seqs : Before(x, y) <=> x < y
         /\ ~ChunkedPrefill => \A s \in Range(running) : PrefillDone(s)
         /\ PreemptionMode = "recompute" =>
              swapped = <<>> /\ \A s, t \in Range(running) : ~PrefillDone(s) => t <= s
<1>1. PreemptionMode \in {"recompute", "swap"} /\ (ChunkedPrefill => OrderInv)
  BY SchedulerAssumption DEF RoundInv, Orderly
<1>2. DOMAIN cache.block = {}
  BY DEF Orderly, RoundInv, AgeInv
<1>3. /\ Range(running) \subseteq DOMAIN seqs /\ ToSet(running) = Range(running)
      /\ \A x : Contains(running, x) <=> x \in Range(running)
  BY QueueIds, QueueMembers DEF RoundInv, IInv, QueuesInv
<1>4. DOMAIN seqs \subseteq Nat
  BY RequestFacts DEF RoundInv, IInv
<1>5. running = <<>> <=> Range(running) = {}
  <2>1. running \in Seq(Ids)
    BY DEF RoundInv, IInv, QueuesInv, Queue
  <2>2. running # <<>> => running[1] \in Range(running)
    BY <2>1 DEF Range
  <2>3. running = <<>> => Range(running) = {}
    BY DEF Range
  <2> QED BY <2>2, <2>3
<1>6. \A x, y \in DOMAIN seqs : Before(x, y) <=> x < y
  BY <1>4 DEF Before, RoundInv, AgeInv
<1>7. ~ChunkedPrefill => \A s \in Range(running) : PrefillDone(s)
  BY DEF RoundInv, PrefillInv
<1>8. PreemptionMode = "recompute" =>
        swapped = <<>> /\ \A s, t \in Range(running) : ~PrefillDone(s) => t <= s
  BY DEF RoundInv, OrderInv, LineInv, ChunkInv
<1> QED BY <1>1, <1>2, <1>3, <1>4, <1>5, <1>6, <1>7, <1>8

\* While the loops preempt, somebody older than the victim goes on running, and only the
\* victim changes.
LEMMA PreemptedByOlder ==
  ASSUME Orderly, RoundInv, Next, NEW v \in Range(running), Preempt(v)
  PROVE  /\ \E t \in Range(running') : t < v
         /\ Range(running') = Range(running) \ {v}
         /\ \A x \in Range(running') : PrefillDone(x)' <=> PrefillDone(x)
         /\ \A x : Oldest(x)' => Oldest(x) /\ x < v
         /\ out'.decodes = out.decodes /\ out'.prefills = out.prefills
         /\ running' # <<>>
<1>1. /\ running' = Without(running, {v}) /\ seqs' = [seqs EXCEPT ![v] = Preempted(seqs[v])]
      /\ out' = [out EXCEPT !.preempted = Append(@, v)]
  BY DEF Preempt
<1>2. /\ Queue(running, Ids) /\ Range(running) \subseteq DOMAIN seqs
      /\ ToSet(running) = Range(running) /\ Range(running) \subseteq Nat
      /\ \A x, y \in DOMAIN seqs : Before(x, y) <=> x < y
      /\ ChunkedPrefill => OrderInv
  BY RoundFacts DEF RoundInv, IInv, QueuesInv
<1>3. Range(running') = Range(running) \ {v}
  BY <1>1, <1>2, QueueWithout
<1>4. LeavesRunning(v) /\ v \in DOMAIN seqs
  <2>1. seqs[v] \in Requests /\ v \in DOMAIN seqs /\ seqs[v].status = "running"
    BY <1>2, RequestFacts DEF RoundInv, IInv, AgeInv
  <2>2. Preempted(seqs[v]).status \in {"waiting", "swapped"}
    BY <2>1 DEF Preempted, Requests
  <2> QED BY <1>1, <2>1, <2>2 DEF LeavesRunning
<1>5. PICK t \in Range(running) : t < v
  <2>1. \E t \in ToSet(running) : Before(t, v)
    BY <1>2, <1>4, AnOlderOneRuns DEF Orderly, ServesAny, RoundInv
  <2> QED BY <1>2, <1>4, <2>1
<1>6. t \in Range(running')
  BY <1>2, <1>3, <1>5
<1>7. \A x \in Range(running') : PrefillDone(x)' <=> PrefillDone(x)
  <2>1. \A x \in Range(running') : seqs'[x] = seqs[x]
    BY <1>1, <1>2, <1>3
  <2> QED BY <2>1 DEF PrefillDone, PromptLen
<1>8. ASSUME NEW x, Oldest(x)' PROVE Oldest(x) /\ x < v
  <2>1. x \in Range(running') /\ \A y \in Range(running') : x <= y
    BY <1>8 DEF Oldest
  <2>2. x \in Range(running) /\ x <= t /\ x \in Nat /\ t \in Nat /\ v \in Nat
    BY <1>2, <1>3, <1>5, <1>6, <2>1
  <2>3. x < v
    BY <1>5, <2>2
  <2>4. \A y \in Range(running) : x <= y
    BY <1>3, <2>1, <2>2, <2>3
  <2> QED BY <2>2, <2>3, <2>4 DEF Oldest
<1>9. out'.decodes = out.decodes /\ out'.prefills = out.prefills
  BY <1>1 DEF RoundInv, BudgetInv, OnceInv, OutType
<1>10. running' # <<>>
  BY <1>6 DEF Range
<1> QED BY <1>3, <1>5, <1>6, <1>7, <1>8, <1>9, <1>10

\* With nothing running the request swapped out first comes back.
LEMMA ResumesAlone ==
  ASSUME Orderly, RoundInv, Range(running) = {}, NEW s \in Range(swapped)
  PROVE  ResumeFits(s)
<1> DEFINE l == PromptLen(s)
           m == seqs[s].max
           c == Computed(s)
<1>1. s \in DOMAIN seqs /\ DOMAIN cache.block = {} /\ running = <<>> /\ PreemptionMode = "swap"
  <2>1. s \in DOMAIN seqs
    BY QueueIds DEF RoundInv
  <2>2. swapped # <<>>
    BY DEF Range
  <2> QED BY <2>1, <2>2, RoundFacts
<1>2. /\ seqs[s].prompt \in Prompts /\ m \in MaxTokensChoices /\ m \in Nat
      /\ l \in Nat /\ c \in Nat /\ c <= l + m
  <2>1. /\ seqs[s] \in Requests /\ l \in Nat /\ seqs[s].prefilled \in Nat /\ seqs[s].prefilled <= l
        /\ seqs[s].generated \in Nat /\ c = seqs[s].prefilled + seqs[s].generated
    BY <1>1, RequestFacts DEF RoundInv, IInv
  <2>2. seqs[s].prompt \in Prompts /\ m \in MaxTokensChoices /\ m \in Nat
    BY <2>1, SchedulerAssumption DEF Requests
  <2>3. seqs[s].generated = 0 \/ seqs[s].generated < m
    BY DEF RoundInv, AgeInv
  <2> HIDE DEF l, m, c
  <2> QED BY <2>1, <2>2, <2>3
<1>3. BlocksForTokens(l + m) + WatermarkBlocks <= NumBlocks
  BY <1>1, <1>2 DEF Orderly, ServesAny, PromptLen
<1>4. BlocksForTokens(c) <= BlocksForTokens(l + m)
  <2> HIDE DEF l, m, c
  <2>1. l + m \in Nat
    BY <1>2
  <2> QED BY <1>2, <2>1, BlocksMonotone
<1>5. BlocksForTokens(c) + WatermarkBlocks <= NumBlocks
  <2> HIDE DEF l, m, c
  <2> DEFINE i == BlocksForTokens(c)
             j == BlocksForTokens(l + m)
  <2>1. i \in Nat /\ j \in Nat /\ WatermarkBlocks \in Nat /\ NumBlocks \in Nat
        /\ i <= j /\ j + WatermarkBlocks <= NumBlocks
    <3>1. l + m \in Nat
      BY <1>2
    <3> QED BY <1>2, <1>3, <1>4, <3>1, CeilingDivision, KVAssumption
  <2> HIDE DEF i, j
  <2>2. i + WatermarkBlocks <= NumBlocks
    BY <2>1
  <2> QED BY <2>2 DEF i
<1>6. CanAllocate(kv, c, 0)
  <2> HIDE DEF c
  <2> QED BY <1>1, <1>2, <1>5, AllocatesAlone DEF RoundInv
<1> QED BY <1>1, <1>6, SchedulerAssumption DEF ResumeFits

\* With nothing running the head of the waiting queue fits.
LEMMA AdmitsAlone ==
  ASSUME Orderly, RoundInv, Range(running) = {}, waiting # <<>>, budget = MaxNumBatchedTokens
  PROVE  AdmitFits(Head(waiting))
<1> DEFINE s == Head(waiting)
           l == PromptLen(s)
<1>1. s \in DOMAIN seqs /\ DOMAIN cache.block = {}
  BY QueueHead, RoundFacts DEF RoundInv, IInv, QueuesInv, Ids
<1>2. seqs[s].prompt \in Prompts /\ l \in Nat
  BY <1>1, RequestFacts DEF RoundInv, IInv, Requests
<1>3. Len(Match(cache, seqs[s].prompt)) = 0
  BY DEF Match, Orderly
<1>4. Uncached(s) = l
  <2>1. BlockSize \in Nat
    BY KVAssumption
  <2> QED BY <1>2, <1>3, <2>1 DEF Uncached
<1>5. BlocksForTokens(l) + WatermarkBlocks <= NumBlocks /\ (ChunkedPrefill \/ l <= budget)
  BY <1>2 DEF Orderly, ServesAny, PromptLen
<1>6. CanAllocate(kv, l, 0)
  <2> HIDE DEF l
  <2> QED BY <1>1, <1>2, <1>5, AllocatesAlone DEF RoundInv
<1> HIDE DEF s
<1>7. AdmitFits(s)
  BY <1>3, <1>4, <1>5, <1>6 DEF AdmitFits
<1> QED BY <1>7 DEF s

\* At the end of the decodes an empty batch means that nothing was preempted and that what
\* runs has its prompt to compute.
LEMMA DecodesEnd ==
  ASSUME Orderly, RoundInv, WorkInv, EndDecodes, NoBatch
  PROVE  out.preempted = <<>> /\ \A s \in Range(running) : ~PrefillDone(s)
<1>1. phase = "decode" /\ todo = <<>>
  BY EmptyBatch, SchedulerAssumption DEF EndDecodes
<1>2. CASE running = <<>>
  BY <1>1, <1>2, RoundFacts DEF WorkInv
<1>3. CASE running # <<>>
  <2>1. PICK o \in Range(running) : \A x \in Range(running) : o <= x
    BY <1>3, RoundFacts, LeastNumber
  <2>2. Oldest(o) /\ o \notin Range(todo)
    BY <1>1, <2>1 DEF Oldest, Range
  <2>3. ~PrefillDone(o) /\ out.preempted = <<>>
    BY <1>1, <2>2 DEF WorkInv
  <2>4. PreemptionMode = "recompute"
    BY <2>3, RoundFacts DEF Orderly
  <2>5. \A x \in Range(running) : x <= o /\ x \in Nat /\ o \in Nat
    BY <2>3, <2>4, RoundFacts
  <2>6. \A x \in Range(running) : x = o
    BY <2>1, <2>5
  <2> QED BY <2>3, <2>6
<1> QED BY <1>2, <1>3

\* A list that something was appended to is not empty.
LEMMA AppendNotEmpty ==
  ASSUME NEW S, NEW q \in Seq(S), NEW e
  PROVE  Append(q, e) # <<>>
<1>1. q \in Seq(S \cup {e}) /\ e \in S \cup {e}
  OBVIOUS
<1> DEFINE T == S \cup {e}
<1> HIDE DEF T
<1>2. q \in Seq(T) /\ e \in T
  BY <1>1 DEF T
<1> QED BY <1>2

\* Every step keeps it.
LEMMA NextKeepsWork ==
  ASSUME Orderly, RoundInv, WorkInv, Next
  PROVE  WorkInv'
<1>1. /\ Range(running) \subseteq Nat
      /\ \A x : Contains(running, x) <=> x \in Range(running)
      /\ \A x \in Range(running) : seqs[x].status = "running"
      /\ out.decodes \in Seq(Nat) /\ out.prefills \in Seq(Nat \X Nat) /\ out.preempted \in Seq(Nat)
      /\ running = <<>> <=> Range(running) = {}
  BY RoundFacts DEF RoundInv, AgeInv, BudgetInv, OnceInv, OutType
<1>2. ASSUME NEW p, NEW m, NEW a, AddRequest(p, m, a) PROVE WorkInv'
  BY <1>2 DEF AddRequest, WorkInv
<1>3. ASSUME NEW s \in DOMAIN seqs, FinishEarly(s) \/ Abort(s) PROVE WorkInv'
  <2>1. phase' = "idle"
    BY <1>3 DEF FinishEarly, Abort
  <2> QED BY <2>1 DEF WorkInv
<1>4. CASE BeginStep
  <2>1. phase' = "decode" /\ todo' = running /\ running' = running /\ out'.preempted = <<>>
    BY <1>4 DEF BeginStep, EmptyOut
  <2> QED BY <2>1 DEF WorkInv, Oldest
<1>5. CASE DecodeSkip
  <2>1. /\ phase = "decode" /\ todo # <<>> /\ todo' = Tail(todo)
        /\ ~StillRunning(Head(todo)) \/ ~PrefillDone(Head(todo))
        /\ UNCHANGED <<seqs, running, phase, out>>
    BY <1>5 DEF DecodeSkip, InLoop
  <2>2. \A x \in Range(todo) : x = Head(todo) \/ x \in Range(todo')
    BY <2>1, QueueHead DEF RoundInv, BudgetInv, TurnsInv
  <2>3. \A x : Oldest(x)' => Oldest(x) /\ x \in Range(running)
    BY <2>1 DEF Oldest
  <2>4. \A x : PrefillDone(x)' <=> PrefillDone(x)
    BY <2>1 DEF PrefillDone, PromptLen
  <2>5. \A x \in Range(running) : StillRunning(x)
    BY <1>1 DEF StillRunning
  <2> QED BY <2>1, <2>2, <2>3, <2>4, <2>5 DEF WorkInv, NoBatch
<1>6. CASE DecodePreempt
  <2>1. PICK s, v \in DOMAIN seqs :
          /\ DecodeTurn(s) /\ IsVictim(v, s) /\ Preempt(v)
          /\ todo' = IF v = s THEN Tail(todo) ELSE todo
          /\ phase' = phase
    BY <1>6 DEF DecodePreempt
  <2>2. /\ phase = "decode" /\ todo # <<>> /\ s = Head(todo) /\ v \in Range(running)
    BY <1>1, <2>1, RoundFacts DEF DecodeTurn, StillRunning, IsVictim, InLoop
  <2>3. \A x \in Range(todo) : x = v \/ x \in Range(todo')
    <3>1. Queue(todo, Nat)
      BY <2>2 DEF RoundInv, BudgetInv, TurnsInv
    <3>2. Range(Tail(todo)) = Range(todo) \ {s}
      BY <2>2, <3>1, QueueHead
    <3> QED BY <2>1, <3>2
  <2>4. ASSUME NEW x, Oldest(x)', NoBatch
        PROVE  PrefillDone(x)' /\ x \in Range(todo')
    <3>1. Oldest(x) /\ x < v /\ x \in Range(running')
      BY <2>1, <2>2, <2>4, PreemptedByOlder DEF Oldest
    <3>2. x \in Range(running) /\ x \in Nat /\ v \in Nat /\ ~(v <= x)
      BY <1>1, <2>2, <3>1 DEF Oldest
    <3>3. PrefillDone(x)
      BY <2>2, <3>2, RoundFacts DEF Orderly
    <3>4. PrefillDone(x)'
      BY <2>1, <2>2, <3>1, <3>3, PreemptedByOlder
    <3>5. x \in Range(todo) /\ x # v
      BY <2>2, <2>4, <3>1, <3>2, <3>3 DEF WorkInv
    <3> QED BY <2>3, <3>4, <3>5
  <2>5. running' # <<>> /\ (NoBatch' => NoBatch) /\ phase' = "decode"
    BY <2>1, <2>2, PreemptedByOlder DEF NoBatch
  <2> QED BY <2>4, <2>5 DEF WorkInv
<1>7. CASE DecodeToken
  <2>1. PICK s \in DOMAIN seqs :
          /\ DecodeTurn(s)
          /\ out' = [out EXCEPT !.decodes = Append(@, s),
                                !.finished = IF seqs[s].generated + 1 >= seqs[s].max
                                             THEN Append(@, s) ELSE @]
    BY <1>7 DEF DecodeToken
  <2>2. out'.decodes = Append(out.decodes, s)
    BY <2>1 DEF RoundInv, BudgetInv, OnceInv, OutType
  <2>3. out'.decodes # <<>>
    BY <1>1, <2>2, AppendNotEmpty
  <2> QED BY <2>3 DEF WorkInv, NoBatch
<1>8. CASE EndDecodes
  <2>1. phase' = "resume" /\ UNCHANGED <<seqs, running, swapped, out>>
    BY <1>8 DEF EndDecodes
  <2>2. NoBatch => out.preempted = <<>> /\ \A s \in Range(running) : ~PrefillDone(s)
    BY <1>8, DecodesEnd
  <2>3. \A x : PrefillDone(x)' <=> PrefillDone(x)
    BY <2>1 DEF PrefillDone, PromptLen
  <2> QED BY <2>1, <2>2, <2>3 DEF WorkInv, NoBatch
<1>9. CASE ResumeSwapped
  <2>1. phase = "resume" /\ swapped # <<>> /\ UNCHANGED <<phase, out>>
    BY <1>9 DEF ResumeSwapped
  <2>2. PreemptionMode # "recompute"
    BY <2>1, RoundFacts
  <2> QED BY <2>1, <2>2 DEF WorkInv, NoBatch
<1>10. CASE EndResumes
  <2>1. /\ phase = "resume" /\ phase' = "chunk" /\ UNCHANGED <<seqs, running, swapped, out>>
        /\ swapped # <<>> => ~ResumeFits(Head(swapped))
    BY <1>10 DEF EndResumes
  <2>2. running # <<>> \/ swapped = <<>>
    <3>1. swapped # <<>> => Head(swapped) \in Range(swapped)
      BY QueueHead DEF RoundInv, IInv, QueuesInv
    <3> QED BY <1>1, <2>1, <3>1, ResumesAlone
  <2>3. \A x : PrefillDone(x)' <=> PrefillDone(x)
    BY <2>1 DEF PrefillDone, PromptLen
  <2> QED BY <2>1, <2>2, <2>3 DEF WorkInv, NoBatch
<1>11. CASE ChunkSkip \/ EndChunks
  <2>1. /\ phase = "chunk" /\ phase' \in {"chunk", "admit"}
        /\ UNCHANGED <<seqs, running, swapped, out>>
    BY <1>11 DEF ChunkSkip, EndChunks, InLoop
  <2>2. \A x : PrefillDone(x)' <=> PrefillDone(x)
    BY <2>1 DEF PrefillDone, PromptLen
  <2> QED BY <2>1, <2>2 DEF WorkInv, NoBatch
<1>12. CASE ChunkPreempt
  <2>1. PICK s \in DOMAIN seqs : ChunkTurn(s) /\ Preempt(s)
    BY <1>12 DEF ChunkPreempt
  <2>2. phase = "chunk" /\ s \in Range(running) /\ ~PrefillDone(s)
    BY <1>1, <2>1 DEF ChunkTurn, StillRunning, InLoop
  <2>3. PreemptionMode = "recompute"
    BY <2>2, RoundFacts DEF Orderly
  <2>4. PICK t \in Range(running) : t < s
    BY <2>1, <2>2, PreemptedByOlder
  <2>5. PrefillDone(t)
    <3>1. ~(s <= t)
      BY <1>1, <2>2, <2>4
    <3> QED BY <2>2, <2>3, <3>1, RoundFacts
  <2>6. ~NoBatch
    BY <2>2, <2>3, <2>5 DEF WorkInv
  <2>7. ~NoBatch'
    BY <2>1, <2>2, <2>6, PreemptedByOlder DEF NoBatch
  <2> QED BY <2>7 DEF WorkInv
<1>13. CASE ChunkContinue \/ Admit
  <2>1. PICK e : out' = [out EXCEPT !.prefills = Append(@, e)]
    BY <1>13 DEF ChunkContinue, Admit
  <2>2. out'.prefills = Append(out.prefills, e)
    BY <2>1 DEF RoundInv, BudgetInv, OnceInv, OutType
  <2>3. out'.prefills # <<>>
    BY <1>1, <2>2, AppendNotEmpty
  <2> QED BY <2>3 DEF WorkInv, NoBatch
<1>14. CASE EndStep
  BY <1>14 DEF EndStep, WorkInv
<1> QED
  BY <1>2, <1>3, <1>4, <1>5, <1>6, <1>7, <1>8, <1>9, <1>10, <1>11, <1>12, <1>13, <1>14
  DEF Next, Step

\* A step that ends with an empty batch leaves nothing behind, or has swapped a request in.
LEMMA StepsEnd ==
  ASSUME Orderly, RoundInv, WorkInv, EndStep, NoBatch
  PROVE  \/ running = <<>> /\ waiting = <<>> /\ swapped = <<>>
         \/ PreemptionMode = "swap" /\ running # <<>>
<1>1. /\ phase = "admit" /\ budget = MaxNumBatchedTokens /\ budget >= 1 /\ out.preempted = <<>>
      /\ running # <<>> \/ swapped = <<>>
  BY EmptyBatch DEF EndStep, WorkInv
<1>2. PreemptionMode = "recompute" => running = <<>>
  <2> SUFFICES ASSUME PreemptionMode = "recompute", NEW s \in Range(running) PROVE FALSE
    BY RoundFacts
  <2>1. ~PrefillDone(s)
    BY <1>1 DEF WorkInv
  <2>2. PrefillDone(s) \/ budget = 0
    BY <1>1 DEF RoundInv, OrderInv, ChunkInv
  <2> QED BY <1>1, <2>1, <2>2
<1>3. ASSUME running = <<>>, waiting # <<>> PROVE FALSE
  <2>1. Range(running) = {} /\ Len(running) < MaxNumSeqs
    BY <1>3, RoundFacts, SchedulerAssumption
  <2>2. ~Contains(out.preempted, Head(waiting))
    BY <1>1 DEF Contains
  <2>3. AdmitTurn
    BY <1>1, <1>3, <2>1, <2>2 DEF AdmitTurn
  <2>4. AdmitFits(Head(waiting))
    BY <1>1, <1>3, <2>1, AdmitsAlone
  <2> QED BY <2>3, <2>4 DEF EndStep
<1> QED BY <1>1, <1>2, <1>3, RoundFacts

\* The loops end one after the other.
LEMMA LoopsEnd ==
  ASSUME Next
  PROVE  /\ phase = "decode" /\ phase' = "resume" => EndDecodes
         /\ phase = "admit" /\ phase' = "idle" => EndStep
<1>1. ASSUME \/ DecodeSkip \/ DecodePreempt \/ DecodeToken \/ ResumeSwapped
             \/ ChunkSkip \/ ChunkPreempt \/ ChunkContinue \/ Admit
      PROVE  phase' = phase
  BY <1>1 DEF DecodeSkip, DecodePreempt, DecodeToken, ResumeSwapped, ChunkSkip, ChunkPreempt,
              ChunkContinue, Admit
<1>2. ASSUME NEW p, NEW m, NEW a, AddRequest(p, m, a) PROVE phase' = phase
  BY <1>2 DEF AddRequest
<1>3. ASSUME NEW s \in DOMAIN seqs, FinishEarly(s) \/ Abort(s) PROVE phase' = phase
  BY <1>3 DEF FinishEarly, Abort
<1>4. BeginStep \/ EndResumes \/ EndChunks => phase' \in {"decode", "chunk", "admit"}
  BY DEF BeginStep, EndResumes, EndChunks
<1>5. (EndDecodes => phase = "decode") /\ (EndStep => phase = "admit")
  BY DEF EndDecodes, EndStep
<1> QED BY <1>1, <1>2, <1>3, <1>4, <1>5 DEF Next, Step

\* A round keeps all that the argument rests on.
LEMMA AlwaysWorkInv == Orderly => (Spec => [](RoundInv /\ WorkInv))
<1> SUFFICES ASSUME Orderly PROVE Spec => [](RoundInv /\ WorkInv)
  OBVIOUS
<1>1. Init => AgeInv /\ WorkInv
  BY DEF Init, AgeInv, EmptyIndex, Range, WorkInv
<1>2. IInv /\ AgeInv /\ [Next]_vars => AgeInv'
  <2>1. ASSUME UNCHANGED vars, AgeInv PROVE AgeInv'
    BY <2>1 DEF vars, AgeInv
  <2> QED BY <2>1, NextKeepsAge DEF Orderly
<1>3. Spec => [](IInv /\ AgeInv)
  BY <1>1, <1>2, InitKeepsIInv, NextKeepsIInv, PTL DEF Spec
<1>4. Spec => [](PreemptionMode = "recompute" => OrderInv)
  <2>1. CASE PreemptionMode = "recompute"
    <3>1. InOrder
      BY <2>1 DEF InOrder, Orderly
    <3> QED BY <3>1, AlwaysOrderInv, PTL
  <2>2. CASE PreemptionMode # "recompute"
    <3>1. PreemptionMode = "recompute" => OrderInv
      BY <2>2
    <3> QED BY <3>1, PTL
  <2> QED BY <2>1, <2>2
<1>5. RoundInv <=> /\ IInv /\ AgeInv /\ PrefillInv /\ BudgetInv
                   /\ PreemptionMode = "recompute" => OrderInv
  BY DEF RoundInv
<1>6. Spec => []RoundInv
  BY <1>3, <1>4, <1>5, AlwaysPrefillInv, AlwaysBudgetInv, PTL
<1>7. RoundInv /\ WorkInv /\ [Next]_vars => WorkInv'
  <2>1. ASSUME UNCHANGED vars, WorkInv PROVE WorkInv'
    <3>1. \A x : (PrefillDone(x)' <=> PrefillDone(x)) /\ (Oldest(x)' <=> Oldest(x))
      BY <2>1 DEF vars, PrefillDone, PromptLen, Oldest
    <3> QED BY <2>1, <3>1 DEF vars, WorkInv, NoBatch
  <2> QED BY <2>1, NextKeepsWork
<1> QED BY <1>1, <1>6, <1>7, PTL DEF Spec

\* "Deadlocked: no batch can be formed" cannot happen when every request fits the pool
\* alone and can be admitted to an empty one, which is the test of waiting_can_progress(),
\* and no entry of the prefix cache holds blocks: whatever arrives, ends early or is
\* aborted, a step with work to do forms a batch, or swaps a request in for the next one.
THEOREM EveryStepWorks == Orderly => (Spec => NoStepIsWasted)
<1> SUFFICES ASSUME Orderly PROVE Spec => NoStepIsWasted
  OBVIOUS
<1> DEFINE Works ==
             /\ phase = "decode" /\ phase' = "resume" =>
                  \/ out.decodes # <<>>
                  \/ out.preempted = <<>> /\ \A s \in ToSet(running) : ~PrefillDone(s)
             /\ phase = "admit" /\ phase' = "idle" =>
                  \/ running = <<>> /\ waiting = <<>> /\ swapped = <<>>
                  \/ Scheduled # <<>>
                  \/ PreemptionMode = "swap" /\ running # <<>>
<1>1. RoundInv /\ WorkInv /\ [Next]_vars => [Works]_vars
  <2> SUFFICES ASSUME RoundInv, WorkInv, Next PROVE Works
    OBVIOUS
  <2>1. ASSUME phase = "decode", phase' = "resume"
        PROVE  \/ out.decodes # <<>>
               \/ out.preempted = <<>> /\ \A s \in ToSet(running) : ~PrefillDone(s)
    <3>1. out.prefills = <<>> /\ EndDecodes
      BY <2>1, LoopsEnd DEF RoundInv, BudgetInv, TurnsInv
    <3> QED BY <3>1, DecodesEnd, RoundFacts DEF NoBatch
  <2>2. ASSUME phase = "admit", phase' = "idle"
        PROVE  \/ running = <<>> /\ waiting = <<>> /\ swapped = <<>>
               \/ Scheduled # <<>>
               \/ PreemptionMode = "swap" /\ running # <<>>
    <3>1. Scheduled = <<>> => NoBatch
      <4>1. /\ Scheduled = out.decodes \o FirstsOf(out.prefills)
            /\ out.decodes \in Seq(Nat) /\ FirstsOf(out.prefills) \in Seq(Nat)
            /\ out.prefills \in Seq(Nat \X Nat)
        BY TokensOfLists DEF RoundInv, BudgetInv, OnceInv, OutType, Queue
      <4> DEFINE d == out.decodes
                 f == FirstsOf(out.prefills)
                 q == out.prefills
      <4>2. DOMAIN f = 1..Len(q) /\ Len(f) = Len(q)
        <5>1. DOMAIN f = DOMAIN q
          BY DEF FirstsOf
        <5> HIDE DEF f
        <5> QED BY <4>1, <5>1
      <4>3. Scheduled = <<>> => d = <<>> /\ q = <<>>
        <5> HIDE DEF d, f, q
        <5>1. Scheduled = d \o f /\ d \in Seq(Nat) /\ f \in Seq(Nat) /\ q \in Seq(Nat \X Nat)
          BY <4>1 DEF d, f, q
        <5>2. Len(d \o f) = Len(d) + Len(f) /\ Len(d) \in Nat /\ Len(f) \in Nat
          BY <5>1
        <5>3. Scheduled = <<>> => Len(d \o f) = 0
          BY <5>1
        <5>4. Scheduled = <<>> => Len(d) = 0 /\ Len(q) = 0
          BY <4>2, <5>2, <5>3
        <5> QED BY <5>1, <5>4
      <4> QED BY <4>3 DEF NoBatch
    <3> QED BY <2>2, <3>1, LoopsEnd, StepsEnd
  <2> QED BY <2>1, <2>2
<1> QED BY <1>1, AlwaysWorkInv, PTL DEF Spec, NoStepIsWasted
=============================================================================
