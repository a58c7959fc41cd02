-------------------------- MODULE PrefixCacheProofs --------------------------
(***************************************************************************)
(* Sharing blocks through the prefix cache is invisible: for every block   *)
(* size, pool size, capacity, set of prompts and number of sequences, each *)
(* sequence reads the KV of its own tokens and nothing else.               *)
(*                                                                         *)
(* The invariant relates three views of a block: who refers to it          *)
(* (PoolInv, IndexInv), what was computed into it, and who may still write *)
(* it (ContentInv).  The last is what makes it inductive: a block that is  *)
(* not full has one reader, so nobody sees it being written.               *)
(***************************************************************************)
EXTENDS PrefixCache, PoolProofs

\* What each sequence has computed so far.
Streams == [s \in DOMAIN kv.table |-> Stream(s, kv.len[s])]

IInv ==
  /\ PoolInv(kv, Seqs, EntryPins(cache))
  /\ IndexInv(cache)
  /\ prompt \in [DOMAIN kv.table -> Prompts]
  /\ ContentInv(kv, cache, written, Streams)

Tokens == Nat \cup Seqs

\* A stream holds as many tokens as asked for.
LEMMA StreamTokens ==
  ASSUME NEW s \in DOMAIN kv.table, NEW n \in Nat, IInv
  PROVE  /\ Stream(s, n) \in Seq(Tokens) /\ Len(Stream(s, n)) = n
         /\ \A i \in 1..n : i <= Len(prompt[s]) => Stream(s, n)[i] = prompt[s][i]
         /\ \A m \in 0..n : \A i \in 1..m : Stream(s, m)[i] = Stream(s, n)[i]
<1>1. prompt[s] \in Seq(Nat) /\ s \in Seqs
  BY PrefixCacheAssumption DEF IInv, PoolInv, PoolType
<1>2. ASSUME NEW i \in 1..n
      PROVE  (IF i <= Len(prompt[s]) THEN prompt[s][i] ELSE s) \in Tokens
  BY <1>1 DEF Tokens
<1>3. Stream(s, n) \in [1..n -> Tokens]
  BY <1>2 DEF Stream
<1>4. Stream(s, n) \in Seq(Tokens) /\ Len(Stream(s, n)) = n
  BY <1>3
<1>5. \A i \in 1..n : i <= Len(prompt[s]) => Stream(s, n)[i] = prompt[s][i]
  BY DEF Stream
<1>6. \A m \in 0..n : \A i \in 1..m : Stream(s, m)[i] = Stream(s, n)[i]
  BY DEF Stream
<1> QED
  BY <1>4, <1>5, <1>6

\* At the start there is nothing to account for.
LEMMA InitIInv == Init => IInv
<1> SUFFICES ASSUME Init PROVE IInv
  OBVIOUS
<1>1. cache = EmptyIndex /\ cache.order = <<>> /\ DOMAIN cache.block = {}
  BY DEF Init, EmptyIndex
<1>2. EntryPins(cache) = [b \in Blocks |-> 0]
  <2>1. \A b \in Blocks : {k \in DOMAIN cache.block : cache.block[k] = b} = {}
    BY <1>1
  <2>2. Cardinality({}) = 0
    BY FS_EmptySet
  <2> QED
    BY <2>1, <2>2 DEF EntryPins
<1>3. PoolInv(kv, Seqs, EntryPins(cache))
  BY <1>2, EmptyPoolInv DEF Init
<1>4. IndexInv(cache)
  BY <1>1 DEF IndexInv, EmptyIndex, IsInjective, Range
<1>5. DOMAIN kv.table = {} /\ prompt \in [DOMAIN kv.table -> Prompts]
  BY DEF Init, EmptyPool
<1>6. ContentInv(kv, cache, written, Streams)
  BY <1>1, <1>5 DEF ContentInv, ReadsOwn, EntriesKeepKV, TailsExclusive, AllFit
<1> QED
  BY <1>3, <1>4, <1>5, <1>6 DEF IInv

\* Admission on a cache hit.
LEMMA AdmitKeepsIInv ==
  ASSUME IInv, NEW s \in Seqs, NEW p \in Prompts, NEW chunk \in 1..Len(p), Admit(s, p, chunk)
  PROVE  IInv'
<1> DEFINE match == Match(cache, p)
           n     == Len(match) * BlockSize + chunk
           str   == SubSeq(p, 1, n)
<1>1. p \in Seq(Nat) /\ p # <<>>
  BY PrefixCacheAssumption
<1>2. PoolInv(kv, Seqs, EntryPins(cache)) /\ IndexInv(cache)
      /\ ContentInv(kv, cache, written, Streams)
  BY DEF IInv
<1>3. /\ n <= Len(p) /\ AllocateOK(kv, s, n, match)
      /\ cache' = Touch(cache, p) /\ kv' = Allocate(kv, s, n, match)
      /\ prompt' = Bind(prompt, s, p)
      /\ written' = Compute(written, kv'.table[s], Len(match) * BlockSize, str)
  BY DEF Admit
<1>4. n \in Nat /\ Len(p) \in Nat
  <2>1. Len(match) * BlockSize \in Nat
    BY <1>1, <1>2, MatchOfPrompt
  <2> QED
    BY <1>1, <2>1
<1> HIDE DEF match, n
<1>5. IndexInv(cache') /\ cache'.block = cache.block
  BY <1>1, <1>2, <1>3, TouchKeepsIndex
<1>6. EntryPins(cache') = EntryPins(cache)
  BY <1>5 DEF EntryPins
<1>7. /\ s \notin DOMAIN kv.table /\ DOMAIN kv.len = DOMAIN kv.table
      /\ DOMAIN kv'.table = DOMAIN kv.table \cup {s} /\ kv'.len[s] = n
      /\ \A x \in DOMAIN kv.table : kv'.len[x] = kv.len[x]
  <2>1. s \notin DOMAIN kv.table /\ DOMAIN kv.len = DOMAIN kv.table
    BY <1>2, <1>3 DEF AllocateOK, PoolInv, PoolType
  <2> QED
    BY <1>3, <2>1 DEF Allocate, Bind
<1>8. /\ prompt' \in [DOMAIN kv'.table -> Prompts] /\ prompt'[s] = p
      /\ \A x \in DOMAIN kv.table : prompt'[x] = prompt[x]
  BY <1>3, <1>7 DEF IInv, Bind
<1>9. Streams'[s] = str
  <2>1. Streams'[s] = [i \in 1..n |-> IF i <= Len(p) THEN p[i] ELSE s]
    BY <1>7, <1>8 DEF Streams, Stream
  <2>2. str = [i \in 1..n |-> p[i]]
    BY <1>1, <1>3, <1>4
  <2>3. \A i \in 1..n : i <= Len(p)
    BY <1>3, <1>4
  <2> HIDE DEF str
  <2> QED
    BY <2>1, <2>2, <2>3
<1>10. \A x \in DOMAIN kv.table : Streams'[x] = Streams[x]
  BY <1>7, <1>8 DEF Streams, Stream
<1>11. str \in Seq(Nat) /\ Extends(str, p, Len(p) - n)
  <2>1. str \in Seq(Nat) /\ Len(str) = n /\ \A j \in 1..n : str[j] = p[j]
    BY <1>1, <1>3, <1>4
  <2> HIDE DEF str
  <2> QED
    BY <1>4, <2>1 DEF Extends
<1> HIDE DEF str
<1>12. /\ PoolInv(kv', Seqs, EntryPins(cache))
       /\ ContentInv(kv', cache, written', Streams')
  <2> DEFINE ns  == Streams'
             nk  == kv'
             old == Streams
             T   == Nat
  <2>1. /\ nk = Allocate(kv, s, n, match) /\ ns[s] = str /\ OthersKeep(old, ns, s, kv)
        /\ ContentInv(kv, cache, written, old) /\ match = Match(cache, p)
        /\ str \in Seq(T)
    BY <1>2, <1>3, <1>9, <1>10, <1>11 DEF OthersKeep, match
  <2>2. written' = Compute(written, nk.table[s], Len(match) * BlockSize, str)
    BY <1>3
  <2> HIDE DEF ns, nk, old, T
  <2>3. /\ PoolInv(nk, Seqs, EntryPins(cache))
        /\ ContentInv(nk, cache,
                      Compute(written, nk.table[s], Len(match) * BlockSize, str), ns)
    BY <1>1, <1>2, <1>3, <1>4, <1>11, <2>1, AdoptMatchKeepsAll
  <2> QED
    BY <2>2, <2>3 DEF ns, nk
<1>13. ContentInv(kv', cache', written', Streams')
  BY <1>5, <1>12 DEF ContentInv, ReadsOwn, EntriesKeepKV, TailsExclusive
<1> QED
  BY <1>5, <1>6, <1>8, <1>12, <1>13 DEF IInv

\* A sequence computes more tokens.
LEMMA GrowKeepsIInv ==
  ASSUME IInv, NEW s \in DOMAIN prompt, NEW n \in 1..BlockSize, Grow(s, n)
  PROVE  IInv'
<1> DEFINE str == Stream(s, kv.len[s] + n)
<1>1. PoolInv(kv, Seqs, EntryPins(cache)) /\ IndexInv(cache)
      /\ ContentInv(kv, cache, written, Streams) /\ s \in DOMAIN kv.table
      /\ prompt \in [DOMAIN kv.table -> Prompts]
  BY DEF IInv
<1>2. n \in Nat /\ kv.len[s] \in Nat /\ DOMAIN kv.len = DOMAIN kv.table
  BY <1>1, KVAssumption DEF PoolInv, PoolType
<1>3. /\ CanAppend(kv, s, n) /\ kv' = AppendTokens(kv, s, n)
      /\ written' = Compute(written, kv'.table[s], kv.len[s], str)
      /\ cache' = cache /\ prompt' = prompt
  BY DEF Grow
<1>4. PoolInv(kv', Seqs, EntryPins(cache'))
  BY <1>1, <1>2, <1>3, AppendKeepsInv
<1>5. /\ DOMAIN kv'.table = DOMAIN kv.table /\ kv'.len[s] = kv.len[s] + n
      /\ \A x \in DOMAIN kv.table : x # s => kv'.len[x] = kv.len[x]
  BY <1>1, <1>2, <1>3 DEF AppendTokens, Bind
<1>6. Streams'[s] = str /\ \A x \in DOMAIN kv.table : x # s => Streams'[x] = Streams[x]
  BY <1>1, <1>3, <1>5 DEF Streams, Stream
<1>7. /\ Streams[s] \in Seq(Tokens) /\ Len(Streams[s]) = kv.len[s]
      /\ str \in Seq(Tokens) /\ Len(str) = kv.len[s] + n
      /\ \A j \in 1..kv.len[s] : Streams[s][j] = str[j]
  <2>1. kv.len[s] + n \in Nat /\ kv.len[s] \in 0..(kv.len[s] + n)
    BY <1>2
  <2>2. Streams[s] = Stream(s, kv.len[s])
    BY <1>1 DEF Streams
  <2>3. Streams[s] \in Seq(Tokens) /\ Len(Streams[s]) = kv.len[s]
    BY <1>1, <1>2, <2>2, StreamTokens
  <2>4. /\ str \in Seq(Tokens) /\ Len(str) = kv.len[s] + n
        /\ \A m \in 0..(kv.len[s] + n) : \A i \in 1..m : Stream(s, m)[i] = str[i]
    BY <1>1, <2>1, StreamTokens
  <2> QED
    BY <2>1, <2>2, <2>3, <2>4
<1>8. ContentInv(kv', cache, written', Streams')
  <2> HIDE DEF str
  <2> DEFINE ns == Streams'
             nk == kv'
  <2>1. /\ nk = AppendTokens(kv, s, n) /\ ns[s] = str
        /\ \A x \in DOMAIN kv.table : x # s => ns[x] = Streams[x]
    BY <1>3, <1>6
  <2>2. written' = Compute(written, nk.table[s], kv.len[s], str)
    BY <1>3
  <2> HIDE DEF ns, nk
  <2>3. ContentInv(nk, cache, Compute(written, nk.table[s], kv.len[s], str), ns)
    <3> DEFINE old == Streams
               T   == Tokens
    <3>1. /\ ContentInv(kv, cache, written, old)
          /\ old[s] \in Seq(T) /\ Len(old[s]) = kv.len[s]
          /\ str \in Seq(T) /\ Extends(old[s], str, n) /\ OthersKeep(old, ns, s, kv)
      BY <1>1, <1>7, <2>1 DEF Extends, OthersKeep
    <3>2. /\ PoolInv(kv, Seqs, EntryPins(cache)) /\ IndexInv(cache) /\ s \in DOMAIN kv.table
          /\ n \in Nat /\ CanAppend(kv, s, n)
      BY <1>1, <1>2, <1>3
    <3> HIDE DEF old, T
    <3> QED
      BY <2>1, <3>1, <3>2, GrowKeepsContent
  <2> QED
    BY <2>2, <2>3 DEF ns, nk
<1> QED
  BY <1>1, <1>3, <1>4, <1>5, <1>8 DEF IInv

\* The prompt of a sequence is published.
LEMMA PublishKeepsIInv ==
  ASSUME IInv, NEW s \in DOMAIN prompt, PublishPrompt(s)
  PROVE  IInv'
<1> DEFINE new == Insert([kv |-> kv, cache |-> cache], prompt[s], kv.table[s])
<1>1. PoolInv(kv, Seqs, EntryPins(cache)) /\ IndexInv(cache)
      /\ ContentInv(kv, cache, written, Streams) /\ s \in DOMAIN kv.table
      /\ prompt \in [DOMAIN kv.table -> Prompts] /\ prompt[s] \in Seq(Nat)
  BY PrefixCacheAssumption DEF IInv
<1>2. kv.len[s] \in Nat
  BY <1>1 DEF PoolInv, PoolType
<1>3. /\ kv.len[s] >= Len(prompt[s]) /\ kv' = new.kv /\ cache' = new.cache
      /\ written' = Keep(written, kv') /\ prompt' = prompt
  BY DEF PublishPrompt
<1>4. /\ Streams[s] \in Seq(Tokens) /\ Len(Streams[s]) = kv.len[s]
      /\ Len(prompt[s]) <= kv.len[s]
      /\ \A i \in 1..Len(prompt[s]) : prompt[s][i] = Streams[s][i]
  <2>1. Streams[s] = Stream(s, kv.len[s])
    BY <1>1 DEF Streams
  <2>2. Len(prompt[s]) \in Nat /\ Len(prompt[s]) <= kv.len[s]
    BY <1>1, <1>2, <1>3
  <2>3. \A i \in 1..Len(prompt[s]) : i \in 1..kv.len[s] /\ i <= Len(prompt[s])
    BY <1>2, <2>2
  <2>4. /\ Stream(s, kv.len[s]) \in Seq(Tokens) /\ Len(Stream(s, kv.len[s])) = kv.len[s]
        /\ \A i \in 1..kv.len[s] :
             i <= Len(prompt[s]) => Stream(s, kv.len[s])[i] = prompt[s][i]
    BY <1>1, <1>2, StreamTokens
  <2>5. \A i \in 1..Len(prompt[s]) : prompt[s][i] = Streams[s][i]
    BY <2>1, <2>3, <2>4
  <2> QED
    BY <2>1, <2>2, <2>4, <2>5
<1>5. /\ PoolInv(new.kv, Seqs, EntryPins(new.cache)) /\ IndexInv(new.cache)
      /\ new.kv.table = kv.table /\ new.kv.len = kv.len
      /\ ContentInv(new.kv, new.cache, written, Streams)
  <2> DEFINE p   == prompt[s]
             old == Streams
             T   == Tokens
             res == new
  <2>1. /\ ContentInv(kv, cache, written, old) /\ old[s] \in Seq(T)
        /\ Len(old[s]) = kv.len[s] /\ p \in Seq(Nat) /\ StartsWith(old[s], p)
        /\ res = Insert([kv |-> kv, cache |-> cache], p, kv.table[s])
    BY <1>1, <1>2, <1>4 DEF StartsWith
  <2> HIDE DEF p, old, T, new, res
  <2>2. /\ PoolInv(res.kv, Seqs, EntryPins(res.cache)) /\ IndexInv(res.cache)
        /\ res.kv.table = kv.table /\ res.kv.len = kv.len
        /\ ContentInv(res.kv, res.cache, written, old)
    BY <1>1, <2>1, InsertKeepsAll
  <2> QED
    BY <2>2 DEF res, old
<1> HIDE DEF new
<1>6. Streams' = Streams
  BY <1>3, <1>5 DEF Streams, Stream
<1>7. ContentInv(kv', cache', written', Streams')
  <2> DEFINE nk == kv'
             nc == cache'
  <2>1. /\ PoolInv(nk, Seqs, EntryPins(nc)) /\ IndexInv(nc)
        /\ ContentInv(nk, nc, written, Streams)
    BY <1>3, <1>5
  <2> HIDE DEF nk, nc
  <2>2. ContentInv(nk, nc, Keep(written, nk), Streams)
    BY <2>1, ShrinkKeepsContent
  <2> QED
    BY <1>3, <1>6, <2>2 DEF nk, nc
<1> QED
  BY <1>1, <1>3, <1>5, <1>7 DEF IInv

\* A sequence is freed.
LEMMA ReleaseKeepsIInv ==
  ASSUME IInv, NEW s \in DOMAIN prompt, Release(s)
  PROVE  IInv'
<1>1. PoolInv(kv, Seqs, EntryPins(cache)) /\ IndexInv(cache)
      /\ ContentInv(kv, cache, written, Streams)
      /\ prompt \in [DOMAIN kv.table -> Prompts] /\ PoolType(kv, Seqs)
  BY DEF IInv, PoolInv
<1>2. /\ kv' = FreeSequence(kv, s) /\ prompt' = Restrict(prompt, DOMAIN prompt \ {s})
      /\ written' = Keep(written, kv') /\ cache' = cache
  BY DEF Release
<1>3. /\ DOMAIN kv'.table = DOMAIN kv.table \ {s}
      /\ \A x \in DOMAIN kv'.table : kv'.len[x] = kv.len[x]
  BY <1>1, <1>2, FreeLeavesOthers
<1>4. /\ prompt' \in [DOMAIN kv'.table -> Prompts]
      /\ \A x \in DOMAIN kv'.table : prompt'[x] = prompt[x]
  BY <1>1, <1>2, <1>3 DEF Restrict
<1>5. \A x \in DOMAIN kv.table : x # s => Streams'[x] = Streams[x]
  BY <1>3, <1>4 DEF Streams, Stream
<1>6. PoolInv(kv', Seqs, EntryPins(cache)) /\ ContentInv(kv', cache, written', Streams')
  <2> DEFINE nk  == kv'
             ns  == Streams'
             old == Streams
  <2>1. /\ nk = FreeSequence(kv, s) /\ OthersKeep(old, ns, s, kv)
        /\ ContentInv(kv, cache, written, old)
    BY <1>1, <1>2, <1>5 DEF OthersKeep
  <2> HIDE DEF nk, ns, old
  <2>2. PoolInv(nk, Seqs, EntryPins(cache)) /\ ContentInv(nk, cache, Keep(written, nk), ns)
    BY <1>1, <2>1, FreeKeepsAll
  <2> QED
    BY <1>2, <2>2 DEF nk, ns
<1> QED
  BY <1>1, <1>2, <1>4, <1>6 DEF IInv

\* Entries are evicted.
LEMMA EvictKeepsIInv ==
  ASSUME IInv, NEW n \in 1..Len(cache.order), Evict(n)
  PROVE  IInv'
<1> DEFINE st  == [kv |-> kv, cache |-> cache]
           new == EvictOldest(st, n)
<1>1. PoolInv(kv, Seqs, EntryPins(cache)) /\ IndexInv(cache)
      /\ ContentInv(kv, cache, written, Streams)
      /\ prompt \in [DOMAIN kv.table -> Prompts]
  BY DEF IInv
<1>2. /\ PoolInv(new.kv, Seqs, EntryPins(new.cache)) /\ IndexInv(new.cache)
      /\ DOMAIN new.cache.block \subseteq DOMAIN cache.block
      /\ \A k \in DOMAIN new.cache.block : new.cache.block[k] = cache.block[k]
      /\ new.kv.table = kv.table /\ new.kv.len = kv.len
  <2>1. PoolInv(st.kv, Seqs, EntryPins(st.cache)) /\ IndexInv(st.cache)
        /\ st.kv = kv /\ st.cache = cache /\ n \in 0..Len(st.cache.order)
    BY <1>1
  <2> HIDE DEF st
  <2> QED
    BY <2>1, EvictKeepsInv
<1>3. /\ kv' = new.kv /\ cache' = new.cache /\ prompt' = prompt
      /\ written' = Keep(written, kv')
  BY DEF Evict
<1> HIDE DEF new
<1>4. Streams' = Streams
  BY <1>2, <1>3 DEF Streams, Stream
<1>5. ContentInv(kv', cache', written', Streams')
  <2> DEFINE nk == kv'
             nc == cache'
  <2>1. /\ PoolInv(nk, Seqs, EntryPins(nc)) /\ IndexInv(nc)
        /\ nk.table = kv.table /\ nk.len = kv.len
        /\ DOMAIN nc.block \subseteq DOMAIN cache.block
        /\ \A k \in DOMAIN nc.block : nc.block[k] = cache.block[k]
    BY <1>2, <1>3
  <2> HIDE DEF nk, nc
  <2>2. ContentInv(nk, nc, Keep(written, nk), Streams)
    BY <1>1, <2>1, ShrinkKeepsContent
  <2> QED
    BY <1>3, <1>4, <2>2 DEF nk, nc
<1> QED
  BY <1>1, <1>2, <1>3, <1>5 DEF IInv

-----------------------------------------------------------------------------
(* The theorems *)

\* Every step of the model keeps the invariant.
THEOREM NextKeepsIInv == IInv /\ [Next]_vars => IInv'
<1> SUFFICES ASSUME IInv, [Next]_vars PROVE IInv'
  OBVIOUS
<1>1. ASSUME NEW s \in Seqs, NEW p \in Prompts, NEW chunk \in 1..Len(p), Admit(s, p, chunk)
      PROVE  IInv'
  BY <1>1, AdmitKeepsIInv
<1>2. ASSUME NEW s \in DOMAIN prompt, NEW n \in 1..BlockSize, Grow(s, n)
      PROVE  IInv'
  BY <1>2, GrowKeepsIInv
<1>3. ASSUME NEW s \in DOMAIN prompt, PublishPrompt(s)
      PROVE  IInv'
  BY <1>3, PublishKeepsIInv
<1>4. ASSUME NEW s \in DOMAIN prompt, Release(s)
      PROVE  IInv'
  BY <1>4, ReleaseKeepsIInv
<1>5. ASSUME NEW n \in 1..Len(cache.order), Evict(n)
      PROVE  IInv'
  BY <1>5, EvictKeepsIInv
<1>6. CASE UNCHANGED vars
  BY <1>6 DEF vars, IInv, Streams, Stream
<1> QED
  BY <1>1, <1>2, <1>3, <1>4, <1>5, <1>6 DEF Next

\* The invariant holds in every reachable state.
THEOREM AlwaysIInv == Spec => []IInv
<1> QED
  BY InitIInv, NextKeepsIInv, PTL DEF Spec

\* Every reference is one table entry or one entry of the index, through lookups,
\* refreshes and every kind of eviction.
THEOREM PinsExactAlways == Spec => []PinsExact
<1>1. IInv => PinsExact
  <2> SUFFICES ASSUME IInv PROVE PinsExact
    OBVIOUS
  <2>1. ToSet(cache.order) = Range(cache.order)
    BY DEF ToSet, Range
  <2>2. IndexType(cache)
    BY <2>1 DEF IInv, IndexInv, IndexType
  <2> QED
    BY <2>2 DEF IInv, PoolInv, PinsExact
<1> QED
  BY <1>1, AlwaysIInv, PTL

\* An entry maps to the KV of the prefix it is keyed by, and the block a sequence is
\* still filling has that sequence as its only reader.
THEOREM SharedBlocksAlwaysFinal == Spec => []SharedBlocksAreFinal
<1>1. IInv => SharedBlocksAreFinal
  <2> SUFFICES ASSUME IInv PROVE SharedBlocksAreFinal
    OBVIOUS
  <2>1. PoolInv(kv, Seqs, EntryPins(cache)) /\ IndexInv(cache)
        /\ ContentInv(kv, cache, written, Streams)
    BY DEF IInv
  <2>2. \A k \in DOMAIN cache.block : written[cache.block[k]] = k
    BY <2>1 DEF ContentInv, EntriesKeepKV
  <2>3. ASSUME NEW s \in DOMAIN kv.table,
               kv.len[s] < Len(kv.table[s]) * BlockSize
        PROVE  kv.ref[kv.table[s][Len(kv.table[s])]] = 1
    <3>1. kv.table[s] \in Seq(Blocks) /\ kv.len[s] \in Nat
      BY <2>1 DEF PoolInv, PoolType
    <3>2. Len(kv.table[s]) # 0
      BY <2>3, <3>1, KVAssumption
    <3>3. Len(kv.table[s]) \in DOMAIN kv.table[s]
      BY <3>1, <3>2
    <3> QED
      BY <2>1, <2>3, <3>3, TailHasOneReader
  <2> QED
    BY <2>2, <2>3 DEF SharedBlocksAreFinal
<1> QED
  BY <1>1, AlwaysIInv, PTL

\* Every block of every sequence holds KV for that sequence's own tokens, as if no
\* block were ever shared.
THEOREM ReadsOwnKVAlways == Spec => []SequencesReadTheirOwnKV
<1>1. IInv => SequencesReadTheirOwnKV
  BY DEF IInv, ContentInv, ReadsOwn, Streams, SequencesReadTheirOwnKV
<1> QED
  BY <1>1, AlwaysIInv, PTL
=============================================================================
