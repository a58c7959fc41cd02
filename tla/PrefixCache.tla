----------------------------- MODULE PrefixCache -----------------------------
(***************************************************************************)
(* llm_serve/engine/prefix_cache.py over llm_serve/engine/block_manager.py *)
(* under the calls a serving loop makes of the two: sequences are admitted *)
(* with the blocks a lookup finds, compute their prompt and more tokens,   *)
(* publish their prompt once it is computed, and are freed; entries are    *)
(* evicted by capacity, by evict() and by clear() at any moment.           *)
(*                                                                         *)
(* written is a ghost: for which token prefix the KV in a block was        *)
(* computed.  It says what sharing a block by reference means.             *)
(***************************************************************************)
EXTENDS PrefixIndex

CONSTANTS Seqs,         \* sequence ids
          Prompts,      \* the prompts that arrive
          MaxGenerated  \* bound: tokens generated by one sequence

ASSUME PrefixCacheAssumption ==
  /\ \A p \in Prompts : p \in Seq(Nat) /\ p # <<>>
  /\ MaxGenerated \in Nat

VARIABLES kv,       \* the pool
          cache,    \* the index
          prompt,   \* id -> prompt, for the ids that have a block table
          written   \* ghost: block -> token prefix of the KV in it

vars == <<kv, cache, prompt, written>>

Init ==
  /\ kv = EmptyPool
  /\ cache = EmptyIndex
  /\ prompt = [s \in {} |-> <<>>]
  /\ written = NothingWritten

\* Generated tokens differ from sequence to sequence.
Stream(s, n) == [i \in 1..n |-> IF i <= Len(prompt[s]) THEN prompt[s][i] ELSE s]

\* lookup(), can_allocate() and allocate(), and the prefill of the first chunk.
Admit(s, p, chunk) ==
  LET match == Match(cache, p)
      n     == Len(match) * BlockSize + chunk
  IN /\ n <= Len(p)
     /\ AllocateOK(kv, s, n, match)
     /\ CanAllocate(kv, Len(p), Len(match))
     /\ cache' = Touch(cache, p)
     /\ kv' = Allocate(kv, s, n, match)
     /\ prompt' = Bind(prompt, s, p)
     /\ written' = Compute(written, kv'.table[s], Len(match) * BlockSize, SubSeq(p, 1, n))

\* append_tokens() for the next tokens of the prompt, or a generated one.
Grow(s, n) ==
  LET len == kv.len[s] + n
  IN /\ CanAppend(kv, s, n)
     /\ len <= Len(prompt[s]) \/ (kv.len[s] >= Len(prompt[s]) /\ n = 1)
     /\ len <= Len(prompt[s]) + MaxGenerated
     /\ kv' = AppendTokens(kv, s, n)
     /\ written' = Compute(written, kv'.table[s], kv.len[s], Stream(s, len))
     /\ UNCHANGED <<cache, prompt>>

\* insert(), once the prompt is computed.
PublishPrompt(s) ==
  LET st == Insert([kv |-> kv, cache |-> cache], prompt[s], kv.table[s])
  IN /\ kv.len[s] >= Len(prompt[s])
     /\ kv' = st.kv
     /\ cache' = st.cache
     /\ written' = Keep(written, kv')
     /\ UNCHANGED prompt

\* free() of the sequence's table.
Release(s) ==
  /\ kv' = FreeSequence(kv, s)
  /\ prompt' = Restrict(prompt, DOMAIN prompt \ {s})
  /\ written' = Keep(written, kv')
  /\ UNCHANGED cache

\* evict(n); clear() evicts them all.
Evict(n) ==
  LET st == EvictOldest([kv |-> kv, cache |-> cache], n)
  IN /\ kv' = st.kv
     /\ cache' = st.cache
     /\ written' = Keep(written, kv')
     /\ UNCHANGED prompt

Next ==
  \/ \E s \in Seqs, p \in Prompts : \E chunk \in 1..Len(p) : Admit(s, p, chunk)
  \/ \E s \in DOMAIN prompt : \/ \E n \in 1..BlockSize : Grow(s, n)
                              \/ PublishPrompt(s)
                              \/ Release(s)
  \/ \E n \in 1..Len(cache.order) : Evict(n)

Spec == Init /\ [][Next]_vars

-----------------------------------------------------------------------------
(* Properties *)

\* The index and the tables together account for every reference: the LRU order
\* lists each entry once, and each entry holds exactly one pin on its block, through
\* refreshes, evictions by capacity, evict() and clear().
PinsExact == IndexType(cache) /\ RefsExact(kv, EntryPins(cache)) /\ FreeExact(kv)

\* What more than one reader can reach is final.  The block an entry maps to still
\* holds KV computed for exactly the prefix the entry is keyed by, however long ago
\* its owner was freed and whatever was allocated, evicted and published since; and
\* the block a sequence is still filling belongs to that sequence alone.
SharedBlocksAreFinal ==
  /\ \A k \in DOMAIN cache.block : written[cache.block[k]] = k
  /\ \A s \in DOMAIN kv.table :
       LET last == Len(kv.table[s])
       IN kv.len[s] < last * BlockSize => kv.ref[kv.table[s][last]] = 1

\* Sharing is invisible: every block of a sequence holds KV for that sequence's
\* own tokens, as if nothing were shared.  A block published too early, shared
\* while still being filled, or reused after it was freed breaks it.
SequencesReadTheirOwnKV ==
  \A s \in DOMAIN kv.table : \A i \in DOMAIN kv.table[s] :
    written[kv.table[s][i]] = Prefix(Stream(s, kv.len[s]), i)
=============================================================================
