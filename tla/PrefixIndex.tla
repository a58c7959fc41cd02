----------------------------- MODULE PrefixIndex -----------------------------
(***************************************************************************)
(* The index of llm_serve/engine/prefix_cache.py as operators on a value:  *)
(*                                                                         *)
(*   cache.order   the keys of _entries, least recently used first         *)
(*   cache.block   key -> pinned block id                                  *)
(*                                                                         *)
(* The chained hash of block i covers the tokens of blocks 1..i; it is     *)
(* taken to be injective, so the key is that prefix itself.                *)
(***************************************************************************)
EXTENDS KVBlocks, SequencesExt

CONSTANTS PrefixCaching,   \* PrefixCache(enabled=...)
          MaxEntries,      \* PrefixCache(max_entries=...), or NoLimit for None
          NoLimit

ASSUME CacheAssumption ==
  PrefixCaching \in BOOLEAN /\ (MaxEntries = NoLimit \/ MaxEntries \in Nat)

EmptyIndex == [order |-> <<>>, block |-> [k \in {} |-> 0]]

\* Mutant: the hash of a block covers its own tokens only.
HashBlocksUnchained(prompt) ==
  [i \in 1..(Len(prompt) \div BlockSize) |->
     SubSeq(prompt, (i - 1) * BlockSize + 1, i * BlockSize)]

\* Mutant: the trailing partial block gets a key too.
HashBlocksPartial(prompt) ==
  [i \in 1..BlocksForTokens(Len(prompt)) |->
     SubSeq(prompt, 1, IF i * BlockSize < Len(prompt) THEN i * BlockSize ELSE Len(prompt))]

\* Keys of the full blocks of a prompt; a trailing partial block has none.
HashBlocks(prompt) ==
  [i \in 1..(Len(prompt) \div BlockSize) |-> SubSeq(prompt, 1, i * BlockSize)]

\* A list without some of its members, in the same order.
Without(list, members) ==
  LET kept     == {i \in DOMAIN list : list[i] \notin members}
      place(i) == Cardinality({j \in kept : j <= i})
  IN [n \in 1..Cardinality(kept) |-> list[CHOOSE i \in kept : place(i) = n]]

MoveToEnd(order, keys) == Without(order, ToSet(keys)) \o keys

-----------------------------------------------------------------------------
(* lookup() *)

\* The keys present before the first miss.
HitKeys(cache, prompt) ==
  LET keys == HashBlocks(prompt)
      hits == {n \in 0..Len(keys) : \A i \in 1..n : keys[i] \in DOMAIN cache.block}
  IN SubSeq(keys, 1, CHOOSE n \in hits : \A m \in hits : m <= n)

\* One token at least is left to compute.
UsableHits(prompt, hits) == IF hits * BlockSize >= Len(prompt) THEN hits - 1 ELSE hits

\* The blocks to reuse.
Match(cache, prompt) ==
  LET keys == HitKeys(cache, prompt)
  IN IF PrefixCaching
     THEN [i \in 1..UsableHits(prompt, Len(keys)) |-> cache.block[keys[i]]]
     ELSE <<>>

\* The effect of a lookup: every hit becomes most recently used, the last too.
Touch(cache, prompt) ==
  IF PrefixCaching
  THEN [cache EXCEPT !.order = MoveToEnd(@, HitKeys(cache, prompt))]
  ELSE cache

-----------------------------------------------------------------------------
(* insert() and evict(): they change the pool too, so they take and return *)
(* the pair [kv, cache].                                                   *)

\* Mutant: an evicted entry keeps its pin.
EvictOldestPinned(st, n) ==
  LET kept == SubSeq(st.cache.order, n + 1, Len(st.cache.order))
  IN [kv    |-> st.kv,
      cache |-> [order |-> kept, block |-> Restrict(st.cache.block, ToSet(kept))]]

EvictOldest(st, n) ==
  LET victims == SubSeq(st.cache.order, 1, n)
      kept    == SubSeq(st.cache.order, n + 1, Len(st.cache.order))
  IN [kv    |-> ReleaseBlocks(st.kv, [i \in 1..Len(victims) |-> st.cache.block[victims[i]]]),
      cache |-> [order |-> kept, block |-> Restrict(st.cache.block, ToSet(kept))]]

EnforceCapacity(st) ==
  IF MaxEntries # NoLimit /\ Len(st.cache.order) > MaxEntries
  THEN EvictOldest(st, Len(st.cache.order) - MaxEntries)
  ELSE st

\* The full blocks of the prompt that the table has, by key.
PublishedKeys(prompt, table) ==
  LET all == HashBlocks(prompt)
  IN SubSeq(all, 1, IF Len(all) < Len(table) THEN Len(all) ELSE Len(table))

\* Keys already present keep their block.
IndexWith(block, keys, table) ==
  [k \in DOMAIN block \cup ToSet(keys) |->
     IF k \in DOMAIN block THEN block[k] ELSE table[CHOOSE i \in DOMAIN keys : keys[i] = k]]

\* Mutant: a published block is not pinned.
PublishUnpinned(st, prompt, table) ==
  LET keys == PublishedKeys(prompt, table)
  IN [kv    |-> st.kv,
      cache |-> [order |-> MoveToEnd(st.cache.order, keys),
                 block |-> IndexWith(st.cache.block, keys, table)]]

\* Keys already present are refreshed; each other one pins its block.
Publish(st, prompt, table) ==
  LET keys  == PublishedKeys(prompt, table)
      added == {i \in DOMAIN keys : keys[i] \notin DOMAIN st.cache.block}
  IN [kv    |-> [st.kv EXCEPT !.ref =
                   [b \in Blocks |-> @[b] + Cardinality({i \in added : table[i] = b})]],
      cache |-> [order |-> MoveToEnd(st.cache.order, keys),
                 block |-> IndexWith(st.cache.block, keys, table)]]

Insert(st, prompt, table) ==
  IF PrefixCaching THEN EnforceCapacity(Publish(st, prompt, table)) ELSE st

-----------------------------------------------------------------------------
(* Vocabulary of the properties *)

\* The pins the entries of the index hold.
EntryPins(cache) ==
  [b \in Blocks |-> Cardinality({k \in DOMAIN cache.block : cache.block[k] = b})]

IndexType(cache) ==
  /\ IsInjective(cache.order)
  /\ ToSet(cache.order) = DOMAIN cache.block
  /\ \A k \in DOMAIN cache.block : cache.block[k] \in Blocks

\* What block i of a sequence holds: KV computed for the tokens of the stream up
\* to the end of that block, or up to the last token of the stream.  KV depends
\* on every earlier token, so the prefix identifies it.
Prefix(stream, i) ==
  SubSeq(stream, 1, IF i * BlockSize < Len(stream) THEN i * BlockSize ELSE Len(stream))

NothingWritten == [b \in Blocks |-> <<>>]

\* KV of the stream is computed from token `from` + 1 on into the blocks of table.
Compute(written, table, from, stream) ==
  [b \in Blocks |->
     LET at == {i \in DOMAIN table : table[i] = b /\ i * BlockSize > from}
     IN IF at = {} THEN written[b] ELSE Prefix(stream, CHOOSE i \in at : TRUE)]

\* The content of a freed block is gone.
Keep(written, kv) == [b \in Blocks |-> IF b \in kv.free THEN <<>> ELSE written[b]]
=============================================================================
