------------------------------ MODULE KVBlocks ------------------------------
(***************************************************************************)
(* The paged KV pool of llm_serve/engine/block_manager.py, as operators on *)
(* a value kv, so that the block manager itself (BlockManager), the prefix *)
(* cache (PrefixCache) and the scheduler (Scheduler) share one definition: *)
(*                                                                         *)
(*   kv.free    the blocks on the free list.  Which of them pop() returns  *)
(*              is not visible to any caller, so the list is a set.        *)
(*   kv.ref     the reference count of every block                         *)
(*   kv.table   sequence id -> block table, for the ids that have one      *)
(*   kv.len     sequence id -> tokens stored, same domain                  *)
(***************************************************************************)
EXTENDS Integers, Sequences, FiniteSets, Functions

CONSTANTS BlockSize,        \* tokens per block
          NumBlocks,        \* size of the physical pool
          WatermarkBlocks   \* int(watermark * num_blocks)

ASSUME KVAssumption ==
  /\ BlockSize \in Nat \ {0}
  /\ NumBlocks \in Nat \ {0}
  /\ WatermarkBlocks \in 0..(NumBlocks - 1)

Blocks == 0..(NumBlocks - 1)

EmptyPool == [free  |-> Blocks,
              ref   |-> [b \in Blocks |-> 0],
              table |-> [s \in {} |-> <<>>],
              len   |-> [s \in {} |-> 0]]

-----------------------------------------------------------------------------
(* Queries *)

\* Mutant: the last partial block is not counted.
BlocksForTokensFloor(n) == n \div BlockSize

\* Ceiling division; the early return for a non-positive count is its value.
BlocksForTokens(n) == (n + BlockSize - 1) \div BlockSize

NumFree(kv) == Cardinality(kv.free)

BlockTable(kv, s) == IF s \in DOMAIN kv.table THEN kv.table[s] ELSE <<>>

SeqLength(kv, s) == IF s \in DOMAIN kv.len THEN kv.len[s] ELSE 0

NonNegative(n) == IF n < 0 THEN 0 ELSE n

\* Mutant: the watermark is not reserved.
CanAllocateAll(kv, n, reused) ==
  NumFree(kv) >= NonNegative(BlocksForTokens(n) - reused)

\* Admission of a new sequence leaves the watermark free.
CanAllocate(kv, n, reused) ==
  NumFree(kv) - NonNegative(BlocksForTokens(n) - reused) >= WatermarkBlocks

BlocksNeededToAppend(kv, s, n) ==
  NonNegative(BlocksForTokens(SeqLength(kv, s) + n) - Len(BlockTable(kv, s)))

\* A running sequence may dip into the watermark.
CanAppend(kv, s, n) == NumFree(kv) >= BlocksNeededToAppend(kv, s, n)

-----------------------------------------------------------------------------
(* Updates.  Each is total; the exceptions of the code are the guards *)
(* (AllocateOK, CanAppend, PinOK) of the actions that call it.         *)

Occurrences(t, b) == Cardinality({i \in DOMAIN t : t[i] = b})

Bind(f, s, v) == [x \in DOMAIN f \cup {s} |-> IF x = s THEN v ELSE f[x]]

\* n distinct blocks popped from the free list.
Fresh(free, n) == CHOOSE t \in [1..n -> free] : IsInjective(t)

AllocateOK(kv, s, n, reused) ==
  /\ s \notin DOMAIN kv.table
  /\ Len(reused) * BlockSize <= n
  /\ BlocksForTokens(n) - Len(reused) <= NumFree(kv)

\* Mutant: adopted blocks are not counted.
AllocateUncounted(kv, s, n, reused) ==
  LET fresh == Fresh(kv.free, BlocksForTokens(n) - Len(reused))
  IN [free  |-> kv.free \ Range(fresh),
      ref   |-> [b \in Blocks |-> kv.ref[b] + Occurrences(fresh, b)],
      table |-> Bind(kv.table, s, reused \o fresh),
      len   |-> Bind(kv.len, s, n)]

\* The reused blocks are adopted by reference, the others are popped.
Allocate(kv, s, n, reused) ==
  LET fresh == Fresh(kv.free, BlocksForTokens(n) - Len(reused))
      table == reused \o fresh
  IN [free  |-> kv.free \ Range(fresh),
      ref   |-> [b \in Blocks |-> kv.ref[b] + Occurrences(table, b)],
      table |-> Bind(kv.table, s, table),
      len   |-> Bind(kv.len, s, n)]

AppendTokens(kv, s, n) ==
  LET fresh == Fresh(kv.free, BlocksNeededToAppend(kv, s, n))
  IN [free  |-> kv.free \ Range(fresh),
      ref   |-> [b \in Blocks |-> kv.ref[b] + Occurrences(fresh, b)],
      table |-> Bind(kv.table, s, kv.table[s] \o fresh),
      len   |-> Bind(kv.len, s, kv.len[s] + n)]

\* Mutant: every released block goes to the free list, shared or not.
ReleaseBlocksShared(kv, t) ==
  [free  |-> kv.free \cup Range(t),
   ref   |-> [b \in Blocks |-> kv.ref[b] - Occurrences(t, b)],
   table |-> kv.table,
   len   |-> kv.len]

\* _release_block on every entry of t: the last reference returns the block.
ReleaseBlocks(kv, t) ==
  LET ref == [b \in Blocks |-> kv.ref[b] - Occurrences(t, b)]
  IN [free  |-> kv.free \cup {b \in Range(t) : ref[b] = 0},
      ref   |-> ref,
      table |-> kv.table,
      len   |-> kv.len]

\* Mutant: the length of a freed sequence is not popped.
FreeSequenceKeepsLength(kv, s) ==
  IF s \in DOMAIN kv.table
  THEN LET released == ReleaseBlocks(kv, kv.table[s])
       IN [free  |-> released.free,
           ref   |-> released.ref,
           table |-> Restrict(kv.table, DOMAIN kv.table \ {s}),
           len   |-> kv.len]
  ELSE kv

\* Freeing an unknown id does nothing.
FreeSequence(kv, s) ==
  IF s \in DOMAIN kv.table
  THEN LET released == ReleaseBlocks(kv, kv.table[s])
           rest     == DOMAIN kv.table \ {s}
       IN [free  |-> released.free,
           ref   |-> released.ref,
           table |-> Restrict(kv.table, rest),
           len   |-> Restrict(kv.len, rest)]
  ELSE kv

PinOK(kv, b) == kv.ref[b] > 0

PinBlock(kv, b) == [free  |-> kv.free,
                    ref   |-> [kv.ref EXCEPT ![b] = @ + 1],
                    table |-> kv.table,
                    len   |-> kv.len]

UnpinBlock(kv, b) == ReleaseBlocks(kv, <<b>>)

-----------------------------------------------------------------------------
(* Vocabulary of the properties *)

\* The places where a block table refers to block b.
SlotsOf(s, t, b) == {s} \X {i \in DOMAIN t : t[i] = b}

TableSlots(kv, b) == UNION {SlotsOf(s, kv.table[s], b) : s \in DOMAIN kv.table}

PoolType(kv, Ids) ==
  /\ kv = [free |-> kv.free, ref |-> kv.ref, table |-> kv.table, len |-> kv.len]
  /\ kv.free \subseteq Blocks
  /\ kv.ref \in [Blocks -> Nat]
  /\ DOMAIN kv.table \subseteq Ids
  /\ kv.table \in [DOMAIN kv.table -> Seq(Blocks)]
  /\ kv.len \in [DOMAIN kv.table -> Nat]

\* A block is counted once per table entry that names it and once per pin.
RefsExact(kv, pins) ==
  \A b \in Blocks : kv.ref[b] = Cardinality(TableSlots(kv, b)) + pins[b]

FreeExact(kv) == kv.free = {b \in Blocks : kv.ref[b] = 0}

TableFits(table, n) == n <= Len(table) * BlockSize /\ Len(table) * BlockSize < n + BlockSize
=============================================================================
