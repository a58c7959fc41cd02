---------------------------- MODULE BlockManager ----------------------------
(***************************************************************************)
(* llm_serve/engine/block_manager.py under every legal sequence of calls:  *)
(* one action per public operation that changes state.  The callers are    *)
(* the sequences of Seqs, and whoever takes references with pin() (the     *)
(* prefix cache): pins counts the references pinned and not yet given      *)
(* back, which the callers know and the manager does not.  A call the code *)
(* rejects with BlockAllocationError changes nothing and is no step.       *)
(***************************************************************************)
EXTENDS KVBlocks

CONSTANTS Seqs,        \* sequence ids
          MaxTokens,   \* bound: tokens of one sequence
          MaxPins      \* bound: pins outstanding on one block

ASSUME BoundsAssumption == MaxTokens \in Nat /\ MaxPins \in Nat

VARIABLES kv,     \* _free, _ref_counts, _tables, _lengths
          pins    \* block -> references taken with pin()

vars == <<kv, pins>>

Init == kv = EmptyPool /\ pins = [b \in Blocks |-> 0]

\* allocate(): the reused blocks come from a holder of pins.
AllocateCall(s, n, reused) ==
  /\ AllocateOK(kv, s, n, reused)
  /\ kv' = Allocate(kv, s, n, reused)
  /\ UNCHANGED pins

AppendCall(s, n) ==
  /\ s \in DOMAIN kv.table
  /\ CanAppend(kv, s, n)
  /\ SeqLength(kv, s) + n <= MaxTokens
  /\ kv' = AppendTokens(kv, s, n)
  /\ UNCHANGED pins

FreeCall(s) ==
  /\ kv' = FreeSequence(kv, s)
  /\ UNCHANGED pins

PinCall(b) ==
  /\ PinOK(kv, b)
  /\ pins[b] < MaxPins
  /\ kv' = PinBlock(kv, b)
  /\ pins' = [pins EXCEPT ![b] = @ + 1]

\* A caller gives back only what it pinned.
UnpinCall(b) ==
  /\ pins[b] > 0
  /\ kv' = UnpinBlock(kv, b)
  /\ pins' = [pins EXCEPT ![b] = @ - 1]

\* reset() forgets the pins too; their holders must not use them again.
ResetCall ==
  /\ kv' = EmptyPool
  /\ pins' = [b \in Blocks |-> 0]

Pinned == {b \in Blocks : pins[b] > 0}

Next ==
  \/ \E s \in Seqs, n \in 1..MaxTokens :
       \/ \E k \in 0..n : \E reused \in [1..k -> Pinned] :
            AllocateCall(s, n, reused)
       \/ AppendCall(s, n)
  \/ \E s \in Seqs : FreeCall(s)
  \/ \E b \in Blocks : PinCall(b) \/ UnpinCall(b)
  \/ ResetCall

Spec == Init /\ [][Next]_vars

-----------------------------------------------------------------------------
(* Properties *)

TypeOK == PoolType(kv, Seqs) /\ pins \in [Blocks -> Nat]

\* Reference counts are exact: the count of a block (_ref_counts) is the number
\* of block-table entries that name it plus the pins outstanding on it, however
\* allocate, append_tokens, free, pin and unpin follow each other.  A count too
\* low frees a block in use; one too high leaks it.
RefCountsExact == RefsExact(kv, pins)

\* The free list (_free) is exactly the set of blocks nobody refers to: no block
\* is handed out while a table or a pin holds it, and none is lost.
FreeListExact == FreeExact(kv)

\* A table has room for every token of its sequence and less than one block to
\* spare, after any mix of reused prefixes and growth.
TablesFit == \A s \in DOMAIN kv.table : TableFits(kv.table[s], kv.len[s])

\* What a sequence has stored stays where it is: while the sequence keeps its
\* table, a call can only extend it, and never returns one of its blocks to the
\* free list (shared blocks included).
TablesOnlyGrow ==
  [][\A s \in DOMAIN kv.table \cap DOMAIN kv'.table :
       LET old == kv.table[s]
           new == kv'.table[s]
       IN /\ Len(old) <= Len(new)
          /\ \A i \in DOMAIN old : new[i] = old[i]
          /\ Range(new) \cap kv'.free = {}]_vars
=============================================================================
