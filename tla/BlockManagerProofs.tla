------------------------- MODULE BlockManagerProofs -------------------------
(***************************************************************************)
(* The invariants of BlockManager for every block size, pool size, set of  *)
(* sequences and bound.  The inductive invariant is the pool invariant of  *)
(* PoolProofs, whose lemmas say what each operation does to it.            *)
(***************************************************************************)
EXTENDS BlockManager, PoolProofs

IInv == PoolInv(kv, Seqs, pins) /\ TablesFit

\* The empty pool satisfies the invariant.
LEMMA InitIInv == Init => IInv
<1> SUFFICES ASSUME Init PROVE IInv
  OBVIOUS
<1>1. PoolInv(kv, Seqs, pins)
  BY EmptyPoolInv DEF Init
<1>2. TablesFit
  BY DEF Init, EmptyPool, TablesFit
<1> QED
  BY <1>1, <1>2 DEF IInv

\* A step that gives the table of s new contents and keeps the others keeps the fit.
LEMMA NextIInv == IInv /\ [Next]_vars => IInv'
<1> SUFFICES ASSUME IInv, [Next]_vars PROVE IInv'
  OBVIOUS
<1>1. PoolInv(kv, Seqs, pins) /\ TablesFit /\ PoolType(kv, Seqs) /\ pins \in [Blocks -> Nat]
  BY DEF IInv, PoolInv
<1>2. ASSUME NEW s \in Seqs, NEW n \in 1..MaxTokens, NEW k \in 0..n,
             NEW reused \in [1..k -> Pinned], AllocateCall(s, n, reused)
      PROVE  IInv'
  <2>1. n \in Nat /\ reused \in Seq(Blocks) /\ AllocateOK(kv, s, n, reused)
        /\ kv' = Allocate(kv, s, n, reused) /\ pins' = pins
    BY <1>2, BoundsAssumption DEF AllocateCall, Pinned
  <2>2. \A b \in Range(reused) : kv.ref[b] > 0
    <3> SUFFICES ASSUME NEW b \in Blocks, pins[b] > 0 PROVE kv.ref[b] > 0
      BY <1>2 DEF Range, Pinned
    <3>1. kv.ref[b] = Cardinality(TableSlots(kv, b)) + pins[b]
      BY <1>1 DEF PoolInv, RefsExact
    <3>2. Cardinality(TableSlots(kv, b)) \in Nat
      BY <1>1, TableSlotsFinite, FS_CardinalityType DEF PoolInv, PoolType
    <3> QED
      BY <1>1, <3>1, <3>2
  <2>3. PoolInv(kv', Seqs, pins')
    BY <1>1, <2>1, <2>2, AllocateKeepsInv
  <2>4. TableFits(kv'.table[s], kv'.len[s])
    BY <1>1, <2>1, AllocateFits
  <2>5. TablesFit'
    BY <1>1, <2>1, <2>4 DEF TablesFit, Allocate, Bind, PoolType
  <2> QED
    BY <2>3, <2>5 DEF IInv
<1>3. ASSUME NEW s \in Seqs, NEW n \in 1..MaxTokens, AppendCall(s, n)
      PROVE  IInv'
  <2>1. n \in Nat /\ s \in DOMAIN kv.table /\ CanAppend(kv, s, n)
        /\ kv' = AppendTokens(kv, s, n) /\ pins' = pins
    BY <1>3, BoundsAssumption DEF AppendCall
  <2>2. PoolInv(kv', Seqs, pins')
    BY <1>1, <2>1, AppendKeepsInv
  <2>3. TableFits(kv'.table[s], kv'.len[s])
    BY <1>1, <2>1, AppendFits DEF TablesFit
  <2>4. TablesFit'
    BY <1>1, <2>1, <2>3 DEF TablesFit, AppendTokens, Bind, PoolType
  <2> QED
    BY <2>2, <2>4 DEF IInv
<1>4. ASSUME NEW s \in Seqs, FreeCall(s)
      PROVE  IInv'
  <2>1. PoolInv(kv', Seqs, pins')
    BY <1>1, <1>4, FreeKeepsInv DEF FreeCall
  <2>2. TablesFit'
    BY <1>1, <1>4 DEF FreeCall, FreeSequence, TablesFit, Restrict, PoolType
  <2> QED
    BY <2>1, <2>2 DEF IInv
<1>5. ASSUME NEW b \in Blocks, PinCall(b)
      PROVE  IInv'
  <2>1. PoolInv(kv', Seqs, pins')
    BY <1>1, <1>5, PinKeepsInv DEF PinCall
  <2>2. TablesFit'
    BY <1>1, <1>5 DEF PinCall, PinBlock, TablesFit
  <2> QED
    BY <2>1, <2>2 DEF IInv
<1>6. ASSUME NEW b \in Blocks, UnpinCall(b)
      PROVE  IInv'
  <2>1. PoolInv(kv', Seqs, pins')
    BY <1>1, <1>6, UnpinKeepsInv DEF UnpinCall
  <2>2. TablesFit'
    BY <1>1, <1>6 DEF UnpinCall, UnpinBlock, ReleaseBlocks, TablesFit
  <2> QED
    BY <2>1, <2>2 DEF IInv
<1>7. ASSUME ResetCall
      PROVE  IInv'
  <2>1. PoolInv(kv', Seqs, pins')
    BY <1>7, EmptyPoolInv DEF ResetCall
  <2>2. TablesFit'
    BY <1>7 DEF ResetCall, EmptyPool, TablesFit
  <2> QED
    BY <2>1, <2>2 DEF IInv
<1>8. CASE UNCHANGED vars
  BY <1>1, <1>8 DEF vars, IInv, TablesFit
<1> QED
  BY <1>2, <1>3, <1>4, <1>5, <1>6, <1>7, <1>8 DEF Next

\* The invariant is strong enough for the four properties.
LEMMA IInvImplies == IInv => TypeOK /\ RefCountsExact /\ FreeListExact /\ TablesFit
BY DEF IInv, PoolInv, TypeOK, RefCountsExact, FreeListExact

\* The invariant holds in every reachable state.
LEMMA SpecIInv == Spec => []IInv
BY InitIInv, NextIInv, PTL DEF Spec

-----------------------------------------------------------------------------
\* block_manager.py: the state stays well typed under every sequence of calls.
THEOREM TypeCorrect == Spec => []TypeOK
BY SpecIInv, IInvImplies, PTL

\* Every reference count is the number of table entries plus pins, for every
\* pool, block size and set of sequences.
THEOREM RefCounting == Spec => []RefCountsExact
BY SpecIInv, IInvImplies, PTL

\* The free list is exactly the unreferenced blocks: no double use and no leak.
THEOREM FreeListCorrect == Spec => []FreeListExact
BY SpecIInv, IInvImplies, PTL

\* Every table has exactly the blocks its tokens need.
THEOREM TablesFitAlways == Spec => []TablesFit
BY SpecIInv, IInvImplies, PTL

\* While a sequence keeps its table, the table only grows and none of its blocks
\* reaches the free list.
THEOREM TablesGrowOnly == Spec => TablesOnlyGrow
<1> DEFINE Kept(s) ==
      /\ Len(kv.table[s]) <= Len(kv'.table[s])
      /\ \A i \in DOMAIN kv.table[s] : kv'.table[s][i] = kv.table[s][i]
      /\ Range(kv'.table[s]) \cap kv'.free = {}
<1>1. ASSUME IInv, IInv', Next, NEW x \in DOMAIN kv.table \cap DOMAIN kv'.table
      PROVE  Kept(x)
  <2>1. PoolType(kv, Seqs) /\ kv.table[x] \in Seq(Blocks)
    BY <1>1 DEF IInv, PoolInv, PoolType
  <2>2. Range(kv'.table[x]) \cap kv'.free = {}
    BY <1>1, HeldBlockNotFree DEF IInv
  <2>3. CASE kv'.table[x] = kv.table[x]
    BY <2>1, <2>2, <2>3
  <2>4. ASSUME NEW s \in Seqs, NEW n \in 1..MaxTokens, AppendCall(s, n)
        PROVE  Kept(x)
    <3> DEFINE fresh == Fresh(kv.free, BlocksNeededToAppend(kv, s, n))
    <3>1. CASE x # s
      BY <2>3, <2>4, <3>1 DEF AppendCall, AppendTokens, Bind
    <3>2. CASE x = s
      <4>1. kv'.table[x] = kv.table[x] \o fresh
        BY <1>1, <2>4, <3>2 DEF AppendCall, AppendTokens, Bind
      <4>2. fresh \in Seq(Blocks)
        BY <1>1, <2>4, AppendPops, BoundsAssumption DEF AppendCall, IInv
      <4> HIDE DEF fresh
      <4> QED
        BY <2>1, <2>2, <4>1, <4>2
    <3> QED
      BY <3>1, <3>2
  <2>5. ASSUME NEW s \in Seqs, NEW n \in 1..MaxTokens, NEW k \in 0..n,
               NEW reused \in [1..k -> Pinned], AllocateCall(s, n, reused)
        PROVE  Kept(x)
    BY <1>1, <2>3, <2>5 DEF AllocateCall, AllocateOK, Allocate, Bind
  <2>6. ASSUME NEW s \in Seqs, FreeCall(s) PROVE Kept(x)
    BY <1>1, <2>3, <2>6 DEF FreeCall, FreeSequence, Restrict
  <2>7. ASSUME NEW b \in Blocks, PinCall(b) \/ UnpinCall(b) PROVE Kept(x)
    BY <2>3, <2>7 DEF PinCall, PinBlock, UnpinCall, UnpinBlock, ReleaseBlocks
  <2>8. CASE ResetCall
    BY <1>1, <2>8 DEF ResetCall, EmptyPool
  <2> QED
    BY <1>1, <2>4, <2>5, <2>6, <2>7, <2>8 DEF Next
<1>2. IInv /\ IInv' /\ [Next]_vars =>
        [\A s \in DOMAIN kv.table \cap DOMAIN kv'.table : Kept(s)]_vars
  BY <1>1
<1> QED
  BY <1>2, SpecIInv, PTL DEF Spec, TablesOnlyGrow
=============================================================================
