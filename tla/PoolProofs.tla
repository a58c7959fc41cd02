----------------------------- MODULE PoolProofs -----------------------------
(***************************************************************************)
(* Lemmas about the operators of KVBlocks and PrefixIndex: what each of    *)
(* them does to the accounting of the pool and to the KV that sequences    *)
(* and entries of the index read, for every block size, pool size and      *)
(* capacity.                                                               *)
(***************************************************************************)
EXTENDS PrefixIndex, FiniteSetTheorems, FunctionTheorems, WellFoundedInduction,
        SequenceTheorems, TLAPS

-----------------------------------------------------------------------------
(* Counting *)

\* The free list has as many distinct blocks to give as it has members.
LEMMA FreshIsInjective ==
  ASSUME NEW free, IsFiniteSet(free), NEW n \in Nat, n <= Cardinality(free)
  PROVE  /\ Fresh(free, n) \in [1..n -> free]
         /\ IsInjective(Fresh(free, n))
<1>1. PICK f : f \in Bijection(1..Cardinality(free), free)
  BY FS_CardinalityType DEF ExistsBijection
<1>2. /\ f \in [1..Cardinality(free) -> free]
      /\ \A i, j \in 1..Cardinality(free) : f[i] = f[j] => i = j
  BY <1>1 DEF Bijection, Injection, IsInjective
<1> DEFINE t == [i \in 1..n |-> f[i]]
<1>3. Cardinality(free) \in Nat
  BY FS_CardinalityType
<1>4. t \in [1..n -> free] /\ IsInjective(t)
  BY <1>2, <1>3 DEF IsInjective
<1> QED
  BY <1>4 DEF Fresh

\* Occurrences counts: a natural number, zero exactly when the block is absent.
LEMMA OccurrencesCount ==
  ASSUME NEW S, NEW t \in Seq(S), NEW b
  PROVE  /\ IsFiniteSet({i \in DOMAIN t : t[i] = b})
         /\ Occurrences(t, b) \in Nat
         /\ Occurrences(t, b) = 0 <=> b \notin Range(t)
<1> DEFINE O == {i \in DOMAIN t : t[i] = b}
<1>1. IsFiniteSet(1..Len(t)) /\ DOMAIN t = 1..Len(t)
  BY FS_Interval
<1>2. IsFiniteSet(O)
  <2>1. O \in SUBSET (1..Len(t))
    BY <1>1
  <2> QED
    BY <1>1, <2>1, FS_Subset
<1>3. Occurrences(t, b) \in Nat
  BY <1>2, FS_CardinalityType DEF Occurrences
<1>4. Occurrences(t, b) = 0 <=> O = {}
  BY <1>2, FS_EmptySet DEF Occurrences
<1>5. O = {} <=> b \notin Range(t)
  BY DEF Range
<1> QED
  BY <1>2, <1>3, <1>4, <1>5

\* Counting in a concatenation is counting in its parts.
LEMMA OccurrencesConcat ==
  ASSUME NEW S, NEW t \in Seq(S), NEW u \in Seq(S), NEW b
  PROVE  Occurrences(t \o u, b) = Occurrences(t, b) + Occurrences(u, b)
<1> DEFINE A == {i \in DOMAIN t : t[i] = b}
           B == {i \in DOMAIN u : u[i] = b}
           C == {i \in DOMAIN (t \o u) : (t \o u)[i] = b}
           D == {i \in C : i > Len(t)}
           f == [i \in B |-> i + Len(t)]
<1>1. IsFiniteSet(A) /\ IsFiniteSet(B) /\ IsFiniteSet(C)
  <2>1. t \o u \in Seq(S)
    OBVIOUS
  <2> QED
    BY <2>1, OccurrencesCount
<1>2. /\ DOMAIN t = 1..Len(t) /\ DOMAIN u = 1..Len(u)
      /\ DOMAIN (t \o u) = 1..(Len(t) + Len(u))
      /\ Len(t) \in Nat /\ Len(u) \in Nat
      /\ \A i \in 1..Len(t) : (t \o u)[i] = t[i]
      /\ \A i \in (Len(t) + 1)..(Len(t) + Len(u)) : (t \o u)[i] = u[i - Len(t)]
  OBVIOUS
<1>3. f \in Bijection(B, D)
  <2>1. \A i \in B : i + Len(t) \in D
    <3> TAKE i \in B
    <3>1. i + Len(t) \in (Len(t) + 1)..(Len(t) + Len(u))
      BY <1>2
    <3>2. (t \o u)[i + Len(t)] = u[i + Len(t) - Len(t)]
      BY <1>2, <3>1
    <3> QED
      BY <1>2, <3>1, <3>2
  <2>2. \A j \in D : \E i \in B : f[i] = j
    <3> TAKE j \in D
    <3>1. j \in (Len(t) + 1)..(Len(t) + Len(u)) /\ u[j - Len(t)] = b
      BY <1>2
    <3>2. j - Len(t) \in B
      BY <1>2, <3>1
    <3> QED
      BY <1>2, <3>1, <3>2
  <2>3. \A i, j \in B : f[i] = f[j] => i = j
    BY <1>2
  <2>4. f \in [B -> D]
    BY <2>1
  <2> QED
    BY <2>2, <2>3, <2>4, Fun_IsBij, Zenon
<1>4. IsFiniteSet(D) /\ Cardinality(D) = Cardinality(B)
  <2>1. ExistsBijection(B, D)
    BY <1>3 DEF ExistsBijection
  <2> QED
    BY <1>1, <2>1, FS_Bijection
<1>5. C = A \cup D /\ A \cap D = {}
  BY <1>2
<1>6. Cardinality(C) = Cardinality(A) + Cardinality(D)
  <2> HIDE DEF A, B, C, D
  <2>1. Cardinality(A \cap D) = 0
    BY <1>5, FS_EmptySet
  <2>2. Cardinality(A) \in Nat /\ Cardinality(D) \in Nat
    BY <1>1, <1>4, FS_CardinalityType
  <2>3. Cardinality(A \cup D) = Cardinality(A) + Cardinality(D) - Cardinality(A \cap D)
    BY <1>1, <1>4, FS_Union
  <2> QED
    BY <1>5, <2>1, <2>2, <2>3
<1> QED
  BY <1>4, <1>6 DEF Occurrences

\* What two lists name together.
LEMMA RangeConcat ==
  ASSUME NEW S, NEW t \in Seq(S), NEW u \in Seq(S)
  PROVE  Range(t \o u) = Range(t) \cup Range(u)
<1>1. Range(t \o u) \subseteq Range(t) \cup Range(u)
  BY DEF Range
<1>2. Range(t) \subseteq Range(t \o u)
  <2> SUFFICES ASSUME NEW i \in DOMAIN t PROVE \E j \in DOMAIN (t \o u) : (t \o u)[j] = t[i]
    BY DEF Range
  <2> QED
    BY i \in DOMAIN (t \o u) /\ (t \o u)[i] = t[i]
<1>3. Range(u) \subseteq Range(t \o u)
  <2> SUFFICES ASSUME NEW i \in DOMAIN u PROVE \E j \in DOMAIN (t \o u) : (t \o u)[j] = u[i]
    BY DEF Range
  <2>1. i + Len(t) \in DOMAIN (t \o u) /\ (t \o u)[i + Len(t)] = u[i + Len(t) - Len(t)]
    OBVIOUS
  <2>2. i + Len(t) - Len(t) = i
    OBVIOUS
  <2> QED
    BY <2>1, <2>2
<1> QED
  BY <1>1, <1>2, <1>3

\* The slots of one table are as many as its occurrences of the block.
LEMMA SlotsOfCount ==
  ASSUME NEW S, NEW t \in Seq(S), NEW b, NEW s
  PROVE  /\ IsFiniteSet(SlotsOf(s, t, b))
         /\ Cardinality(SlotsOf(s, t, b)) = Occurrences(t, b)
<1> DEFINE O == {i \in DOMAIN t : t[i] = b}
           f == [i \in O |-> <<s, i>>]
<1>1. f \in Bijection(O, SlotsOf(s, t, b))
  <2>1. f \in [O -> SlotsOf(s, t, b)]
    BY DEF SlotsOf
  <2>2. \A r \in SlotsOf(s, t, b) : \E i \in O : f[i] = r
    BY DEF SlotsOf
  <2>3. \A i, j \in O : f[i] = f[j] => i = j
    OBVIOUS
  <2> QED
    BY <2>1, <2>2, <2>3, Fun_IsBij, Zenon
<1>2. ExistsBijection(O, SlotsOf(s, t, b))
  BY <1>1 DEF ExistsBijection
<1>3. IsFiniteSet(O)
  BY OccurrencesCount
<1> QED
  BY <1>2, <1>3, FS_Bijection DEF Occurrences

\* The slots of the tables other than that of s.
OtherSlots(pool, s, b) ==
  UNION {SlotsOf(x, pool.table[x], b) : x \in DOMAIN pool.table \ {s}}

\* Finitely many tables refer to a block finitely often.
LEMMA TableSlotsFinite ==
  ASSUME NEW pool, NEW b, NEW S,
         IsFiniteSet(DOMAIN pool.table),
         \A x \in DOMAIN pool.table : pool.table[x] \in Seq(S)
  PROVE  IsFiniteSet(TableSlots(pool, b))
<1> DEFINE F == {SlotsOf(x, pool.table[x], b) : x \in DOMAIN pool.table}
           g == [x \in DOMAIN pool.table |-> SlotsOf(x, pool.table[x], b)]
<1>1. \A T \in F : IsFiniteSet(T)
  BY SlotsOfCount
<1>2. g \in Surjection(DOMAIN pool.table, F)
  BY Fun_IsSurj
<1>3. IsFiniteSet(F)
  BY <1>2, FS_Surjection
<1> QED
  BY <1>1, <1>3, FS_UNION DEF TableSlots

\* The tables' references to a block are those of one table and of the others.
LEMMA TableSlotsSplit ==
  ASSUME NEW pool, NEW b, NEW S, NEW s \in DOMAIN pool.table,
         IsFiniteSet(DOMAIN pool.table),
         \A x \in DOMAIN pool.table : pool.table[x] \in Seq(S)
  PROVE  /\ IsFiniteSet(OtherSlots(pool, s, b))
         /\ Cardinality(OtherSlots(pool, s, b)) \in Nat
         /\ Cardinality(TableSlots(pool, b)) =
              Cardinality(OtherSlots(pool, s, b)) + Occurrences(pool.table[s], b)
<1> DEFINE Rest == OtherSlots(pool, s, b)
           Own  == SlotsOf(s, pool.table[s], b)
<1>1. IsFiniteSet(Rest)
  <2>1. Rest \in SUBSET TableSlots(pool, b)
    BY DEF OtherSlots, TableSlots
  <2> QED
    BY <2>1, TableSlotsFinite, FS_Subset
<1>2. IsFiniteSet(Own) /\ Cardinality(Own) = Occurrences(pool.table[s], b)
  BY SlotsOfCount
<1>3. TableSlots(pool, b) = Rest \cup Own
  BY DEF TableSlots, OtherSlots
<1>4. Rest \cap Own = {}
  BY DEF OtherSlots, SlotsOf
<1>5. Cardinality(Rest) \in Nat /\ Cardinality(Own) \in Nat
  BY <1>1, <1>2, FS_CardinalityType
<1>6. Cardinality(TableSlots(pool, b)) = Cardinality(Rest) + Cardinality(Own)
  <2> HIDE DEF Rest, Own
  <2>1. Cardinality(Rest \cap Own) = 0
    BY <1>4, FS_EmptySet
  <2>2. Cardinality(Rest \cup Own)
          = Cardinality(Rest) + Cardinality(Own) - Cardinality(Rest \cap Own)
    BY <1>1, <1>2, FS_Union
  <2> QED
    BY <1>3, <1>5, <2>1, <2>2
<1> QED
  BY <1>1, <1>2, <1>5, <1>6

-----------------------------------------------------------------------------
(* Sizes *)

\* blocks_for_tokens is the ceiling of the division by the block size.
LEMMA CeilingDivision ==
  ASSUME NEW n \in Nat
  PROVE  /\ BlocksForTokens(n) \in Nat
         /\ n <= BlocksForTokens(n) * BlockSize
         /\ BlocksForTokens(n) * BlockSize < n + BlockSize
<1> DEFINE m == n + BlockSize - 1
           q == m \div BlockSize
<1>1. m \in Nat /\ BlockSize \in Nat /\ BlockSize > 0
  BY KVAssumption
<1>2. q \in Nat /\ m % BlockSize \in 0..(BlockSize - 1)
  BY <1>1
<1>3. m = BlockSize * q + (m % BlockSize)
  BY <1>1
<1>4. q * BlockSize = BlockSize * q
  BY <1>1, <1>2
<1>5. n <= BlockSize * q /\ BlockSize * q < n + BlockSize
  BY <1>1, <1>2, <1>3
<1> QED
  BY <1>2, <1>4, <1>5 DEF BlocksForTokens

\* Blocks that are full within n tokens are no more than n tokens need.
LEMMA FullBlocksBound ==
  ASSUME NEW n \in Nat, NEW k \in Nat, k * BlockSize <= n
  PROVE  k <= BlocksForTokens(n)
<1> DEFINE q == BlocksForTokens(n)
<1>1. q \in Nat /\ n <= q * BlockSize /\ BlockSize \in Nat /\ BlockSize > 0
  BY CeilingDivision, KVAssumption
<1>2. SUFFICES ASSUME q + 1 <= k PROVE FALSE
  BY <1>1
<1>3. (q + 1) * BlockSize = q * BlockSize + BlockSize
  BY <1>1
<1>4. PICK d \in Nat : k = q + 1 + d
  BY <1>1, <1>2
<1>5. k * BlockSize = (q + 1) * BlockSize + d * BlockSize
  BY <1>1, <1>4
<1>6. d * BlockSize \in Nat
  BY <1>1
<1> QED
  BY <1>1, <1>3, <1>5, <1>6

-----------------------------------------------------------------------------
(* The pool invariant and its preservation *)

\* The pool is well formed and accounts for every reference, given the pins
\* outstanding outside it.
PoolInv(pool, Ids, pins) ==
  /\ PoolType(pool, Ids)
  /\ IsFiniteSet(DOMAIN pool.table)
  /\ pins \in [Blocks -> Nat]
  /\ RefsExact(pool, pins)
  /\ FreeExact(pool)

\* The empty pool, with no block pinned.
LEMMA EmptyPoolInv ==
  ASSUME NEW Ids
  PROVE  PoolInv(EmptyPool, Ids, [b \in Blocks |-> 0])
<1> DEFINE none == [b \in Blocks |-> 0]
<1>1. PoolType(EmptyPool, Ids) /\ DOMAIN EmptyPool.table = {}
  BY DEF PoolType, EmptyPool
<1>2. \A b : TableSlots(EmptyPool, b) = {}
  BY DEF TableSlots, EmptyPool
<1>3. RefsExact(EmptyPool, none)
  <2>1. Cardinality({}) = 0
    BY FS_EmptySet
  <2>2. \A b \in Blocks : EmptyPool.ref[b] = 0 /\ none[b] = 0
    BY DEF EmptyPool
  <2> QED
    BY <1>2, <2>1, <2>2 DEF RefsExact
<1>4. FreeExact(EmptyPool)
  BY DEF FreeExact, EmptyPool
<1> QED
  BY <1>1, <1>3, <1>4, FS_EmptySet DEF PoolInv

\* The free list is finite, so it can be counted.
LEMMA FreeIsFinite ==
  ASSUME NEW Ids, NEW pool, PoolType(pool, Ids)
  PROVE  IsFiniteSet(pool.free)
<1>1. IsFiniteSet(Blocks)
  BY FS_Interval, KVAssumption DEF Blocks
<1>2. pool.free \in SUBSET Blocks
  BY DEF PoolType
<1> QED
  BY <1>1, <1>2, FS_Subset

\* Popping n blocks yields a sequence of n free blocks.
LEMMA FreshBlocks ==
  ASSUME NEW Ids, NEW pool, NEW pins, PoolInv(pool, Ids, pins),
         NEW n \in Nat, n <= NumFree(pool)
  PROVE  LET f == Fresh(pool.free, n) IN
           f \in Seq(Blocks) /\ Len(f) = n /\ Range(f) \subseteq pool.free
<1> DEFINE f == Fresh(pool.free, n)
<1>1. IsFiniteSet(pool.free)
  BY FreeIsFinite DEF PoolInv
<1>2. f \in [1..n -> pool.free]
  BY <1>1, FreshIsInjective DEF NumFree
<1>3. pool.free \subseteq Blocks
  BY DEF PoolInv, PoolType
<1> QED
  BY <1>2, <1>3 DEF Range

\* A table bound to a sequence: the others' slots are untouched, its own count.
LEMMA BoundTableSlots ==
  ASSUME NEW pool, NEW new, NEW s, NEW t \in Seq(Blocks), NEW b,
         IsFiniteSet(DOMAIN pool.table),
         \A x \in DOMAIN pool.table : pool.table[x] \in Seq(Blocks),
         new.table = Bind(pool.table, s, t)
  PROVE  Cardinality(TableSlots(new, b)) =
           Cardinality(OtherSlots(pool, s, b)) + Occurrences(t, b)
<1>1. /\ DOMAIN new.table = DOMAIN pool.table \cup {s}
      /\ new.table[s] = t
      /\ \A x \in DOMAIN new.table \ {s} : new.table[x] = pool.table[x]
  BY DEF Bind
<1>2. \A x \in DOMAIN new.table : new.table[x] \in Seq(Blocks)
  BY <1>1
<1>3. IsFiniteSet(DOMAIN new.table)
  BY <1>1, FS_AddElement
<1>4. Cardinality(TableSlots(new, b)) =
        Cardinality(OtherSlots(new, s, b)) + Occurrences(t, b)
  BY <1>1, <1>2, <1>3, TableSlotsSplit
<1>5. OtherSlots(new, s, b) = OtherSlots(pool, s, b)
  BY <1>1 DEF OtherSlots
<1> QED
  BY <1>4, <1>5

\* The number of blocks allocate() pops is between zero and the free count.
LEMMA AllocateDemand ==
  ASSUME NEW pool, NEW s, NEW n \in Nat, NEW reused \in Seq(Blocks),
         AllocateOK(pool, s, n, reused)
  PROVE  /\ BlocksForTokens(n) \in Nat
         /\ BlocksForTokens(n) - Len(reused) \in Nat
         /\ BlocksForTokens(n) - Len(reused) <= NumFree(pool)
<1>1. BlocksForTokens(n) \in Nat
  BY CeilingDivision
<1>2. Len(reused) \in Nat /\ Len(reused) * BlockSize <= n
  BY DEF AllocateOK
<1>3. Len(reused) <= BlocksForTokens(n)
  BY <1>2, FullBlocksBound
<1> QED
  BY <1>1, <1>2, <1>3 DEF AllocateOK

\* allocate() keeps the accounting exact, provided every reused block is held.
LEMMA AllocateKeepsInv ==
  ASSUME NEW Ids, NEW pool, NEW pins, PoolInv(pool, Ids, pins),
         NEW s \in Ids, NEW n \in Nat, NEW reused \in Seq(Blocks),
         AllocateOK(pool, s, n, reused),
         \A b \in Range(reused) : pool.ref[b] > 0
  PROVE  PoolInv(Allocate(pool, s, n, reused), Ids, pins)
<1> DEFINE k     == BlocksForTokens(n) - Len(reused)
           fresh == Fresh(pool.free, k)
           table == reused \o fresh
           new   == Allocate(pool, s, n, reused)
<1>1. k \in Nat /\ k <= NumFree(pool)
  BY AllocateDemand
<1>2. fresh \in Seq(Blocks) /\ Range(fresh) \subseteq pool.free
  BY <1>1, FreshBlocks
<1>3. table \in Seq(Blocks)
  BY <1>2
<1>4. PoolType(pool, Ids) /\ RefsExact(pool, pins) /\ FreeExact(pool)
      /\ pins \in [Blocks -> Nat] /\ IsFiniteSet(DOMAIN pool.table)
  BY DEF PoolInv
<1>5. s \notin DOMAIN pool.table
  BY DEF AllocateOK
<1>6. \A b : Occurrences(table, b) \in Nat /\ Occurrences(fresh, b) \in Nat
              /\ (Occurrences(table, b) = 0 <=> b \notin Range(table))
  BY <1>2, <1>3, OccurrencesCount
<1> HIDE DEF fresh
<1>7. /\ new.free = pool.free \ Range(fresh)
      /\ new.ref = [b \in Blocks |-> pool.ref[b] + Occurrences(table, b)]
      /\ new.table = Bind(pool.table, s, table)
      /\ new.len = Bind(pool.len, s, n)
      /\ new = [free |-> new.free, ref |-> new.ref,
                table |-> new.table, len |-> new.len]
  BY DEF Allocate, fresh
<1> HIDE DEF new, table
<1>8. PoolType(new, Ids)
  <2>1. new.ref \in [Blocks -> Nat]
    BY <1>4, <1>6, <1>7 DEF PoolType
  <2>2. /\ DOMAIN new.table = DOMAIN pool.table \cup {s}
        /\ new.table \in [DOMAIN new.table -> Seq(Blocks)]
        /\ new.len \in [DOMAIN new.table -> Nat]
    BY <1>3, <1>4, <1>7 DEF PoolType, Bind
  <2> QED
    BY <1>4, <1>7, <2>1, <2>2 DEF PoolType
<1>9. IsFiniteSet(DOMAIN new.table)
  <2>1. DOMAIN new.table = DOMAIN pool.table \cup {s}
    BY <1>7 DEF Bind
  <2> QED
    BY <1>4, <2>1, FS_AddElement
<1>10. RefsExact(new, pins)
  <2> SUFFICES ASSUME NEW b \in Blocks
               PROVE  new.ref[b] = Cardinality(TableSlots(new, b)) + pins[b]
    BY DEF RefsExact
  <2>1. Cardinality(TableSlots(new, b))
          = Cardinality(OtherSlots(pool, s, b)) + Occurrences(table, b)
    <3>1. \A x \in DOMAIN pool.table : pool.table[x] \in Seq(Blocks)
      BY <1>4 DEF PoolType
    <3> QED
      BY <1>3, <1>4, <1>7, <3>1, BoundTableSlots
  <2>2. OtherSlots(pool, s, b) = TableSlots(pool, b)
    BY <1>5 DEF OtherSlots, TableSlots
  <2>3. pool.ref[b] = Cardinality(TableSlots(pool, b)) + pins[b]
    BY <1>4 DEF RefsExact
  <2>4. Cardinality(TableSlots(pool, b)) \in Int /\ pins[b] \in Nat
    <3>1. IsFiniteSet(TableSlots(pool, b))
      BY <1>4, TableSlotsFinite DEF PoolType
    <3> QED
      BY <1>4, <3>1, FS_CardinalityType
  <2> QED
    BY <1>6, <1>7, <2>1, <2>2, <2>3, <2>4
<1>11. FreeExact(new)
  <2> SUFFICES ASSUME NEW b \in Blocks
               PROVE  b \in new.free <=> new.ref[b] = 0
    BY <1>4, <1>7 DEF FreeExact
  <2>1. b \in Range(table) <=> b \in Range(reused) \/ b \in Range(fresh)
    BY <1>2, RangeConcat DEF table
  <2>2. pool.ref[b] \in Nat /\ (b \in pool.free <=> pool.ref[b] = 0)
    BY <1>4 DEF PoolType, FreeExact
  <2>3. new.ref[b] = 0 <=> pool.ref[b] = 0 /\ b \notin Range(table)
    BY <1>6, <1>7, <2>2
  <2>4. b \in Range(reused) => pool.ref[b] # 0
    BY <2>2
  <2> QED
    BY <1>7, <2>1, <2>2, <2>3, <2>4
<1> QED
  BY <1>4, <1>8, <1>9, <1>10, <1>11 DEF PoolInv, new

\* The number of blocks append_tokens() pops is between zero and the free count.
LEMMA AppendDemand ==
  ASSUME NEW Ids, NEW pool, PoolType(pool, Ids),
         NEW s \in DOMAIN pool.table, NEW n \in Nat, CanAppend(pool, s, n)
  PROVE  /\ BlocksNeededToAppend(pool, s, n) \in Nat
         /\ BlocksNeededToAppend(pool, s, n) <= NumFree(pool)
<1> DEFINE k == BlocksNeededToAppend(pool, s, n)
<1>1. /\ pool.table[s] \in Seq(Blocks) /\ pool.len[s] \in Nat
      /\ DOMAIN pool.len = DOMAIN pool.table
  BY DEF PoolType
<1>2. BlocksForTokens(pool.len[s] + n) \in Nat
  <2>1. pool.len[s] + n \in Nat
    BY <1>1
  <2> QED
    BY <2>1, CeilingDivision
<1>3. k = NonNegative(BlocksForTokens(pool.len[s] + n) - Len(pool.table[s]))
  BY <1>1 DEF BlocksNeededToAppend, SeqLength, BlockTable
<1>4. k \in Nat
  BY <1>1, <1>2, <1>3 DEF NonNegative
<1>5. NumFree(pool) >= k
  BY DEF CanAppend
<1>6. NumFree(pool) \in Nat
  BY FreeIsFinite, FS_CardinalityType DEF NumFree
<1> QED
  BY <1>4, <1>5, <1>6

\* Under the guard of append_tokens() the free list has the blocks it pops.
LEMMA AppendPops ==
  ASSUME NEW Ids, NEW pool, NEW pins, PoolInv(pool, Ids, pins),
         NEW s \in DOMAIN pool.table, NEW n \in Nat, CanAppend(pool, s, n)
  PROVE  Fresh(pool.free, BlocksNeededToAppend(pool, s, n)) \in Seq(Blocks)
<1>1. PoolType(pool, Ids)
  BY DEF PoolInv
<1> QED
  BY <1>1, AppendDemand, FreshBlocks

\* append_tokens() keeps the accounting exact.
LEMMA AppendKeepsInv ==
  ASSUME NEW Ids, NEW pool, NEW pins, PoolInv(pool, Ids, pins),
         NEW s \in DOMAIN pool.table, NEW n \in Nat, CanAppend(pool, s, n)
  PROVE  PoolInv(AppendTokens(pool, s, n), Ids, pins)
<1> DEFINE k     == BlocksNeededToAppend(pool, s, n)
           fresh == Fresh(pool.free, k)
           table == pool.table[s] \o fresh
           new   == AppendTokens(pool, s, n)
<1>1. PoolType(pool, Ids) /\ RefsExact(pool, pins) /\ FreeExact(pool)
      /\ pins \in [Blocks -> Nat] /\ IsFiniteSet(DOMAIN pool.table)
  BY DEF PoolInv
<1>2. /\ \A x \in DOMAIN pool.table : pool.table[x] \in Seq(Blocks)
      /\ pool.len[s] \in Nat /\ DOMAIN pool.len = DOMAIN pool.table
  BY <1>1 DEF PoolType
<1>3. k \in Nat /\ k <= NumFree(pool)
  BY <1>1, AppendDemand
<1>4. fresh \in Seq(Blocks) /\ Range(fresh) \subseteq pool.free
  BY <1>3, FreshBlocks
<1>5. /\ \A b : Occurrences(fresh, b) \in Nat
      /\ \A b : Occurrences(fresh, b) = 0 <=> b \notin Range(fresh)
      /\ \A b : Occurrences(pool.table[s], b) \in Nat
      /\ \A b : Occurrences(table, b) =
                 Occurrences(pool.table[s], b) + Occurrences(fresh, b)
  <2> HIDE DEF fresh
  <2>1. pool.table[s] \in Seq(Blocks) /\ fresh \in Seq(Blocks)
    BY <1>2, <1>4
  <2>2. \A b : Occurrences(fresh, b) \in Nat /\ Occurrences(pool.table[s], b) \in Nat
    BY <2>1, OccurrencesCount
  <2>3. \A b : Occurrences(fresh, b) = 0 <=> b \notin Range(fresh)
    BY <2>1, OccurrencesCount
  <2>4. \A b : Occurrences(table, b) =
               Occurrences(pool.table[s], b) + Occurrences(fresh, b)
    BY <2>1, OccurrencesConcat
  <2> QED
    BY <2>2, <2>3, <2>4
<1>6. table \in Seq(Blocks)
  BY <1>2, <1>4
<1> HIDE DEF fresh
<1>7. /\ new.free = pool.free \ Range(fresh)
      /\ new.ref = [b \in Blocks |-> pool.ref[b] + Occurrences(fresh, b)]
      /\ new.table = Bind(pool.table, s, table)
      /\ new.len = Bind(pool.len, s, pool.len[s] + n)
      /\ new = [free |-> new.free, ref |-> new.ref,
                table |-> new.table, len |-> new.len]
  BY DEF AppendTokens, fresh
<1> HIDE DEF new, table
<1>8. DOMAIN new.table = DOMAIN pool.table
  BY <1>7 DEF Bind
<1>9. PoolType(new, Ids)
  <2>1. new.ref \in [Blocks -> Nat]
    BY <1>1, <1>5, <1>7 DEF PoolType
  <2>2. new.table \in [DOMAIN new.table -> Seq(Blocks)]
    BY <1>2, <1>6, <1>7 DEF Bind
  <2>3. new.len \in [DOMAIN new.table -> Nat]
    BY <1>1, <1>2, <1>7, <1>8 DEF Bind, PoolType
  <2> QED
    BY <1>1, <1>7, <1>8, <2>1, <2>2, <2>3 DEF PoolType
<1>10. RefsExact(new, pins)
  <2> SUFFICES ASSUME NEW b \in Blocks
               PROVE  new.ref[b] = Cardinality(TableSlots(new, b)) + pins[b]
    BY DEF RefsExact
  <2>1. Cardinality(TableSlots(new, b))
          = Cardinality(OtherSlots(pool, s, b)) + Occurrences(table, b)
    BY <1>1, <1>2, <1>6, <1>7, BoundTableSlots
  <2>2. /\ Cardinality(TableSlots(pool, b))
             = Cardinality(OtherSlots(pool, s, b)) + Occurrences(pool.table[s], b)
        /\ Cardinality(OtherSlots(pool, s, b)) \in Nat
    BY <1>1, <1>2, TableSlotsSplit
  <2>3. pool.ref[b] = Cardinality(TableSlots(pool, b)) + pins[b] /\ pins[b] \in Nat
    BY <1>1 DEF RefsExact
  <2>4. new.ref[b] = pool.ref[b] + Occurrences(fresh, b)
    BY <1>7
  <2> QED
    BY <1>5, <2>1, <2>2, <2>3, <2>4
<1>11. FreeExact(new)
  <2> SUFFICES ASSUME NEW b \in Blocks
               PROVE  b \in new.free <=> new.ref[b] = 0
    BY <1>1, <1>7 DEF FreeExact
  <2>1. pool.ref[b] \in Nat /\ (b \in pool.free <=> pool.ref[b] = 0)
    BY <1>1 DEF PoolType, FreeExact
  <2> QED
    BY <1>5, <1>7, <2>1
<1>12. PoolInv(new, Ids, pins)
  BY <1>1, <1>8, <1>9, <1>10, <1>11 DEF PoolInv
<1> QED
  BY <1>12 DEF new

\* free() gives back exactly the references the table held.
LEMMA FreeKeepsInv ==
  ASSUME NEW Ids, NEW pool, NEW pins, PoolInv(pool, Ids, pins), NEW s
  PROVE  PoolInv(FreeSequence(pool, s), Ids, pins)
<1>1. CASE s \notin DOMAIN pool.table
  BY <1>1 DEF FreeSequence
<1>2. CASE s \in DOMAIN pool.table
  <2> DEFINE t    == pool.table[s]
             rest == DOMAIN pool.table \ {s}
             ref  == [b \in Blocks |-> pool.ref[b] - Occurrences(t, b)]
             new  == FreeSequence(pool, s)
  <2>1. PoolType(pool, Ids) /\ RefsExact(pool, pins) /\ FreeExact(pool)
        /\ pins \in [Blocks -> Nat] /\ IsFiniteSet(DOMAIN pool.table)
    BY DEF PoolInv
  <2>2. /\ \A x \in DOMAIN pool.table : pool.table[x] \in Seq(Blocks)
        /\ \A b : Occurrences(t, b) \in Nat
        /\ \A b : Occurrences(t, b) = 0 <=> b \notin Range(t)
    <3>1. \A x \in DOMAIN pool.table : pool.table[x] \in Seq(Blocks)
      BY <2>1 DEF PoolType
    <3> QED
      BY <1>2, <3>1, OccurrencesCount
  <2>3. /\ new.free = pool.free \cup {b \in Range(t) : ref[b] = 0}
        /\ new.ref = ref
        /\ new.table = Restrict(pool.table, rest)
        /\ new.len = Restrict(pool.len, rest)
        /\ new = [free |-> new.free, ref |-> new.ref,
                  table |-> new.table, len |-> new.len]
    BY <1>2 DEF FreeSequence, ReleaseBlocks
  <2> HIDE DEF new, t
  <2>4. DOMAIN new.table = rest /\ \A x \in rest : new.table[x] = pool.table[x]
    BY <2>3 DEF Restrict
  <2>5. \A b \in Blocks :
          /\ pool.ref[b] = Cardinality(OtherSlots(pool, s, b)) + Occurrences(t, b) + pins[b]
          /\ Cardinality(OtherSlots(pool, s, b)) \in Nat
          /\ pins[b] \in Nat
    <3> TAKE b \in Blocks
    <3>1. /\ Cardinality(TableSlots(pool, b))
               = Cardinality(OtherSlots(pool, s, b)) + Occurrences(t, b)
          /\ Cardinality(OtherSlots(pool, s, b)) \in Nat
      BY <1>2, <2>1, <2>2, TableSlotsSplit DEF t
    <3> QED
      BY <2>1, <2>2, <3>1 DEF RefsExact
  <2>6. \A b \in Blocks :
          new.ref[b] = Cardinality(OtherSlots(pool, s, b)) + pins[b]
    BY <2>2, <2>3, <2>5
  <2>7. PoolType(new, Ids)
    <3>1. new.ref \in [Blocks -> Nat]
      <4>1. \A b \in Blocks : new.ref[b] \in Nat
        BY <2>5, <2>6
      <4> QED
        BY <2>3, <4>1
    <3>2. /\ new.table \in [DOMAIN new.table -> Seq(Blocks)]
          /\ new.len \in [DOMAIN new.table -> Nat]
          /\ DOMAIN new.table \subseteq Ids
      BY <2>1, <2>3, <2>4 DEF PoolType, Restrict
    <3>3. new.free \subseteq Blocks
      BY <1>2, <2>1, <2>2, <2>3 DEF PoolType, Range, t
    <3> QED
      BY <2>3, <3>1, <3>2, <3>3 DEF PoolType
  <2>8. IsFiniteSet(DOMAIN new.table)
    BY <2>1, <2>4, FS_RemoveElement
  <2>9. RefsExact(new, pins)
    <3>1. \A b : TableSlots(new, b) = OtherSlots(pool, s, b)
      BY <2>4 DEF TableSlots, OtherSlots
    <3> QED
      BY <2>6, <3>1 DEF RefsExact
  <2>10. FreeExact(new)
    <3> SUFFICES ASSUME NEW b \in Blocks
                 PROVE  b \in new.free <=> new.ref[b] = 0
      BY <2>7 DEF FreeExact, PoolType
    <3>1. pool.ref[b] \in Nat /\ (b \in pool.free <=> pool.ref[b] = 0)
      BY <2>1 DEF PoolType, FreeExact
    <3>2. new.ref[b] = pool.ref[b] - Occurrences(t, b) /\ new.ref[b] \in Nat
      BY <2>3, <2>7 DEF PoolType
    <3>3. b \in new.free <=> b \in pool.free \/ (b \in Range(t) /\ new.ref[b] = 0)
      BY <2>3
    <3> QED
      BY <2>2, <3>1, <3>2, <3>3
  <2>11. PoolInv(new, Ids, pins)
    BY <2>1, <2>7, <2>8, <2>9, <2>10 DEF PoolInv
  <2> QED
    BY <2>11 DEF new
<1> QED
  BY <1>1, <1>2

\* pin() adds one reference that no table holds.
LEMMA PinKeepsInv ==
  ASSUME NEW Ids, NEW pool, NEW pins, PoolInv(pool, Ids, pins),
         NEW b \in Blocks, PinOK(pool, b)
  PROVE  PoolInv(PinBlock(pool, b), Ids, [pins EXCEPT ![b] = @ + 1])
<1> DEFINE new  == PinBlock(pool, b)
           npin == [pins EXCEPT ![b] = @ + 1]
<1>1. PoolType(pool, Ids) /\ RefsExact(pool, pins) /\ FreeExact(pool)
      /\ pins \in [Blocks -> Nat] /\ IsFiniteSet(DOMAIN pool.table)
  BY DEF PoolInv
<1>2. /\ new.free = pool.free /\ new.table = pool.table /\ new.len = pool.len
      /\ new.ref = [pool.ref EXCEPT ![b] = @ + 1]
      /\ new = [free |-> new.free, ref |-> new.ref,
                table |-> new.table, len |-> new.len]
  BY DEF PinBlock
<1> HIDE DEF new
<1>3. npin \in [Blocks -> Nat] /\ new.ref \in [Blocks -> Nat]
  BY <1>1, <1>2 DEF PoolType
<1>4. PoolType(new, Ids)
  BY <1>1, <1>2, <1>3 DEF PoolType
<1>5. RefsExact(new, npin)
  <2> SUFFICES ASSUME NEW c \in Blocks
               PROVE  new.ref[c] = Cardinality(TableSlots(new, c)) + npin[c]
    BY DEF RefsExact
  <2>1. TableSlots(new, c) = TableSlots(pool, c)
    BY <1>2 DEF TableSlots
  <2>2. pool.ref[c] = Cardinality(TableSlots(pool, c)) + pins[c]
    BY <1>1 DEF RefsExact
  <2>3. Cardinality(TableSlots(pool, c)) \in Nat
    BY <1>1, TableSlotsFinite, FS_CardinalityType DEF PoolType
  <2> QED
    BY <1>1, <1>2, <2>1, <2>2, <2>3 DEF PoolType
<1>6. FreeExact(new)
  BY <1>1, <1>2 DEF FreeExact, PinOK, PoolType
<1>7. PoolInv(new, Ids, npin)
  BY <1>1, <1>2, <1>3, <1>4, <1>5, <1>6 DEF PoolInv
<1> QED
  BY <1>7 DEF new

\* unpin() gives back one reference taken with pin().
LEMMA UnpinKeepsInv ==
  ASSUME NEW Ids, NEW pool, NEW pins, PoolInv(pool, Ids, pins),
         NEW b \in Blocks, pins[b] > 0
  PROVE  PoolInv(UnpinBlock(pool, b), Ids, [pins EXCEPT ![b] = @ - 1])
<1> DEFINE new  == UnpinBlock(pool, b)
           npin == [pins EXCEPT ![b] = @ - 1]
<1>1. PoolType(pool, Ids) /\ RefsExact(pool, pins) /\ FreeExact(pool)
      /\ pins \in [Blocks -> Nat] /\ IsFiniteSet(DOMAIN pool.table)
  BY DEF PoolInv
<1>2. \A c : Occurrences(<<b>>, c) = IF c = b THEN 1 ELSE 0
  <2> TAKE c
  <2>1. CASE c = b
    <3>1. {i \in DOMAIN <<b>> : <<b>>[i] = c} = {1}
      BY <2>1
    <3> QED
      BY <2>1, <3>1, FS_Singleton DEF Occurrences
  <2>2. CASE c # b
    <3>1. {i \in DOMAIN <<b>> : <<b>>[i] = c} = {}
      BY <2>2
    <3> QED
      BY <2>2, <3>1, FS_EmptySet DEF Occurrences
  <2> QED
    BY <2>1, <2>2
<1>3. /\ new.ref = [c \in Blocks |-> pool.ref[c] - (IF c = b THEN 1 ELSE 0)]
      /\ new.free = pool.free \cup {c \in {b} : new.ref[c] = 0}
      /\ new.table = pool.table /\ new.len = pool.len
      /\ new = [free |-> new.free, ref |-> new.ref,
                table |-> new.table, len |-> new.len]
  <2>1. Range(<<b>>) = {b}
    BY DEF Range
  <2> QED
    BY <1>2, <2>1 DEF UnpinBlock, ReleaseBlocks
<1> HIDE DEF new
<1>4. \A c \in Blocks : /\ pool.ref[c] = Cardinality(TableSlots(pool, c)) + pins[c]
                        /\ Cardinality(TableSlots(pool, c)) \in Nat
  <2>1. \A c \in Blocks : Cardinality(TableSlots(pool, c)) \in Nat
    BY <1>1, TableSlotsFinite, FS_CardinalityType DEF PoolType
  <2> QED
    BY <1>1, <2>1 DEF RefsExact
<1>5. npin \in [Blocks -> Nat] /\ new.ref \in [Blocks -> Nat]
  BY <1>1, <1>3, <1>4 DEF PoolType
<1>6. PoolType(new, Ids)
  BY <1>1, <1>3, <1>5 DEF PoolType
<1>7. RefsExact(new, npin)
  <2>1. \A c : TableSlots(new, c) = TableSlots(pool, c)
    BY <1>3 DEF TableSlots
  <2> QED
    BY <1>1, <1>3, <1>4, <2>1 DEF RefsExact
<1>8. FreeExact(new)
  BY <1>1, <1>3, <1>4, <1>5 DEF FreeExact, PoolType
<1>9. PoolInv(new, Ids, npin)
  BY <1>1, <1>3, <1>5, <1>6, <1>7, <1>8 DEF PoolInv
<1> QED
  BY <1>9 DEF new

\* A block that some table names is not free.
LEMMA HeldBlockNotFree ==
  ASSUME NEW Ids, NEW pool, NEW pins, PoolInv(pool, Ids, pins),
         NEW s \in DOMAIN pool.table
  PROVE  Range(pool.table[s]) \cap pool.free = {}
<1> SUFFICES ASSUME NEW i \in DOMAIN pool.table[s] PROVE pool.table[s][i] \notin pool.free
  BY DEF Range
<1> DEFINE b == pool.table[s][i]
<1>1. PoolType(pool, Ids) /\ RefsExact(pool, pins) /\ FreeExact(pool)
      /\ pins \in [Blocks -> Nat] /\ IsFiniteSet(DOMAIN pool.table)
  BY DEF PoolInv
<1>2. b \in Blocks
  BY <1>1 DEF PoolType
<1>3. <<s, i>> \in TableSlots(pool, b)
  BY DEF TableSlots, SlotsOf
<1>4. IsFiniteSet(TableSlots(pool, b))
  BY <1>1, TableSlotsFinite DEF PoolType
<1> HIDE DEF b
<1>5. Cardinality(TableSlots(pool, b)) \in Nat /\ Cardinality(TableSlots(pool, b)) # 0
  BY <1>3, <1>4, FS_CardinalityType, FS_EmptySet
<1>6. pool.ref[b] # 0
  BY <1>1, <1>2, <1>5 DEF RefsExact
<1> QED
  BY <1>1, <1>6 DEF FreeExact, b

\* A new table has exactly the blocks its tokens need.
LEMMA AllocateFits ==
  ASSUME NEW Ids, NEW pool, NEW pins, PoolInv(pool, Ids, pins),
         NEW s, NEW n \in Nat, NEW reused \in Seq(Blocks), AllocateOK(pool, s, n, reused)
  PROVE  LET new == Allocate(pool, s, n, reused)
         IN TableFits(new.table[s], new.len[s])
<1> DEFINE k     == BlocksForTokens(n) - Len(reused)
           fresh == Fresh(pool.free, k)
<1>1. BlocksForTokens(n) \in Nat /\ k \in Nat /\ k <= NumFree(pool)
  BY AllocateDemand
<1>2. fresh \in Seq(Blocks) /\ Len(fresh) = k
  BY <1>1, FreshBlocks
<1> HIDE DEF fresh
<1>3. Len(reused \o fresh) = BlocksForTokens(n)
  BY <1>1, <1>2
<1>4. TableFits(reused \o fresh, n)
  BY <1>3, CeilingDivision DEF TableFits
<1> QED
  BY <1>4 DEF Allocate, Bind, fresh

\* A table that fits its tokens still fits them after growing.
LEMMA AppendFits ==
  ASSUME NEW Ids, NEW pool, NEW pins, PoolInv(pool, Ids, pins),
         NEW s \in DOMAIN pool.table, NEW n \in Nat, CanAppend(pool, s, n),
         TableFits(pool.table[s], pool.len[s])
  PROVE  LET new == AppendTokens(pool, s, n)
         IN TableFits(new.table[s], new.len[s])
<1> DEFINE len   == pool.len[s]
           old   == pool.table[s]
           q     == BlocksForTokens(len + n)
           k     == BlocksNeededToAppend(pool, s, n)
           fresh == Fresh(pool.free, k)
<1>1. PoolType(pool, Ids)
  BY DEF PoolInv
<1>2. len \in Nat /\ old \in Seq(Blocks) /\ Len(old) \in Nat
  BY <1>1 DEF PoolType
<1>3. q \in Nat /\ len + n <= q * BlockSize /\ q * BlockSize < len + n + BlockSize
  <2>1. len + n \in Nat
    BY <1>2
  <2> HIDE DEF len
  <2> QED
    BY <2>1, CeilingDivision
<1>4. BlockSize \in Nat /\ BlockSize > 0
  BY KVAssumption
<1>5. Len(old) <= q
  <2> HIDE DEF len, old, q
  <2>1. SUFFICES ASSUME NEW d \in Nat, Len(old) = q + 1 + d PROVE FALSE
    <3>1. SUFFICES ASSUME q + 1 <= Len(old) PROVE FALSE
      BY <1>2, <1>3
    <3>2. Len(old) - (q + 1) \in Nat /\ Len(old) = q + 1 + (Len(old) - (q + 1))
      BY <1>2, <1>3, <3>1
    <3> QED
      BY <2>1, <3>2
  <2>2. Len(old) * BlockSize = q * BlockSize + BlockSize + d * BlockSize
    BY <1>3, <1>4, <2>1
  <2>3. d * BlockSize \in Nat /\ q * BlockSize \in Nat
    BY <1>3, <1>4
  <2>4. Len(old) * BlockSize < len + BlockSize
    BY DEF TableFits, len, old
  <2> DEFINE full == q * BlockSize
             rest == d * BlockSize
  <2>5. full \in Nat /\ rest \in Nat /\ len <= full
    BY <1>2, <1>3, <2>3
  <2>6. full + BlockSize + rest < len + BlockSize
    BY <2>2, <2>4
  <2> HIDE DEF full, rest
  <2> QED
    BY <1>2, <1>4, <2>5, <2>6
<1>6. k = q - Len(old)
  BY <1>1, <1>2, <1>3, <1>5
     DEF BlocksNeededToAppend, SeqLength, BlockTable, NonNegative, PoolType
<1>7. k <= NumFree(pool)
  BY <1>1, AppendDemand
<1>8. fresh \in Seq(Blocks) /\ Len(fresh) = k
  <2>1. k \in Nat
    BY <1>2, <1>3, <1>5, <1>6
  <2> HIDE DEF k
  <2> QED
    BY <1>7, <2>1, FreshBlocks
<1> HIDE DEF fresh, k
<1>9. Len(old \o fresh) = q
  BY <1>2, <1>3, <1>6, <1>8
<1>10. TableFits(old \o fresh, len + n)
  BY <1>3, <1>9 DEF TableFits
<1> QED
  BY <1>10 DEF AppendTokens, Bind, fresh, k

-----------------------------------------------------------------------------
(* Numbers and lists *)

\* Every nonempty set of natural numbers that is bounded has a largest member.
LEMMA Largest ==
  ASSUME NEW T \in SUBSET Nat, T # {}, NEW bound \in Nat, \A x \in T : x <= bound
  PROVE  \E x \in T : \A y \in T : y <= x
<1> DEFINE R == OpToRel(<, Nat)
           U == {bound - x : x \in T}
<1>1. \A u \in U : u \in Nat
  OBVIOUS
<1>2. IsWellFoundedOn(R, Nat)
  BY NatLessThanWellFounded
<1>3. \A x, y \in Nat : <<y, x>> \in R <=> y < x
  BY DEF OpToRel
<1>4. U # {}
  OBVIOUS
<1> HIDE DEF R
<1>5. PICK u \in U : \A v \in U : ~ (<<v, u>> \in R)
  <2> HIDE DEF U
  <2> QED
    BY <1>1, <1>2, <1>4, WFMin
<1>6. PICK x \in T : u = bound - x
  OBVIOUS
<1>7. ASSUME NEW y \in T PROVE y <= x
  <2>1. bound - y \in U /\ bound - y \in Nat /\ u \in Nat /\ x \in Nat /\ y \in Nat
    BY <1>1
  <2>2. ~(bound - y < u)
    BY <1>3, <1>5, <2>1
  <2> QED
    BY <1>6, <2>1, <2>2
<1> QED
  BY <1>7

\* Removing members from a list leaves the others, each as often as it was there, in
\* their order.
LEMMA WithoutMembers ==
  ASSUME NEW S, NEW list \in Seq(S), NEW members
  PROVE  /\ Without(list, members) \in Seq(S)
         /\ Range(Without(list, members)) = Range(list) \ members
         /\ IsInjective(list) => IsInjective(Without(list, members))
         /\ \A p, q \in DOMAIN Without(list, members) : p < q =>
              \E i, k \in DOMAIN list : /\ i < k
                                       /\ Without(list, members)[p] = list[i]
                                       /\ Without(list, members)[q] = list[k]
<1> DEFINE kept    == {i \in DOMAIN list : list[i] \notin members}
           upto(i) == {j \in kept : j <= i}
           n       == Cardinality(kept)
           f       == [i \in kept |-> Cardinality(upto(i))]
           at(p)   == CHOOSE i \in kept : Cardinality(upto(i)) = p
           rest    == Without(list, members)
<1>1. kept \in SUBSET (1..Len(list)) /\ IsFiniteSet(1..Len(list)) /\ Len(list) \in Nat
  BY FS_Interval
<1>2. IsFiniteSet(kept) /\ n \in Nat
  <2> HIDE DEF kept
  <2> QED
    BY <1>1, FS_Subset, FS_CardinalityType
<1>3. rest = [p \in 1..n |-> list[at(p)]]
  BY DEF Without
<1>4. ASSUME NEW i \in kept
      PROVE  /\ IsFiniteSet(upto(i)) /\ upto(i) \in SUBSET kept /\ i \in upto(i)
             /\ Cardinality(upto(i)) \in 1..n
  <2>1. upto(i) \in SUBSET kept /\ i \in upto(i)
    BY <1>1
  <2> HIDE DEF upto, kept
  <2>2. IsFiniteSet(upto(i)) /\ Cardinality(upto(i)) <= n /\ Cardinality(upto(i)) \in Nat
    BY <1>2, <2>1, FS_Subset, FS_CardinalityType
  <2>3. Cardinality(upto(i)) # 0
    BY <2>1, <2>2, FS_EmptySet
  <2> QED
    BY <1>2, <2>1, <2>2, <2>3
<1>5. ASSUME NEW i \in kept, NEW k \in kept, i < k
      PROVE  Cardinality(upto(i)) # Cardinality(upto(k))
  <2>1. upto(i) \in SUBSET upto(k) /\ k \notin upto(i) /\ k \in upto(k)
    BY <1>1, <1>5
  <2> HIDE DEF upto, kept
  <2> QED
    BY <1>4, <2>1, FS_Subset
<1>6. \A i, k \in kept : i < k \/ k < i \/ i = k
  BY <1>1
<1> HIDE DEF upto, kept
<1>7. f \in Injection(kept, 1..n)
  BY <1>4, <1>5, <1>6 DEF Injection, IsInjective
<1>8. f \in Surjection(kept, 1..n)
  <2>1. IsFiniteSet(1..n) /\ Cardinality(1..n) = n
    BY <1>2, FS_Interval
  <2> QED
    BY <1>7, <2>1, FS_Injection
<1>9. ASSUME NEW p \in 1..n
      PROVE  at(p) \in kept /\ Cardinality(upto(at(p))) = p
  <2>1. PICK i \in kept : f[i] = p
    BY <1>8 DEF Surjection
  <2> QED
    BY <2>1
<1>10. ASSUME NEW i \in kept
       PROVE  \E p \in 1..n : at(p) = i
  <2> DEFINE p == Cardinality(upto(i))
  <2>1. p \in 1..n
    BY <1>4
  <2>2. at(p) \in kept /\ Cardinality(upto(at(p))) = p
    BY <1>9, <2>1
  <2>3. at(p) = i
    BY <1>5, <1>6, <2>2
  <2> QED
    BY <2>1, <2>3
<1>11. ASSUME NEW p \in 1..n, NEW q \in 1..n, at(p) = at(q)
       PROVE  p = q
  BY <1>9, <1>11
<1> HIDE DEF at, rest, n
<1>12. rest \in Seq(S) /\ DOMAIN rest = 1..n /\ \A p \in 1..n : rest[p] = list[at(p)]
  <2>1. ASSUME NEW p \in 1..n PROVE list[at(p)] \in S
    <3>1. at(p) \in 1..Len(list)
      BY <1>1, <1>9
    <3> QED
      BY <3>1
  <2> QED
    BY <1>2, <1>3, <2>1
<1>13. Range(rest) = Range(list) \ members
  <2>1. ASSUME NEW p \in 1..n PROVE rest[p] \in Range(list) \ members
    BY <1>1, <1>9, <1>12 DEF kept, Range
  <2>2. ASSUME NEW i \in DOMAIN list, list[i] \notin members
        PROVE  list[i] \in Range(rest)
    <3>1. PICK p \in 1..n : at(p) = i
      BY <1>10, <2>2 DEF kept
    <3> QED
      BY <1>12, <3>1 DEF Range
  <2> QED
    BY <1>12, <2>1, <2>2 DEF Range
<1>14. ASSUME IsInjective(list) PROVE IsInjective(rest)
  <2> SUFFICES ASSUME NEW p \in 1..n, NEW q \in 1..n, rest[p] = rest[q]
               PROVE  p = q
    BY <1>12 DEF IsInjective
  <2>1. at(p) = at(q)
    BY <1>1, <1>9, <1>12, <1>14 DEF IsInjective, kept
  <2> QED
    BY <1>11, <2>1
<1>15. ASSUME NEW p \in 1..n, NEW q \in 1..n, p < q
       PROVE  \E i, k \in DOMAIN list : i < k /\ rest[p] = list[i] /\ rest[q] = list[k]
  <2> DEFINE i == at(p)
             k == at(q)
  <2>1. /\ i \in kept /\ k \in kept /\ Cardinality(upto(i)) = p /\ Cardinality(upto(k)) = q
        /\ rest[p] = list[i] /\ rest[q] = list[k]
    BY <1>9, <1>12
  <2>2. i \in DOMAIN list /\ k \in DOMAIN list /\ i \in Nat /\ k \in Nat
    BY <1>1, <2>1 DEF kept
  <2> HIDE DEF i, k
  <2>3. i < k
    <3> SUFFICES ASSUME k <= i PROVE FALSE
      BY <2>2
    <3>1. upto(k) \subseteq upto(i) /\ IsFiniteSet(upto(i))
      <4>1. IsFiniteSet(upto(i))
        BY <1>4, <2>1
      <4>2. \A j \in kept : j \in Nat
        BY <1>1
      <4>3. upto(k) \subseteq upto(i)
        BY <2>2, <4>2 DEF upto
      <4> QED
        BY <4>1, <4>3
    <3>2. Cardinality(upto(k)) <= Cardinality(upto(i))
      BY <3>1, FS_Subset
    <3> QED
      BY <1>2, <1>15, <2>1, <3>2
  <2> QED
    BY <2>1, <2>2, <2>3
<1> QED
  BY <1>12, <1>13, <1>14, <1>15 DEF rest

\* Moving keys to the end of a list that has no duplicates adds those that are new.
LEMMA MoveToEndMembers ==
  ASSUME NEW S, NEW order \in Seq(S), NEW keys \in Seq(S),
         IsInjective(order), IsInjective(keys)
  PROVE  /\ MoveToEnd(order, keys) \in Seq(S)
         /\ IsInjective(MoveToEnd(order, keys))
         /\ Range(MoveToEnd(order, keys)) = Range(order) \cup Range(keys)
<1> DEFINE rest == Without(order, ToSet(keys))
<1>1. /\ rest \in Seq(S) /\ IsInjective(rest)
      /\ Range(rest) = Range(order) \ Range(keys)
  <2>1. ToSet(keys) = Range(keys)
    BY DEF ToSet, Range
  <2> QED
    BY <2>1, WithoutMembers
<1>2. MoveToEnd(order, keys) = rest \o keys
  BY DEF MoveToEnd
<1> HIDE DEF rest
<1>3. Range(rest \o keys) = Range(rest) \cup Range(keys)
  BY <1>1, RangeConcat
<1>4. IsInjective(rest \o keys)
  <2> DEFINE both == rest \o keys
  <2>1. /\ DOMAIN both = 1..(Len(rest) + Len(keys)) /\ Len(rest) \in Nat /\ Len(keys) \in Nat
        /\ \A i \in DOMAIN both : \/ i <= Len(rest) /\ i \in DOMAIN rest /\ both[i] = rest[i]
                                  \/ /\ i > Len(rest) /\ i - Len(rest) \in DOMAIN keys
                                     /\ both[i] = keys[i - Len(rest)]
    BY <1>1
  <2>2. \A i \in DOMAIN rest, j \in DOMAIN keys : rest[i] # keys[j]
    BY <1>1 DEF Range
  <2> HIDE DEF both
  <2> SUFFICES ASSUME NEW i \in DOMAIN both, NEW j \in DOMAIN both, both[i] = both[j]
               PROVE  i = j
    BY DEF IsInjective, both
  <2>3. CASE i <= Len(rest) /\ j <= Len(rest)
    BY <1>1, <2>1, <2>3 DEF IsInjective
  <2>4. CASE i > Len(rest) /\ j > Len(rest)
    <3>1. i - Len(rest) = j - Len(rest)
      BY <2>1, <2>4 DEF IsInjective
    <3> QED
      BY <2>1, <3>1
  <2> QED
    BY <2>1, <2>2, <2>3, <2>4
<1> QED
  BY <1>1, <1>2, <1>3, <1>4

\* Counting tokens in whole blocks keeps the order.
LEMMA WholeBlocks ==
  ASSUME NEW i \in Nat, NEW j \in Nat
  PROVE  /\ i * BlockSize \in Nat
         /\ i < j <=> i * BlockSize < j * BlockSize
         /\ i < j => i * BlockSize + BlockSize <= j * BlockSize
<1>1. BlockSize \in Nat /\ BlockSize > 0
  BY KVAssumption
<1>2. \A m, n \in Nat : m < n => m * BlockSize + BlockSize <= n * BlockSize
  <2> SUFFICES ASSUME NEW m \in Nat, NEW n \in Nat, m < n
               PROVE  m * BlockSize + BlockSize <= n * BlockSize
    OBVIOUS
  <2>1. n - m - 1 \in Nat /\ n = m + 1 + (n - m - 1)
    OBVIOUS
  <2> DEFINE d == n - m - 1
  <2>2. n * BlockSize = m * BlockSize + BlockSize + d * BlockSize
    <3>1. d \in Nat /\ n = m + 1 + d
      BY <2>1
    <3> HIDE DEF d
    <3> QED
      BY <1>1, <3>1
  <2>3. d * BlockSize \in Nat /\ m * BlockSize \in Nat
    BY <1>1, <2>1
  <2> QED
    BY <1>1, <2>2, <2>3
<1>3. i * BlockSize \in Nat /\ j * BlockSize \in Nat
  BY <1>1
<1>4. CASE i < j
  BY <1>1, <1>2, <1>3, <1>4
<1>5. CASE i = j
  BY <1>3, <1>5
<1>6. CASE j < i
  BY <1>1, <1>2, <1>3, <1>6
<1> QED
  BY <1>4, <1>5, <1>6

-----------------------------------------------------------------------------
(* The index: keys, hits, matches *)

\* The index is well formed: its order lists each key once.
IndexInv(cache) ==
  /\ cache = [order |-> cache.order, block |-> cache.block]
  /\ cache.order \in Seq(Seq(Nat))
  /\ IsInjective(cache.order)
  /\ Range(cache.order) = DOMAIN cache.block
  /\ cache.block \in [DOMAIN cache.block -> Blocks]

\* The key of a block is as long as the tokens it covers, so no two blocks of a
\* prompt have the same.
LEMMA KeysOfPrompt ==
  ASSUME NEW prompt \in Seq(Nat)
  PROVE  LET keys == HashBlocks(prompt) IN
           /\ keys \in Seq(Seq(Nat)) /\ Len(keys) * BlockSize <= Len(prompt)
           /\ IsInjective(keys)
           /\ \A i \in 1..Len(keys) : /\ keys[i] = SubSeq(prompt, 1, i * BlockSize)
                                      /\ Len(keys[i]) = i * BlockSize
                                      /\ i * BlockSize \in 1..Len(prompt)
<1> DEFINE q    == Len(prompt) \div BlockSize
           keys == HashBlocks(prompt)
<1>1. Len(prompt) \in Nat /\ BlockSize \in Nat /\ BlockSize > 0
  BY KVAssumption
<1>2. q \in Nat /\ Len(prompt) % BlockSize \in 0..(BlockSize - 1)
  BY <1>1
<1>3. Len(prompt) = BlockSize * q + (Len(prompt) % BlockSize)
  BY <1>1
<1>4. q * BlockSize <= Len(prompt)
  <2>1. q * BlockSize = BlockSize * q /\ BlockSize * q \in Nat
    BY <1>1, <1>2
  <2> HIDE DEF q
  <2> QED
    BY <1>1, <1>2, <1>3, <2>1
<1> HIDE DEF q
<1>5. ASSUME NEW i \in 1..q
      PROVE  /\ i * BlockSize \in 1..Len(prompt)
             /\ SubSeq(prompt, 1, i * BlockSize) \in Seq(Nat)
             /\ Len(SubSeq(prompt, 1, i * BlockSize)) = i * BlockSize
  <2>1. i * BlockSize \in Nat /\ q * BlockSize \in Nat /\ 0 * BlockSize = 0
        /\ (0 < i <=> 0 * BlockSize < i * BlockSize)
        /\ (q < i <=> q * BlockSize < i * BlockSize)
    BY <1>1, <1>2, WholeBlocks
  <2> DEFINE tokens == i * BlockSize
             all    == q * BlockSize
  <2>2. tokens \in 1..Len(prompt)
    <3>1. tokens \in Nat /\ all \in Nat /\ all <= Len(prompt) /\ 0 < tokens /\ ~ (all < tokens)
      BY <1>2, <1>4, <2>1
    <3> HIDE DEF tokens, all
    <3> QED
      BY <1>1, <3>1
  <2> HIDE DEF tokens
  <2>3. SubSeq(prompt, 1, tokens) \in Seq(Nat) /\ Len(SubSeq(prompt, 1, tokens)) = tokens
    BY <1>1, <2>2
  <2> QED
    BY <2>2, <2>3 DEF tokens
<1>6. /\ keys = [i \in 1..q |-> SubSeq(prompt, 1, i * BlockSize)]
      /\ keys \in Seq(Seq(Nat)) /\ Len(keys) = q
  <2>1. keys = [i \in 1..q |-> SubSeq(prompt, 1, i * BlockSize)]
    BY DEF HashBlocks, q
  <2> DEFINE key(i) == SubSeq(prompt, 1, i * BlockSize)
  <2>2. \A i \in 1..q : key(i) \in Seq(Nat)
    BY <1>5
  <2>3. keys = [i \in 1..q |-> key(i)]
    BY <2>1
  <2> HIDE DEF key, keys
  <2>4. keys \in Seq(Seq(Nat)) /\ Len(keys) = q
    BY <1>2, <2>2, <2>3
  <2> QED
    BY <2>1, <2>4
<1>7. \A i \in 1..q : Len(keys[i]) = i * BlockSize
  BY <1>5, <1>6
<1>8. IsInjective(keys)
  <2> SUFFICES ASSUME NEW i \in 1..q, NEW j \in 1..q, keys[i] = keys[j]
               PROVE  i = j
    BY <1>2, <1>6 DEF IsInjective
  <2>1. i * BlockSize = j * BlockSize
    <3>1. Len(keys[i]) = i * BlockSize /\ Len(keys[j]) = j * BlockSize
      BY <1>7
    <3> QED
      BY <3>1
  <2>2. /\ i \in Nat /\ j \in Nat /\ i * BlockSize \in Nat /\ j * BlockSize \in Nat
        /\ (i < j <=> i * BlockSize < j * BlockSize)
        /\ (j < i <=> j * BlockSize < i * BlockSize)
    BY <1>2, WholeBlocks
  <2> QED
    BY <2>1, <2>2
<1> QED
  BY <1>4, <1>5, <1>6, <1>7, <1>8

\* The hits of a lookup are keys of the prompt, from its first block on, and
\* entries of the index.
LEMMA HitsOfPrompt ==
  ASSUME NEW prompt \in Seq(Nat), NEW cache
  PROVE  LET hits == HitKeys(cache, prompt) IN
           /\ hits \in Seq(Seq(Nat)) /\ IsInjective(hits)
           /\ Len(hits) * BlockSize <= Len(prompt)
           /\ \A i \in 1..Len(hits) : /\ hits[i] = SubSeq(prompt, 1, i * BlockSize)
                                      /\ hits[i] \in DOMAIN cache.block
<1> DEFINE keys == HashBlocks(prompt)
           N    == {n \in 0..Len(keys) : \A i \in 1..n : keys[i] \in DOMAIN cache.block}
           top  == CHOOSE n \in N : \A m \in N : m <= n
           hits == HitKeys(cache, prompt)
<1>1. /\ keys \in Seq(Seq(Nat)) /\ Len(keys) \in Nat /\ Len(keys) * BlockSize <= Len(prompt)
      /\ IsInjective(keys)
      /\ \A i \in 1..Len(keys) : keys[i] = SubSeq(prompt, 1, i * BlockSize)
  BY KeysOfPrompt
<1> HIDE DEF keys
<1>2. N \in SUBSET Nat /\ 0 \in N /\ \A n \in N : n <= Len(keys)
  BY <1>1
<1>3. top \in N
  <2> HIDE DEF N
  <2>1. \E n \in N : \A m \in N : m <= n
    BY <1>1, <1>2, Largest
  <2> QED
    BY <2>1
<1>4. hits = SubSeq(keys, 1, top)
  BY DEF HitKeys, keys
<1> HIDE DEF top
<1>5. top \in 0..Len(keys) /\ \A i \in 1..top : keys[i] \in DOMAIN cache.block
  BY <1>3
<1>6. hits \in Seq(Seq(Nat)) /\ Len(hits) = top /\ \A i \in 1..top : hits[i] = keys[i]
  BY <1>1, <1>4, <1>5
<1> HIDE DEF hits, N
<1>7. IsInjective(hits)
  <2>1. DOMAIN hits = 1..top /\ \A i \in 1..top : i \in DOMAIN keys
    BY <1>1, <1>5, <1>6
  <2> QED
    BY <1>1, <1>6, <2>1 DEF IsInjective
<1>8. top * BlockSize <= Len(prompt)
  <2>1. top \in Nat /\ Len(keys) * BlockSize \in Nat /\ top * BlockSize \in Nat
        /\ (Len(keys) < top <=> Len(keys) * BlockSize < top * BlockSize)
    BY <1>1, <1>5, WholeBlocks
  <2> QED
    BY <1>1, <1>5, <2>1
<1>9. \A i \in 1..Len(hits) : /\ hits[i] = SubSeq(prompt, 1, i * BlockSize)
                               /\ hits[i] \in DOMAIN cache.block
  <2> TAKE i \in 1..Len(hits)
  <2>1. i \in 1..top /\ i \in 1..Len(keys) /\ hits[i] = keys[i]
    BY <1>1, <1>5, <1>6
  <2> QED
    BY <1>1, <1>5, <2>1
<1>10. Len(hits) * BlockSize <= Len(prompt)
  BY <1>6, <1>8
<1> QED
  BY <1>6, <1>7, <1>9, <1>10 DEF hits

\* What a lookup returns: the blocks of the first keys of the prompt, and at least
\* one token is left to compute.
LEMMA MatchOfPrompt ==
  ASSUME NEW prompt \in Seq(Nat), prompt # <<>>, NEW cache, IndexInv(cache)
  PROVE  LET match == Match(cache, prompt) IN
           /\ match \in Seq(Blocks) /\ Len(match) \in Nat
           /\ Len(match) * BlockSize \in Nat /\ Len(match) * BlockSize < Len(prompt)
           /\ \A i \in 1..Len(match) :
                /\ SubSeq(prompt, 1, i * BlockSize) \in DOMAIN cache.block
                /\ match[i] = cache.block[SubSeq(prompt, 1, i * BlockSize)]
<1> DEFINE hits  == HitKeys(cache, prompt)
           h     == Len(hits)
           m     == UsableHits(prompt, h)
           match == Match(cache, prompt)
<1>1. /\ hits \in Seq(Seq(Nat)) /\ IsInjective(hits)
      /\ Len(hits) * BlockSize <= Len(prompt)
      /\ \A i \in 1..Len(hits) : /\ hits[i] = SubSeq(prompt, 1, i * BlockSize)
                                 /\ hits[i] \in DOMAIN cache.block
  BY HitsOfPrompt
<1>2. h \in Nat
  BY <1>1
<1>3. Len(prompt) \in Nat /\ Len(prompt) > 0 /\ BlockSize \in Nat /\ BlockSize > 0
  BY KVAssumption
<1> HIDE DEF hits
<1>4. m \in Nat /\ m <= h /\ m * BlockSize \in Nat /\ m * BlockSize < Len(prompt)
  <2>1. h * BlockSize \in Nat
    BY <1>2, WholeBlocks
  <2>2. CASE h * BlockSize < Len(prompt)
    <3>1. m = h
      BY <1>3, <2>1, <2>2 DEF UsableHits
    <3> QED
      BY <1>2, <2>1, <2>2, <3>1
  <2>3. CASE h * BlockSize >= Len(prompt)
    <3>1. m = h - 1
      BY <2>3 DEF UsableHits
    <3>2. h # 0
      <4> SUFFICES ASSUME h = 0 PROVE FALSE
        OBVIOUS
      <4>1. h * BlockSize = 0
        BY <1>3
      <4> QED
        BY <1>3, <2>3, <4>1
    <3> DEFINE g == h - 1
    <3>3. g \in Nat /\ g < h /\ m = g
      BY <1>2, <3>1, <3>2
    <3> HIDE DEF g, m
    <3>4. g * BlockSize \in Nat /\ g * BlockSize + BlockSize <= h * BlockSize
      BY <1>2, <3>3, WholeBlocks
    <3> DEFINE a == g * BlockSize
               c == h * BlockSize
    <3>5. a \in Nat /\ c \in Nat /\ a + BlockSize <= c /\ c <= Len(prompt)
      BY <1>1, <2>1, <3>4
    <3>6. a < Len(prompt)
      <4> HIDE DEF a, c
      <4> QED
        BY <1>3, <3>5
    <3> QED
      BY <1>2, <3>3, <3>5, <3>6
  <2> QED
    BY <1>3, <2>1, <2>2, <2>3
<1> HIDE DEF m
<1>5. CASE PrefixCaching
  <2>1. match = [i \in 1..m |-> cache.block[hits[i]]]
    BY <1>5 DEF Match, hits, m
  <2>2. ASSUME NEW i \in 1..m
        PROVE  /\ hits[i] = SubSeq(prompt, 1, i * BlockSize)
               /\ hits[i] \in DOMAIN cache.block /\ cache.block[hits[i]] \in Blocks
    BY <1>1, <1>2, <1>4 DEF IndexInv
  <2> HIDE DEF match
  <2>3. match \in Seq(Blocks) /\ Len(match) = m
    BY <1>4, <2>1, <2>2
  <2> QED
    BY <1>4, <2>1, <2>2, <2>3 DEF match
<1>6. CASE ~PrefixCaching
  <2>1. match = <<>>
    BY <1>6 DEF Match
  <2> QED
    BY <1>3, <2>1
<1> QED
  BY <1>5, <1>6

\* A lookup changes the order of the entries only.
LEMMA TouchKeepsIndex ==
  ASSUME NEW prompt \in Seq(Nat), NEW cache, IndexInv(cache)
  PROVE  IndexInv(Touch(cache, prompt)) /\ Touch(cache, prompt).block = cache.block
<1> DEFINE hits  == HitKeys(cache, prompt)
           order == MoveToEnd(cache.order, hits)
<1>1. /\ hits \in Seq(Seq(Nat)) /\ IsInjective(hits)
      /\ \A i \in 1..Len(hits) : hits[i] \in DOMAIN cache.block
  BY HitsOfPrompt
<1>2. cache.order \in Seq(Seq(Nat)) /\ IsInjective(cache.order)
  BY DEF IndexInv
<1> HIDE DEF hits
<1>3. /\ order \in Seq(Seq(Nat)) /\ IsInjective(order)
      /\ Range(order) = Range(cache.order) \cup Range(hits)
  BY <1>1, <1>2, MoveToEndMembers
<1>4. Range(hits) \subseteq Range(cache.order)
  <2>1. \A i \in DOMAIN hits : hits[i] \in DOMAIN cache.block
    <3>1. DOMAIN hits = 1..Len(hits)
      BY <1>1
    <3> QED
      BY <1>1, <3>1
  <2>2. Range(hits) \subseteq DOMAIN cache.block
    BY <2>1 DEF Range
  <2> QED
    BY <2>2 DEF IndexInv
<1> HIDE DEF order
<1>5. CASE PrefixCaching
  <2>1. Touch(cache, prompt) = [cache EXCEPT !.order = order]
    BY <1>5 DEF Touch, order, hits
  <2> QED
    BY <1>3, <1>4, <2>1 DEF IndexInv
<1>6. CASE ~PrefixCaching
  BY <1>6 DEF Touch
<1> QED
  BY <1>5, <1>6

-----------------------------------------------------------------------------
(* Pins: what the entries of the index hold of the pool *)

\* Two sets of which one renames the other have as many members.
LEMMA Renamed ==
  ASSUME NEW S, NEW T, IsFiniteSet(S), NEW f \in [S -> T],
         \A x, y \in S : f[x] = f[y] => x = y,
         \A y \in T : \E x \in S : f[x] = y
  PROVE  IsFiniteSet(T) /\ Cardinality(T) = Cardinality(S)
<1>1. f \in Bijection(S, T)
  BY Fun_IsBij, Zenon
<1>2. ExistsBijection(S, T)
  BY <1>1 DEF ExistsBijection
<1> QED
  BY <1>2, FS_Bijection

\* Two finite sets with nothing in common count together.
LEMMA CountBoth ==
  ASSUME NEW A, NEW B, IsFiniteSet(A), IsFiniteSet(B), A \cap B = {}
  PROVE  /\ Cardinality(A) \in Nat /\ Cardinality(B) \in Nat
         /\ Cardinality(A \cup B) = Cardinality(A) + Cardinality(B)
<1>1. Cardinality(A) \in Nat /\ Cardinality(B) \in Nat
  BY FS_CardinalityType
<1>2. Cardinality(A \cap B) = 0
  BY FS_EmptySet
<1>3. Cardinality(A \cup B) = Cardinality(A) + Cardinality(B) - Cardinality(A \cap B)
  BY FS_Union
<1> QED
  BY <1>1, <1>2, <1>3

\* Finitely many entries pin a block; a block that an entry maps to has a pin.
LEMMA EntriesOfBlock ==
  ASSUME NEW cache, IndexInv(cache)
  PROVE  /\ IsFiniteSet(DOMAIN cache.block)
         /\ EntryPins(cache) \in [Blocks -> Nat]
         /\ \A b \in Blocks : IsFiniteSet({k \in DOMAIN cache.block : cache.block[k] = b})
         /\ \A k \in DOMAIN cache.block : EntryPins(cache)[cache.block[k]] > 0
<1> DEFINE of(b) == {k \in DOMAIN cache.block : cache.block[k] = b}
<1>1. /\ cache.order \in Seq(Seq(Nat)) /\ Range(cache.order) = DOMAIN cache.block
      /\ \A k \in DOMAIN cache.block : cache.block[k] \in Blocks
  BY DEF IndexInv
<1>2. IsFiniteSet(DOMAIN cache.block)
  <2>1. /\ IsFiniteSet(1..Len(cache.order))
        /\ cache.order \in [1..Len(cache.order) -> Range(cache.order)]
        /\ \A k \in Range(cache.order) : \E i \in 1..Len(cache.order) : cache.order[i] = k
    BY <1>1, FS_Interval DEF Range
  <2>2. cache.order \in Surjection(1..Len(cache.order), Range(cache.order))
    BY <2>1, Fun_IsSurj
  <2> QED
    BY <1>1, <2>1, <2>2, FS_Surjection
<1>3. \A b : IsFiniteSet(of(b)) /\ Cardinality(of(b)) \in Nat
  <2> TAKE b
  <2>1. of(b) \in SUBSET DOMAIN cache.block
    OBVIOUS
  <2> HIDE DEF of
  <2> QED
    BY <1>2, <2>1, FS_Subset, FS_CardinalityType
<1>4. EntryPins(cache) = [b \in Blocks |-> Cardinality(of(b))]
  BY DEF EntryPins
<1>5. ASSUME NEW k \in DOMAIN cache.block PROVE EntryPins(cache)[cache.block[k]] > 0
  <2> DEFINE b == cache.block[k]
  <2>1. k \in of(b) /\ b \in Blocks
    BY <1>1
  <2> HIDE DEF of, b
  <2>2. Cardinality(of(b)) # 0
    BY <1>3, <2>1, FS_EmptySet
  <2> QED
    BY <1>3, <1>4, <2>1, <2>2 DEF b
<1>6. EntryPins(cache) \in [Blocks -> Nat]
  <2> HIDE DEF of
  <2> QED
    BY <1>3, <1>4
<1> QED
  BY <1>2, <1>3, <1>5, <1>6

\* A reference held by an entry keeps its block off the free list.
LEMMA EntryHoldsBlock ==
  ASSUME NEW Ids, NEW pool, NEW cache, PoolInv(pool, Ids, EntryPins(cache)), IndexInv(cache),
         NEW k \in DOMAIN cache.block
  PROVE  pool.ref[cache.block[k]] > 0 /\ cache.block[k] \notin pool.free
<1> DEFINE b == cache.block[k]
<1>1. /\ PoolType(pool, Ids) /\ RefsExact(pool, EntryPins(cache)) /\ FreeExact(pool)
      /\ IsFiniteSet(DOMAIN pool.table)
  BY DEF PoolInv
<1>2. b \in Blocks
  BY DEF IndexInv
<1>3. EntryPins(cache)[b] > 0 /\ EntryPins(cache)[b] \in Nat
  BY <1>2, EntriesOfBlock
<1>4. Cardinality(TableSlots(pool, b)) \in Nat
  BY <1>1, TableSlotsFinite, FS_CardinalityType DEF PoolType
<1>5. pool.ref[b] = Cardinality(TableSlots(pool, b)) + EntryPins(cache)[b]
  BY <1>1, <1>2 DEF RefsExact
<1> HIDE DEF b
<1>6. pool.ref[b] > 0
  BY <1>3, <1>4, <1>5
<1> QED
  BY <1>1, <1>6 DEF FreeExact, b

\* Releasing blocks gives back as many pins.
LEMMA ReleaseKeepsInv ==
  ASSUME NEW Ids, NEW pool, NEW pins, PoolInv(pool, Ids, pins), NEW t \in Seq(Blocks),
         \A b \in Blocks : Occurrences(t, b) <= pins[b]
  PROVE  PoolInv(ReleaseBlocks(pool, t), Ids, [b \in Blocks |-> pins[b] - Occurrences(t, b)])
<1> DEFINE new  == ReleaseBlocks(pool, t)
           npin == [b \in Blocks |-> pins[b] - Occurrences(t, b)]
<1>1. PoolType(pool, Ids) /\ RefsExact(pool, pins) /\ FreeExact(pool)
      /\ pins \in [Blocks -> Nat] /\ IsFiniteSet(DOMAIN pool.table)
  BY DEF PoolInv
<1>2. \A b : Occurrences(t, b) \in Nat /\ (Occurrences(t, b) = 0 <=> b \notin Range(t))
  BY OccurrencesCount
<1>3. /\ new.ref = [b \in Blocks |-> pool.ref[b] - Occurrences(t, b)]
      /\ new.free = pool.free \cup {b \in Range(t) : new.ref[b] = 0}
      /\ new.table = pool.table /\ new.len = pool.len
      /\ new = [free |-> new.free, ref |-> new.ref,
                table |-> new.table, len |-> new.len]
  BY DEF ReleaseBlocks
<1> HIDE DEF new
<1>4. \A b \in Blocks : /\ pool.ref[b] = Cardinality(TableSlots(pool, b)) + pins[b]
                        /\ Cardinality(TableSlots(pool, b)) \in Nat
  <2>1. \A b \in Blocks : Cardinality(TableSlots(pool, b)) \in Nat
    BY <1>1, TableSlotsFinite, FS_CardinalityType DEF PoolType
  <2> QED
    BY <1>1, <2>1 DEF RefsExact
<1>5. npin \in [Blocks -> Nat] /\ new.ref \in [Blocks -> Nat]
  <2>1. \A b \in Blocks : /\ npin[b] \in Nat /\ npin[b] = pins[b] - Occurrences(t, b)
                          /\ new.ref[b] \in Nat
    BY <1>1, <1>2, <1>3, <1>4 DEF PoolType
  <2> QED
    BY <1>3, <2>1
<1>6. PoolType(new, Ids)
  <2>1. Range(t) \subseteq Blocks
    BY DEF Range
  <2>2. new.free \subseteq Blocks
    BY <1>1, <1>3, <2>1 DEF PoolType
  <2> QED
    BY <1>1, <1>3, <1>5, <2>2 DEF PoolType
<1>7. RefsExact(new, npin)
  <2>1. \A b : TableSlots(new, b) = TableSlots(pool, b)
    BY <1>3 DEF TableSlots
  <2> QED
    BY <1>1, <1>2, <1>3, <1>4, <2>1 DEF RefsExact
<1>8. FreeExact(new)
  <2> SUFFICES ASSUME NEW b \in Blocks
               PROVE  b \in new.free <=> new.ref[b] = 0
    BY <1>6 DEF FreeExact, PoolType
  <2>1. /\ pool.ref[b] \in Nat /\ (b \in pool.free <=> pool.ref[b] = 0)
        /\ new.ref[b] \in Nat /\ new.ref[b] = pool.ref[b] - Occurrences(t, b)
    BY <1>1, <1>3, <1>5 DEF PoolType, FreeExact
  <2>2. b \in new.free <=> b \in pool.free \/ (b \in Range(t) /\ new.ref[b] = 0)
    BY <1>3
  <2> QED
    BY <1>2, <2>1, <2>2
<1>9. PoolInv(new, Ids, npin)
  BY <1>1, <1>3, <1>5, <1>6, <1>7, <1>8 DEF PoolInv
<1> QED
  BY <1>9 DEF new

\* Pinning blocks that are referenced takes as many references.
LEMMA MorePinsKeepInv ==
  ASSUME NEW Ids, NEW pool, NEW pins, PoolInv(pool, Ids, pins),
         NEW more \in [Blocks -> Nat], \A b \in Blocks : more[b] > 0 => pool.ref[b] > 0,
         NEW npin \in [Blocks -> Nat], \A b \in Blocks : npin[b] = pins[b] + more[b],
         NEW ref \in [Blocks -> Nat], \A b \in Blocks : ref[b] = pool.ref[b] + more[b],
         NEW new, new = [free |-> pool.free, ref |-> ref,
                         table |-> pool.table, len |-> pool.len]
  PROVE  PoolInv(new, Ids, npin)
<1>1. PoolType(pool, Ids) /\ RefsExact(pool, pins) /\ FreeExact(pool)
      /\ pins \in [Blocks -> Nat] /\ IsFiniteSet(DOMAIN pool.table)
  BY DEF PoolInv
<1>2. /\ new.ref = ref
      /\ new.free = pool.free /\ new.table = pool.table /\ new.len = pool.len
      /\ new = [free |-> new.free, ref |-> new.ref,
                table |-> new.table, len |-> new.len]
  OBVIOUS
<1>3. new.ref \in [Blocks -> Nat]
  BY <1>2
<1>4. PoolType(new, Ids)
  BY <1>1, <1>2, <1>3 DEF PoolType
<1>5. RefsExact(new, npin)
  <2>1. \A b : TableSlots(new, b) = TableSlots(pool, b)
    BY <1>2 DEF TableSlots
  <2>2. \A b \in Blocks : Cardinality(TableSlots(pool, b)) \in Nat
    BY <1>1, TableSlotsFinite, FS_CardinalityType DEF PoolType
  <2> QED
    BY <1>1, <1>2, <2>1, <2>2 DEF RefsExact
<1>6. FreeExact(new)
  <2> SUFFICES ASSUME NEW b \in Blocks
               PROVE  b \in new.free <=> new.ref[b] = 0
    BY <1>4 DEF FreeExact, PoolType
  <2>1. /\ pool.ref[b] \in Nat /\ (b \in pool.free <=> pool.ref[b] = 0)
        /\ new.ref[b] = pool.ref[b] + more[b] /\ more[b] \in Nat
        /\ (more[b] > 0 => pool.ref[b] > 0)
    BY <1>1, <1>2 DEF PoolType, FreeExact
  <2> QED
    BY <1>2, <2>1
<1> QED
  BY <1>1, <1>2, <1>3, <1>4, <1>5, <1>6 DEF PoolInv

-----------------------------------------------------------------------------
(* insert() and evict() keep the accounting *)

\* Evicting the n oldest entries gives back exactly their pins.
LEMMA EvictKeepsInv ==
  ASSUME NEW Ids, NEW st, PoolInv(st.kv, Ids, EntryPins(st.cache)), IndexInv(st.cache),
         NEW n \in 0..Len(st.cache.order)
  PROVE  LET new == EvictOldest(st, n) IN
           /\ PoolInv(new.kv, Ids, EntryPins(new.cache)) /\ IndexInv(new.cache)
           /\ DOMAIN new.cache.block \subseteq DOMAIN st.cache.block
           /\ \A k \in DOMAIN new.cache.block : new.cache.block[k] = st.cache.block[k]
           /\ new.kv.table = st.kv.table /\ new.kv.len = st.kv.len
<1> DEFINE order   == st.cache.order
           block   == st.cache.block
           victims == SubSeq(order, 1, n)
           N       == Len(order)
           kept    == SubSeq(order, n + 1, N)
           t       == [i \in 1..Len(victims) |-> block[victims[i]]]
           new     == EvictOldest(st, n)
<1>1. /\ order \in Seq(Seq(Nat)) /\ IsInjective(order) /\ Range(order) = DOMAIN block
      /\ \A k \in DOMAIN block : block[k] \in Blocks
      /\ \A i \in 1..N : order[i] \in Seq(Nat)
      /\ N \in Nat /\ DOMAIN order = 1..N /\ n \in Nat /\ n <= N
  BY DEF IndexInv
<1> HIDE DEF N
<1>2. /\ Len(victims) = n /\ \A i \in 1..n : victims[i] = order[i]
      /\ kept \in Seq(Seq(Nat)) /\ Len(kept) = N - n /\ DOMAIN kept = 1..(N - n)
      /\ \A i \in 1..(N - n) : kept[i] = order[i + n] /\ i + n \in DOMAIN order
  <2> HIDE DEF order
  <2>1. Len(victims) = n /\ \A i \in 1..n : victims[i] = order[i]
    BY <1>1
  <2>2. \A i \in (n + 1)..N : order[i] \in Seq(Nat)
    BY <1>1
  <2>3. /\ kept \in Seq(Seq(Nat))
        /\ Len(kept) = IF n + 1 <= N THEN N - (n + 1) + 1 ELSE 0
        /\ \A i \in 1..(N - (n + 1) + 1) : kept[i] = order[n + 1 + i - 1]
    BY <1>1, <2>2, SubSeqProperties
  <2> HIDE DEF kept
  <2>4. Len(kept) = N - n
    BY <1>1, <2>3
  <2>5. DOMAIN kept = 1..(N - n)
    BY <2>3, <2>4
  <2>6. ASSUME NEW i \in 1..(N - n) PROVE kept[i] = order[i + n] /\ i + n \in DOMAIN order
    <3>1. N - (n + 1) + 1 = N - n /\ n + 1 + i - 1 = i + n /\ i + n \in 1..N
      BY <1>1
    <3>2. kept[i] = order[n + 1 + i - 1]
      BY <2>3, <3>1
    <3> QED
      BY <1>1, <3>1, <3>2
  <2> QED
    BY <2>1, <2>3, <2>4, <2>5, <2>6
<1>3. new = [kv    |-> ReleaseBlocks(st.kv, t),
             cache |-> [order |-> kept, block |-> Restrict(block, ToSet(kept))]]
  BY DEF EvictOldest, N
<1> HIDE DEF order, block, victims, kept, new
<1>4. /\ Range(kept) \subseteq DOMAIN block
      /\ \A i \in 1..n : order[i] \in DOMAIN block \ Range(kept)
      /\ \A k \in DOMAIN block \ Range(kept) : \E i \in 1..n : order[i] = k
  <2>1. ASSUME NEW i \in 1..n PROVE i \in DOMAIN order
    BY <1>1
  <2>2. ASSUME NEW i \in 1..(N - n) PROVE kept[i] \in DOMAIN block
    BY <1>1, <1>2 DEF Range
  <2>3. ASSUME NEW i \in 1..n PROVE order[i] \in DOMAIN block
    BY <1>1, <2>1 DEF Range
  <2>4. ASSUME NEW i \in 1..n, NEW j \in 1..(N - n) PROVE order[i] # kept[j]
    <3>1. i # j + n
      BY <1>1
    <3> QED
      BY <1>1, <1>2, <2>1, <3>1 DEF IsInjective
  <2>5. ASSUME NEW k \in DOMAIN block, k \notin Range(kept)
        PROVE  \E i \in 1..n : order[i] = k
    <3>1. PICK i \in 1..N : order[i] = k
      BY <1>1 DEF Range
    <3>2. i <= n
      <4> SUFFICES ASSUME i > n PROVE FALSE
        BY <1>1
      <4>1. i - n \in 1..(N - n) /\ i - n + n = i
        BY <1>1
      <4>2. kept[i - n] = order[i]
        BY <1>2, <4>1
      <4> QED
        BY <1>2, <2>5, <3>1, <4>1, <4>2 DEF Range
    <3> QED
      BY <3>1, <3>2
  <2> QED
    BY <1>2, <2>2, <2>3, <2>4, <2>5 DEF Range
<1>5. /\ new.cache = [order |-> new.cache.order, block |-> new.cache.block]
      /\ new.cache.order = kept /\ DOMAIN new.cache.block = Range(kept)
      /\ \A k \in Range(kept) : new.cache.block[k] = block[k]
      /\ new.cache.block \in [Range(kept) -> Blocks]
  <2>1. new.cache.block = [k \in Range(kept) |-> block[k]]
    BY <1>3 DEF Restrict, ToSet, Range
  <2> QED
    BY <1>1, <1>3, <1>4, <2>1
<1>6. IsInjective(kept)
  <2> SUFFICES ASSUME NEW i \in 1..(N - n), NEW j \in 1..(N - n), kept[i] = kept[j]
               PROVE  i = j
    BY <1>2 DEF IsInjective
  <2>1. i + n \in DOMAIN order /\ j + n \in DOMAIN order /\ order[i + n] = order[j + n]
    BY <1>2
  <2>2. i + n = j + n
    BY <1>1, <2>1 DEF IsInjective
  <2> QED
    BY <1>1, <2>2
<1>7. IndexInv(new.cache)
  BY <1>2, <1>5, <1>6 DEF IndexInv
<1>8. t \in Seq(Blocks) /\ DOMAIN t = 1..n /\ \A i \in 1..n : t[i] = block[order[i]]
  <2>1. t = [i \in 1..n |-> block[order[i]]]
    BY <1>2
  <2>2. \A i \in 1..n : block[order[i]] \in Blocks
    BY <1>1, <1>4
  <2> HIDE DEF t
  <2> QED
    BY <2>1, <2>2
<1> HIDE DEF t
<1>9. ASSUME NEW b \in Blocks
      PROVE  /\ EntryPins(st.cache)[b] = EntryPins(new.cache)[b] + Occurrences(t, b)
             /\ EntryPins(new.cache)[b] \in Nat /\ Occurrences(t, b) \in Nat
  <2> DEFINE A == {k \in DOMAIN block : block[k] = b}
             B == {k \in Range(kept) : block[k] = b}
             C == {i \in DOMAIN t : t[i] = b}
             D == {k \in DOMAIN block \ Range(kept) : block[k] = b}
             f == [i \in C |-> order[i]]
  <2>1. A = B \cup D /\ B \cap D = {} /\ B \in SUBSET A /\ D \in SUBSET A
    BY <1>4
  <2>2. IsFiniteSet(A)
    BY EntriesOfBlock DEF block
  <2>3. IsFiniteSet(B) /\ IsFiniteSet(D)
    BY <2>1, <2>2, FS_Subset
  <2>4. IsFiniteSet(C) /\ Cardinality(C) = Occurrences(t, b) /\ Occurrences(t, b) \in Nat
    BY <1>8, OccurrencesCount DEF Occurrences
  <2>5. f \in [C -> D]
    BY <1>4, <1>8
  <2>6. \A x, y \in C : f[x] = f[y] => x = y
    BY <1>1, <1>8 DEF IsInjective
  <2>7. \A k \in D : \E x \in C : f[x] = k
    <3> TAKE k \in D
    <3>1. PICK i \in 1..n : order[i] = k
      BY <1>4
    <3>2. i \in C
      BY <1>8, <3>1
    <3> QED
      BY <3>1, <3>2
  <2>8. Cardinality(A) = EntryPins(st.cache)[b] /\ Cardinality(B) = EntryPins(new.cache)[b]
    <3>1. B = {k \in DOMAIN new.cache.block : new.cache.block[k] = b}
      BY <1>5
    <3> QED
      BY <3>1 DEF EntryPins, block
  <2> HIDE DEF A, B, C, D, f
  <2>9. Cardinality(D) = Cardinality(C)
    BY <2>4, <2>5, <2>6, <2>7, Renamed
  <2>10. /\ Cardinality(B) \in Nat
         /\ Cardinality(A) = Cardinality(B) + Cardinality(D)
    BY <2>1, <2>3, CountBoth
  <2> QED
    BY <2>4, <2>8, <2>9, <2>10
<1>10. EntryPins(new.cache) = [b \in Blocks |-> EntryPins(st.cache)[b] - Occurrences(t, b)]
  <2>1. DOMAIN EntryPins(new.cache) = Blocks /\ EntryPins(new.cache) \in [Blocks -> Nat]
    BY <1>7, EntriesOfBlock
  <2>2. \A b \in Blocks : EntryPins(new.cache)[b] = EntryPins(st.cache)[b] - Occurrences(t, b)
    BY <1>9
  <2> QED
    BY <2>1, <2>2
<1>11. PoolInv(ReleaseBlocks(st.kv, t), Ids, EntryPins(new.cache))
  <2>1. \A b \in Blocks : Occurrences(t, b) <= EntryPins(st.cache)[b]
    BY <1>9
  <2> QED
    BY <1>8, <1>10, <2>1, ReleaseKeepsInv
<1>12. /\ new.kv = ReleaseBlocks(st.kv, t)
       /\ new.kv.table = st.kv.table /\ new.kv.len = st.kv.len
  BY <1>3 DEF ReleaseBlocks
<1> QED
  BY <1>4, <1>5, <1>7, <1>11, <1>12 DEF new, block

\* So does enforcing the capacity.
LEMMA CapacityKeepsInv ==
  ASSUME NEW Ids, NEW st, PoolInv(st.kv, Ids, EntryPins(st.cache)), IndexInv(st.cache)
  PROVE  LET new == EnforceCapacity(st) IN
           /\ PoolInv(new.kv, Ids, EntryPins(new.cache)) /\ IndexInv(new.cache)
           /\ DOMAIN new.cache.block \subseteq DOMAIN st.cache.block
           /\ \A k \in DOMAIN new.cache.block : new.cache.block[k] = st.cache.block[k]
           /\ new.kv.table = st.kv.table /\ new.kv.len = st.kv.len
<1> DEFINE n == Len(st.cache.order) - MaxEntries
<1>1. CASE MaxEntries # NoLimit /\ Len(st.cache.order) > MaxEntries
  <2>1. Len(st.cache.order) \in Nat /\ MaxEntries \in Nat
    BY <1>1, CacheAssumption DEF IndexInv
  <2>2. n \in 0..Len(st.cache.order)
    BY <1>1, <2>1
  <2>3. EnforceCapacity(st) = EvictOldest(st, n)
    BY <1>1 DEF EnforceCapacity
  <2> DEFINE new == EvictOldest(st, n)
  <2>4. /\ PoolInv(new.kv, Ids, EntryPins(new.cache)) /\ IndexInv(new.cache)
        /\ DOMAIN new.cache.block \subseteq DOMAIN st.cache.block
        /\ \A k \in DOMAIN new.cache.block : new.cache.block[k] = st.cache.block[k]
        /\ new.kv.table = st.kv.table /\ new.kv.len = st.kv.len
    BY <2>2, EvictKeepsInv
  <2> QED
    BY <2>3, <2>4
<1>2. CASE ~(MaxEntries # NoLimit /\ Len(st.cache.order) > MaxEntries)
  BY <1>2 DEF EnforceCapacity
<1> QED
  BY <1>1, <1>2

\* The keys insert() publishes: the full blocks of the prompt that the table has.
LEMMA KeysToPublish ==
  ASSUME NEW prompt \in Seq(Nat), NEW table \in Seq(Blocks)
  PROVE  LET keys == PublishedKeys(prompt, table) IN
           /\ keys \in Seq(Seq(Nat)) /\ IsInjective(keys)
           /\ \A i \in DOMAIN keys : /\ i \in DOMAIN table
                                     /\ i * BlockSize <= Len(prompt)
                                     /\ keys[i] = SubSeq(prompt, 1, i * BlockSize)
<1> DEFINE all  == HashBlocks(prompt)
           n    == IF Len(all) < Len(table) THEN Len(all) ELSE Len(table)
           keys == PublishedKeys(prompt, table)
<1>1. /\ all \in Seq(Seq(Nat)) /\ IsInjective(all)
      /\ \A i \in 1..Len(all) : /\ all[i] = SubSeq(prompt, 1, i * BlockSize)
                                /\ i * BlockSize \in 1..Len(prompt)
  BY KeysOfPrompt
<1>2. keys = SubSeq(all, 1, n)
  BY DEF PublishedKeys
<1> HIDE DEF all, keys
<1>3. n \in Nat /\ n <= Len(all) /\ n <= Len(table) /\ Len(all) \in Nat /\ Len(table) \in Nat
  BY <1>1
<1> HIDE DEF n
<1>4. keys \in Seq(Seq(Nat)) /\ DOMAIN keys = 1..n /\ \A i \in 1..n : keys[i] = all[i]
  BY <1>1, <1>2, <1>3
<1>5. \A i \in 1..n : i \in 1..Len(all) /\ i \in 1..Len(table)
  BY <1>3
<1>6. IsInjective(keys)
  <2>1. DOMAIN all = 1..Len(all)
    BY <1>1
  <2> QED
    BY <1>1, <1>4, <1>5, <2>1 DEF IsInjective
<1>7. ASSUME NEW i \in DOMAIN keys
      PROVE  /\ i \in DOMAIN table /\ i * BlockSize <= Len(prompt)
             /\ keys[i] = SubSeq(prompt, 1, i * BlockSize)
  <2>1. i \in 1..Len(all) /\ i \in DOMAIN table /\ keys[i] = all[i]
    BY <1>4, <1>5
  <2> DEFINE tokens == i * BlockSize
  <2>2. tokens \in 1..Len(prompt) /\ all[i] = SubSeq(prompt, 1, tokens)
    BY <1>1, <2>1
  <2> HIDE DEF tokens
  <2>3. tokens <= Len(prompt)
    BY <2>2
  <2> QED
    BY <2>1, <2>2, <2>3 DEF tokens
<1> QED
  BY <1>4, <1>6, <1>7 DEF keys

\* Every entry of new was one of old, or maps a full block of the prompt to the
\* block of the table that holds it.
Publishes(old, new, prompt, table) ==
  \A k \in DOMAIN new.block :
    \/ k \in DOMAIN old.block /\ new.block[k] = old.block[k]
    \/ \E i \in DOMAIN table : /\ i * BlockSize <= Len(prompt)
                               /\ k = SubSeq(prompt, 1, i * BlockSize)
                               /\ new.block[k] = table[i]

\* Publishing takes one pin per new entry.
LEMMA PublishKeepsInv ==
  ASSUME NEW Ids, NEW st, PoolInv(st.kv, Ids, EntryPins(st.cache)), IndexInv(st.cache),
         NEW prompt \in Seq(Nat), NEW table \in Seq(Blocks),
         \A i \in DOMAIN table : st.kv.ref[table[i]] > 0
  PROVE  LET new == Publish(st, prompt, table) IN
           /\ PoolInv(new.kv, Ids, EntryPins(new.cache)) /\ IndexInv(new.cache)
           /\ new.kv.table = st.kv.table /\ new.kv.len = st.kv.len
           /\ Publishes(st.cache, new.cache, prompt, table)
<1> DEFINE keys  == PublishedKeys(prompt, table)
           block == st.cache.block
           added == {i \in DOMAIN keys : keys[i] \notin DOMAIN st.cache.block}
           more  == [b \in Blocks |-> Cardinality({i \in added : table[i] = b})]
           new   == Publish(st, prompt, table)
<1>1. /\ keys \in Seq(Seq(Nat)) /\ IsInjective(keys)
      /\ \A i \in DOMAIN keys : /\ i \in DOMAIN table
                                /\ i * BlockSize <= Len(prompt)
                                /\ keys[i] = SubSeq(prompt, 1, i * BlockSize)
  BY KeysToPublish
<1>2. /\ st.cache.order \in Seq(Seq(Nat)) /\ IsInjective(st.cache.order)
      /\ Range(st.cache.order) = DOMAIN block /\ \A k \in DOMAIN block : block[k] \in Blocks
  BY DEF IndexInv
<1>3. /\ new.kv = [st.kv EXCEPT !.ref = [b \in Blocks |-> @[b] + more[b]]]
      /\ new.cache = [order |-> MoveToEnd(st.cache.order, keys),
                      block |-> IndexWith(block, keys, table)]
  BY DEF Publish
<1> HIDE DEF keys, block, new
<1>4. DOMAIN keys = 1..Len(keys) /\ Len(keys) \in Nat /\ IsFiniteSet(DOMAIN keys)
  BY <1>1, FS_Interval
<1>5. IsFiniteSet(added)
  <2>1. added \in SUBSET DOMAIN keys
    OBVIOUS
  <2> HIDE DEF added
  <2> QED
    BY <1>4, <2>1, FS_Subset
<1>6. \A i \in DOMAIN keys : table[i] \in Blocks
  <2>1. \A i \in DOMAIN table : table[i] \in Blocks
    OBVIOUS
  <2> QED
    BY <1>1, <2>1
<1>7. \A i \in DOMAIN keys : (CHOOSE j \in DOMAIN keys : keys[j] = keys[i]) = i
  <2> TAKE i \in DOMAIN keys
  <2> DEFINE c == CHOOSE j \in DOMAIN keys : keys[j] = keys[i]
  <2>1. c \in DOMAIN keys /\ keys[c] = keys[i]
    OBVIOUS
  <2> HIDE DEF c
  <2>2. c = i
    BY <1>1, <2>1 DEF IsInjective
  <2> QED
    BY <2>2 DEF c
<1>8. /\ DOMAIN new.cache.block = DOMAIN block \cup Range(keys)
      /\ \A k \in DOMAIN block : new.cache.block[k] = block[k]
      /\ \A i \in added : new.cache.block[keys[i]] = table[i]
  <2> DEFINE at(k) == table[CHOOSE i \in DOMAIN keys : keys[i] = k]
  <2>1. new.cache.block = [k \in DOMAIN block \cup Range(keys) |->
                             IF k \in DOMAIN block THEN block[k] ELSE at(k)]
    BY <1>3 DEF IndexWith, ToSet, Range
  <2>2. \A i \in DOMAIN keys : at(keys[i]) = table[i]
    BY <1>7
  <2>3. \A i \in DOMAIN keys : keys[i] \in Range(keys)
    BY DEF Range
  <2> HIDE DEF at
  <2> QED
    BY <2>1, <2>2, <2>3 DEF block
<1>9. ASSUME NEW k \in DOMAIN new.cache.block
      PROVE  \/ k \in DOMAIN block
             \/ \E i \in added : k = keys[i]
  BY <1>8 DEF Range, block
<1>10. IndexInv(new.cache)
  <2>1. /\ new.cache.order \in Seq(Seq(Nat)) /\ IsInjective(new.cache.order)
        /\ Range(new.cache.order) = Range(st.cache.order) \cup Range(keys)
    BY <1>1, <1>2, <1>3, MoveToEndMembers
  <2>2. \A k \in DOMAIN new.cache.block : new.cache.block[k] \in Blocks
    BY <1>2, <1>6, <1>8, <1>9
  <2>3. new.cache = [order |-> new.cache.order, block |-> new.cache.block]
    BY <1>3
  <2>4. new.cache.block \in [DOMAIN new.cache.block -> Blocks]
    <3>1. new.cache.block = [k \in DOMAIN new.cache.block |-> new.cache.block[k]]
      BY <1>3 DEF IndexWith
    <3> QED
      BY <2>2, <3>1
  <2> QED
    BY <1>2, <1>8, <2>1, <2>3, <2>4 DEF IndexInv
<1>11. ASSUME NEW b \in Blocks
       PROVE  /\ EntryPins(new.cache)[b] = EntryPins(st.cache)[b] + more[b]
              /\ more[b] \in Nat
              /\ more[b] > 0 => st.kv.ref[b] > 0
  <2> DEFINE A == {k \in DOMAIN new.cache.block : new.cache.block[k] = b}
             B == {k \in DOMAIN block : block[k] = b}
             C == {i \in added : table[i] = b}
             D == {k \in DOMAIN new.cache.block \ DOMAIN block : new.cache.block[k] = b}
             f == [i \in C |-> keys[i]]
  <2>1. A = B \cup D /\ B \cap D = {}
    BY <1>8
  <2>2. IsFiniteSet(B)
    BY EntriesOfBlock DEF block
  <2>3. C \in SUBSET added
    OBVIOUS
  <2>4. IsFiniteSet(C) /\ Cardinality(C) \in Nat
    <3> HIDE DEF C, added
    <3> QED
      BY <1>5, <2>3, FS_Subset, FS_CardinalityType
  <2>5. f \in [C -> D]
    BY <1>8 DEF Range, block
  <2>6. \A x, y \in C : f[x] = f[y] => x = y
    BY <1>1 DEF IsInjective
  <2>7. \A k \in D : \E x \in C : f[x] = k
    BY <1>8, <1>9
  <2>8. /\ Cardinality(A) = EntryPins(new.cache)[b]
        /\ Cardinality(B) = EntryPins(st.cache)[b]
        /\ Cardinality(C) = more[b]
    BY DEF EntryPins, block
  <2>9. ASSUME more[b] > 0 PROVE st.kv.ref[b] > 0
    <3>1. C # {}
      <4> HIDE DEF C, more
      <4> QED
        BY <2>4, <2>8, <2>9, FS_EmptySet
    <3> QED
      BY <1>1, <3>1
  <2> HIDE DEF A, B, C, D, f, more
  <2>10. IsFiniteSet(D) /\ Cardinality(D) = Cardinality(C)
    BY <2>4, <2>5, <2>6, <2>7, Renamed
  <2>11. Cardinality(A) = Cardinality(B) + Cardinality(D)
    BY <2>1, <2>2, <2>10, CountBoth
  <2> QED
    BY <2>4, <2>8, <2>9, <2>10, <2>11
<1> HIDE DEF more
<1>12. PoolInv(new.kv, Ids, EntryPins(new.cache))
  <2>1. more \in [Blocks -> Nat]
    BY <1>11 DEF more
  <2>2. EntryPins(new.cache) \in [Blocks -> Nat]
    BY <1>10, EntriesOfBlock
  <2> DEFINE pool == st.kv
             kv   == new.kv
             ref  == [b \in Blocks |-> pool.ref[b] + more[b]]
             pins == EntryPins(st.cache)
             npin == EntryPins(new.cache)
  <2>3. pool = [free |-> pool.free, ref |-> pool.ref, table |-> pool.table, len |-> pool.len]
        /\ pool.ref \in [Blocks -> Nat]
    BY DEF PoolInv, PoolType
  <2>4. kv = [free |-> pool.free, ref |-> ref, table |-> pool.table, len |-> pool.len]
    BY <1>3, <2>3
  <2>5. /\ PoolInv(pool, Ids, pins)
        /\ \A b \in Blocks : more[b] > 0 => pool.ref[b] > 0
        /\ npin \in [Blocks -> Nat]
        /\ \A b \in Blocks : npin[b] = pins[b] + more[b]
    BY <1>11, <2>2
  <2>6. ref \in [Blocks -> Nat] /\ \A b \in Blocks : ref[b] = pool.ref[b] + more[b]
    BY <2>1, <2>3
  <2> HIDE DEF pool, kv, ref, pins, npin
  <2>7. PoolInv(kv, Ids, npin)
    BY <2>1, <2>4, <2>5, <2>6, MorePinsKeepInv
  <2> QED
    BY <2>7 DEF kv, npin
<1>13. new.kv.table = st.kv.table /\ new.kv.len = st.kv.len
  BY <1>3 DEF PoolInv, PoolType
<1>14. ASSUME NEW k \in DOMAIN new.cache.block
       PROVE  \/ k \in DOMAIN st.cache.block /\ new.cache.block[k] = st.cache.block[k]
              \/ \E i \in DOMAIN table : /\ i * BlockSize <= Len(prompt)
                                         /\ k = SubSeq(prompt, 1, i * BlockSize)
                                         /\ new.cache.block[k] = table[i]
  <2>1. CASE k \in DOMAIN block
    BY <1>8, <2>1 DEF block
  <2>2. CASE k \notin DOMAIN block
    <3>1. PICK i \in added : k = keys[i]
      BY <1>9, <2>2
    <3> QED
      BY <1>1, <1>8, <3>1
  <2> QED
    BY <2>1, <2>2
<1> QED
  BY <1>10, <1>12, <1>13, <1>14 DEF new, Publishes

\* insert() keeps the accounting.
LEMMA InsertKeepsInv ==
  ASSUME NEW Ids, NEW st, PoolInv(st.kv, Ids, EntryPins(st.cache)), IndexInv(st.cache),
         NEW prompt \in Seq(Nat), NEW table \in Seq(Blocks),
         \A i \in DOMAIN table : st.kv.ref[table[i]] > 0
  PROVE  LET new == Insert(st, prompt, table) IN
           /\ PoolInv(new.kv, Ids, EntryPins(new.cache)) /\ IndexInv(new.cache)
           /\ new.kv.table = st.kv.table /\ new.kv.len = st.kv.len
           /\ Publishes(st.cache, new.cache, prompt, table)
<1> DEFINE mid == Publish(st, prompt, table)
           new == EnforceCapacity(mid)
<1>1. CASE ~PrefixCaching
  BY <1>1 DEF Insert, Publishes
<1>2. CASE PrefixCaching
  <2>1. /\ PoolInv(mid.kv, Ids, EntryPins(mid.cache)) /\ IndexInv(mid.cache)
        /\ mid.kv.table = st.kv.table /\ mid.kv.len = st.kv.len
        /\ Publishes(st.cache, mid.cache, prompt, table)
    BY PublishKeepsInv
  <2> HIDE DEF mid
  <2>2. /\ PoolInv(new.kv, Ids, EntryPins(new.cache)) /\ IndexInv(new.cache)
        /\ DOMAIN new.cache.block \subseteq DOMAIN mid.cache.block
        /\ \A k \in DOMAIN new.cache.block : new.cache.block[k] = mid.cache.block[k]
        /\ new.kv.table = mid.kv.table /\ new.kv.len = mid.kv.len
    BY <2>1, CapacityKeepsInv
  <2>3. Insert(st, prompt, table) = new
    BY <1>2 DEF Insert, mid
  <2> HIDE DEF new
  <2>4. Publishes(st.cache, new.cache, prompt, table)
    BY <2>1, <2>2 DEF Publishes
  <2> QED
    BY <2>1, <2>2, <2>3, <2>4
<1> QED
  BY <1>1, <1>2

-----------------------------------------------------------------------------
(* What the blocks hold *)

\* The KV in the blocks is that of their readers: every block of a sequence was
\* computed for the stream of that sequence, every entry's block for the key of
\* the entry, and a block that is not full yet has one reader.
ReadsOwn(pool, written, stream) ==
  \A s \in DOMAIN pool.table : \A i \in DOMAIN pool.table[s] :
    written[pool.table[s][i]] = Prefix(stream[s], i)

\* An entry of the index maps to KV of the prefix it is keyed by.
EntriesKeepKV(cache, written) ==
  \A k \in DOMAIN cache.block : written[cache.block[k]] = k

\* A block that is not full has one place in one table, and no entry.
TailsExclusive(pool, cache) ==
  \A s \in DOMAIN pool.table : \A i \in DOMAIN pool.table[s] :
    pool.len[s] < i * BlockSize =>
      /\ \A x \in DOMAIN pool.table : \A j \in DOMAIN pool.table[x] :
           pool.table[x][j] = pool.table[s][i] => x = s /\ j = i
      /\ \A k \in DOMAIN cache.block : cache.block[k] # pool.table[s][i]

\* Every table has the blocks its tokens need.
AllFit(pool) == \A s \in DOMAIN pool.table : TableFits(pool.table[s], pool.len[s])

\* What the blocks hold, and who may still write them.
ContentInv(pool, cache, written, stream) ==
  /\ ReadsOwn(pool, written, stream)
  /\ EntriesKeepKV(cache, written)
  /\ TailsExclusive(pool, cache)
  /\ AllFit(pool)

\* Streams that agree on their first tokens agree on the prefixes of those.
LEMMA SamePrefix ==
  ASSUME NEW T, NEW U, NEW a \in Seq(T), NEW b \in Seq(U), NEW m \in Nat,
         m <= Len(a), m <= Len(b), \A i \in 1..m : a[i] = b[i]
  PROVE  SubSeq(a, 1, m) = SubSeq(b, 1, m)
<1> DEFINE p == SubSeq(a, 1, m)
           q == SubSeq(b, 1, m)
<1>1. /\ \A i \in 1..m : a[i] \in T \cup U
      /\ \A i \in 1..m : b[i] \in T \cup U
  <2>1. \A i \in 1..m : i \in 1..Len(a)
    OBVIOUS
  <2>2. \A i \in 1..m : a[i] \in T
    BY <2>1
  <2> QED
    BY <2>2
<1>2. /\ p \in Seq(T \cup U) /\ Len(p) = IF 1 <= m THEN m - 1 + 1 ELSE 0
      /\ \A i \in 1..(m - 1 + 1) : p[i] = a[1 + i - 1]
  BY <1>1, SubSeqProperties
<1>3. /\ q \in Seq(T \cup U) /\ Len(q) = IF 1 <= m THEN m - 1 + 1 ELSE 0
      /\ \A i \in 1..(m - 1 + 1) : q[i] = b[1 + i - 1]
  BY <1>1, SubSeqProperties
<1>4. Len(p) = m /\ Len(q) = m /\ m - 1 + 1 = m
  BY <1>2, <1>3
<1>5. \A i \in 1..m : p[i] = q[i]
  <2> TAKE i \in 1..m
  <2>1. 1 + i - 1 = i
    OBVIOUS
  <2> QED
    BY <1>2, <1>3, <1>4, <2>1
<1> HIDE DEF p, q
<1>6. p = q
  BY <1>2, <1>3, <1>4, <1>5, SeqEqual
<1> QED
  BY <1>6 DEF p, q

\* What a full block holds does not change when its stream grows.
LEMMA FullBlockIsFinal ==
  ASSUME NEW T, NEW U, NEW a \in Seq(T), NEW b \in Seq(U), Len(a) <= Len(b),
         \A j \in 1..Len(a) : a[j] = b[j],
         NEW i \in Nat, i * BlockSize <= Len(a)
  PROVE  Prefix(b, i) = SubSeq(a, 1, i * BlockSize) /\ Prefix(a, i) = Prefix(b, i)
<1> DEFINE m == i * BlockSize
<1>1. m \in Nat /\ Len(a) \in Nat /\ Len(b) \in Nat /\ m <= Len(a)
  BY WholeBlocks
<1>2. Prefix(b, i) = SubSeq(b, 1, m) /\ Prefix(a, i) = SubSeq(a, 1, m)
  <2>1. Prefix(b, i) = SubSeq(b, 1, IF m < Len(b) THEN m ELSE Len(b))
        /\ Prefix(a, i) = SubSeq(a, 1, IF m < Len(a) THEN m ELSE Len(a))
    BY DEF Prefix
  <2>2. (IF m < Len(b) THEN m ELSE Len(b)) = m /\ (IF m < Len(a) THEN m ELSE Len(a)) = m
    <3> HIDE DEF m
    <3> QED
      BY <1>1
  <2> QED
    BY <2>1, <2>2
<1> HIDE DEF m
<1>3. SubSeq(a, 1, m) = SubSeq(b, 1, m)
  <2>1. m <= Len(b) /\ \A j \in 1..m : a[j] = b[j]
    BY <1>1
  <2> QED
    BY <1>1, <2>1, SamePrefix
<1> QED
  BY <1>2, <1>3 DEF m

\* A block that two tables, or a table and an entry, do not share has one reference.
LEMMA TailHasOneReader ==
  ASSUME NEW Ids, NEW pool, NEW cache, NEW written, NEW stream,
         PoolInv(pool, Ids, EntryPins(cache)), IndexInv(cache),
         ContentInv(pool, cache, written, stream),
         NEW s \in DOMAIN pool.table, NEW i \in DOMAIN pool.table[s],
         pool.len[s] < i * BlockSize
  PROVE  pool.ref[pool.table[s][i]] = 1
<1> DEFINE b == pool.table[s][i]
<1>1. PoolType(pool, Ids) /\ RefsExact(pool, EntryPins(cache))
  BY DEF PoolInv
<1>2. b \in Blocks
  BY <1>1 DEF PoolType
<1>3. /\ \A x \in DOMAIN pool.table : \A j \in DOMAIN pool.table[x] :
           pool.table[x][j] = b => x = s /\ j = i
      /\ \A k \in DOMAIN cache.block : cache.block[k] # b
  BY DEF ContentInv, TailsExclusive
<1>4. TableSlots(pool, b) = {<<s, i>>}
  <2>1. <<s, i>> \in TableSlots(pool, b)
    BY DEF TableSlots, SlotsOf
  <2>2. ASSUME NEW r \in TableSlots(pool, b) PROVE r = <<s, i>>
    <3>1. PICK x \in DOMAIN pool.table : r \in SlotsOf(x, pool.table[x], b)
      BY DEF TableSlots
    <3>2. PICK j \in DOMAIN pool.table[x] : pool.table[x][j] = b /\ r = <<x, j>>
      BY <3>1 DEF SlotsOf
    <3> QED
      BY <1>3, <3>2
  <2> QED
    BY <2>1, <2>2
<1>5. EntryPins(cache)[b] = 0
  <2>1. {k \in DOMAIN cache.block : cache.block[k] = b} = {}
    BY <1>3
  <2>2. Cardinality({k \in DOMAIN cache.block : cache.block[k] = b}) = 0
    BY <2>1, FS_EmptySet
  <2> HIDE DEF b
  <2> QED
    BY <1>2, <2>2 DEF EntryPins
<1>6. Cardinality(TableSlots(pool, b)) = 1
  BY <1>4, FS_Singleton
<1> HIDE DEF b
<1>7. pool.ref[b] = 1
  BY <1>1, <1>2, <1>5, <1>6 DEF RefsExact
<1> QED
  BY <1>7 DEF b

\* What is left after sequences are freed and entries evicted keeps its content.
LEMMA ShrinkKeepsContent ==
  ASSUME NEW Ids, NEW pool, NEW cache, NEW written, NEW stream,
         ContentInv(pool, cache, written, stream),
         NEW new, NEW ncache, NEW nstream,
         PoolInv(new, Ids, EntryPins(ncache)), IndexInv(ncache),
         DOMAIN new.table \subseteq DOMAIN pool.table,
         \A s \in DOMAIN new.table : /\ new.table[s] = pool.table[s]
                                     /\ new.len[s] = pool.len[s]
                                     /\ nstream[s] = stream[s],
         DOMAIN ncache.block \subseteq DOMAIN cache.block,
         \A k \in DOMAIN ncache.block : ncache.block[k] = cache.block[k]
  PROVE  ContentInv(new, ncache, Keep(written, new), nstream)
<1>1. \A b \in Blocks : b \notin new.free => Keep(written, new)[b] = written[b]
  BY DEF Keep
<1>2. ReadsOwn(new, Keep(written, new), nstream)
  <2> SUFFICES ASSUME NEW s \in DOMAIN new.table, NEW i \in DOMAIN new.table[s]
               PROVE  Keep(written, new)[new.table[s][i]] = Prefix(nstream[s], i)
    BY DEF ReadsOwn
  <2>1. new.table[s][i] \in Range(new.table[s])
    BY DEF Range
  <2>2. new.table[s][i] \notin new.free
    BY <2>1, HeldBlockNotFree
  <2>3. new.table[s][i] \in Blocks
    BY DEF PoolInv, PoolType
  <2>4. written[new.table[s][i]] = Prefix(nstream[s], i)
    BY DEF ContentInv, ReadsOwn
  <2> QED
    BY <1>1, <2>2, <2>3, <2>4
<1>3. EntriesKeepKV(ncache, Keep(written, new))
  <2> SUFFICES ASSUME NEW k \in DOMAIN ncache.block
               PROVE  Keep(written, new)[ncache.block[k]] = k
    BY DEF EntriesKeepKV
  <2>1. ncache.block[k] \notin new.free
    BY EntryHoldsBlock
  <2>2. ncache.block[k] \in Blocks
    BY DEF IndexInv
  <2>3. written[ncache.block[k]] = k
    BY DEF ContentInv, EntriesKeepKV
  <2> QED
    BY <1>1, <2>1, <2>2, <2>3
<1>4. TailsExclusive(new, ncache)
  <2> SUFFICES ASSUME NEW s \in DOMAIN new.table, NEW i \in DOMAIN new.table[s],
                      new.len[s] < i * BlockSize
               PROVE  /\ \A x \in DOMAIN new.table : \A j \in DOMAIN new.table[x] :
                           new.table[x][j] = new.table[s][i] => x = s /\ j = i
                      /\ \A k \in DOMAIN ncache.block : ncache.block[k] # new.table[s][i]
    BY DEF TailsExclusive
  <2>1. /\ s \in DOMAIN pool.table /\ i \in DOMAIN pool.table[s]
        /\ pool.len[s] < i * BlockSize
    OBVIOUS
  <2>2. /\ \A x \in DOMAIN pool.table : \A j \in DOMAIN pool.table[x] :
             pool.table[x][j] = pool.table[s][i] => x = s /\ j = i
        /\ \A k \in DOMAIN cache.block : cache.block[k] # pool.table[s][i]
    BY <2>1 DEF ContentInv, TailsExclusive
  <2> QED
    BY <2>2
<1>5. AllFit(new)
  BY DEF ContentInv, AllFit
<1> QED
  BY <1>2, <1>3, <1>4, <1>5 DEF ContentInv

\* Publishing a prompt that is computed maps its keys to blocks that hold them, and
\* only to full ones.
LEMMA PublishKeepsContent ==
  ASSUME NEW pool, NEW cache, NEW written, NEW stream,
         ContentInv(pool, cache, written, stream),
         NEW Ids, PoolType(pool, Ids),
         NEW s \in DOMAIN pool.table, NEW T, stream[s] \in Seq(T),
         Len(stream[s]) = pool.len[s],
         NEW prompt \in Seq(Nat), Len(prompt) <= pool.len[s],
         \A i \in 1..Len(prompt) : prompt[i] = stream[s][i],
         NEW new, new.table = pool.table, new.len = pool.len,
         NEW ncache, Publishes(cache, ncache, prompt, pool.table[s])
  PROVE  ContentInv(new, ncache, written, stream)
<1>1. ASSUME NEW k \in DOMAIN ncache.block
      PROVE  \/ k \in DOMAIN cache.block /\ ncache.block[k] = cache.block[k]
             \/ \E i \in DOMAIN pool.table[s] : /\ i * BlockSize <= Len(prompt)
                                                /\ k = SubSeq(prompt, 1, i * BlockSize)
                                                /\ ncache.block[k] = pool.table[s][i]
  BY DEF Publishes
<1>2. DOMAIN pool.table[s] \subseteq Nat /\ pool.len[s] \in Nat /\ Len(prompt) \in Nat
  <2>1. pool.table[s] \in Seq(Blocks)
    BY DEF PoolType
  <2> QED
    BY <2>1 DEF PoolType
<1>3. ASSUME NEW i \in DOMAIN pool.table[s], i * BlockSize <= Len(prompt)
      PROVE  /\ written[pool.table[s][i]] = SubSeq(prompt, 1, i * BlockSize)
             /\ ~(pool.len[s] < i * BlockSize)
  <2>1. Prefix(stream[s], i) = SubSeq(prompt, 1, i * BlockSize)
    <3> DEFINE str == stream[s]
    <3>1. /\ str \in Seq(T) /\ i \in Nat /\ Len(prompt) <= Len(str)
          /\ \A j \in 1..Len(prompt) : prompt[j] = str[j]
      BY <1>2
    <3> HIDE DEF str
    <3>2. Prefix(str, i) = SubSeq(prompt, 1, i * BlockSize)
      BY <1>3, <3>1, FullBlockIsFinal
    <3> QED
      BY <3>2 DEF str
  <2>2. i * BlockSize \in Nat
    BY <1>2, WholeBlocks
  <2> DEFINE m == i * BlockSize
  <2>3. ~(pool.len[s] < m)
    <3>1. m \in Nat /\ m <= Len(prompt)
      BY <1>3, <2>2
    <3> HIDE DEF m
    <3> QED
      BY <1>2, <3>1
  <2> QED
    BY <2>1, <2>3 DEF ContentInv, ReadsOwn
<1>4. EntriesKeepKV(ncache, written)
  <2> SUFFICES ASSUME NEW k \in DOMAIN ncache.block PROVE written[ncache.block[k]] = k
    BY DEF EntriesKeepKV
  <2> QED
    BY <1>1, <1>3 DEF ContentInv, EntriesKeepKV
<1>5. TailsExclusive(new, ncache)
  <2> SUFFICES ASSUME NEW x \in DOMAIN pool.table, NEW j \in DOMAIN pool.table[x],
                      pool.len[x] < j * BlockSize,
                      NEW k \in DOMAIN ncache.block
               PROVE  ncache.block[k] # pool.table[x][j]
    BY DEF TailsExclusive, ContentInv
  <2>1. /\ \A y \in DOMAIN pool.table : \A i \in DOMAIN pool.table[y] :
             pool.table[y][i] = pool.table[x][j] => y = x /\ i = j
        /\ \A l \in DOMAIN cache.block : cache.block[l] # pool.table[x][j]
    BY DEF ContentInv, TailsExclusive
  <2> QED
    BY <1>1, <1>3, <2>1
<1> QED
  BY <1>4, <1>5 DEF ContentInv, ReadsOwn, AllFit

\* KV is computed into the places past `from`; the other blocks keep theirs.
LEMMA ComputeWrites ==
  ASSUME NEW written, NEW table, NEW from, NEW stream, NEW b \in Blocks
  PROVE  LET new == Compute(written, table, from, stream) IN
           /\ (\A i \in DOMAIN table : table[i] = b => ~(i * BlockSize > from))
                => new[b] = written[b]
           /\ \A i \in DOMAIN table :
                /\ table[i] = b /\ i * BlockSize > from
                /\ \A j \in DOMAIN table : table[j] = b => j = i
                => new[b] = Prefix(stream, i)
<1> DEFINE at  == {i \in DOMAIN table : table[i] = b /\ i * BlockSize > from}
           new == Compute(written, table, from, stream)
<1>1. new[b] = IF at = {} THEN written[b] ELSE Prefix(stream, CHOOSE i \in at : TRUE)
  BY DEF Compute
<1>2. ASSUME \A i \in DOMAIN table : table[i] = b => ~(i * BlockSize > from)
      PROVE  new[b] = written[b]
  <2>1. at = {}
    BY <1>2
  <2> QED
    BY <1>1, <2>1
<1>3. ASSUME NEW i \in DOMAIN table, table[i] = b, i * BlockSize > from,
             \A j \in DOMAIN table : table[j] = b => j = i
      PROVE  new[b] = Prefix(stream, i)
  <2>1. at = {i}
    BY <1>3
  <2>2. (CHOOSE j \in at : TRUE) = i
    BY <2>1
  <2> QED
    BY <1>1, <2>1, <2>2
<1> QED
  BY <1>2, <1>3

\* n blocks that no table and no entry refers to.
NewBlocks(f, n, pool, cache) ==
  /\ f \in Seq(Blocks) /\ Len(f) = n /\ DOMAIN f = 1..n
  /\ \A i, j \in 1..n : f[i] = f[j] => i = j
  /\ \A i \in 1..n : /\ f[i] \in Blocks
                     /\ \A k \in DOMAIN cache.block : cache.block[k] # f[i]
                     /\ \A x \in DOMAIN pool.table : \A j \in DOMAIN pool.table[x] :
                          pool.table[x][j] # f[i]

\* Blocks popped from the free list are new to every table and every entry.
LEMMA FreshIsNew ==
  ASSUME NEW Ids, NEW pool, NEW cache, PoolInv(pool, Ids, EntryPins(cache)), IndexInv(cache),
         NEW n \in Nat, n <= NumFree(pool)
  PROVE  NewBlocks(Fresh(pool.free, n), n, pool, cache)
<1> DEFINE f == Fresh(pool.free, n)
<1>1. f \in Seq(Blocks) /\ Len(f) = n /\ Range(f) \subseteq pool.free
  BY FreshBlocks
<1>2. IsInjective(f)
  BY FreeIsFinite, FreshIsInjective DEF PoolInv, NumFree
<1> HIDE DEF f
<1>3. DOMAIN f = 1..n
  BY <1>1
<1>4. ASSUME NEW i \in 1..n
      PROVE  /\ f[i] \in Blocks
             /\ \A k \in DOMAIN cache.block : cache.block[k] # f[i]
             /\ \A x \in DOMAIN pool.table : \A j \in DOMAIN pool.table[x] :
                  pool.table[x][j] # f[i]
  <2>1. f[i] \in pool.free /\ f[i] \in Blocks
    BY <1>1, <1>3 DEF Range
  <2>2. \A k \in DOMAIN cache.block : cache.block[k] \notin pool.free
    BY EntryHoldsBlock
  <2>3. ASSUME NEW x \in DOMAIN pool.table, NEW j \in DOMAIN pool.table[x]
        PROVE  pool.table[x][j] \notin pool.free
    <3>1. pool.table[x][j] \in Range(pool.table[x])
      BY DEF Range
    <3> QED
      BY <3>1, HeldBlockNotFree
  <2> QED
    BY <2>1, <2>2, <2>3
<1> QED
  BY <1>1, <1>2, <1>3, <1>4 DEF f, IsInjective, NewBlocks

\* The blocks of a match: entries hold them, keyed by what the stream has there.
Adoptable(reused, cache, str) ==
  \A i \in 1..Len(reused) : \E k \in DOMAIN cache.block :
    reused[i] = cache.block[k] /\ k = Prefix(str, i)

\* The streams of the sequences other than s are the same.
OthersKeep(stream, nstream, s, pool) ==
  \A x \in DOMAIN pool.table : x # s => nstream[x] = stream[x]

\* A stream and what it was before n more tokens.
Extends(a, b, n) == Len(b) = Len(a) + n /\ \A j \in 1..Len(a) : a[j] = b[j]

\* A stream that begins with all of another.
StartsWith(b, a) == Len(a) <= Len(b) /\ \A j \in 1..Len(a) : a[j] = b[j]

\* A sequence that starts from blocks that entries hold for its stream, and computes
\* the rest, reads its own KV and disturbs nobody's.
LEMMA AllocateKeepsContent ==
  ASSUME NEW Ids, NEW pool, NEW cache, NEW written, NEW stream,
         PoolInv(pool, Ids, EntryPins(cache)), IndexInv(cache),
         ContentInv(pool, cache, written, stream),
         NEW s, NEW n \in Nat, NEW reused \in Seq(Blocks), AllocateOK(pool, s, n, reused),
         NEW str, Adoptable(reused, cache, str),
         NEW new, new = Allocate(pool, s, n, reused),
         NEW nstream, nstream[s] = str, OthersKeep(stream, nstream, s, pool)
  PROVE  ContentInv(new, cache,
                    Compute(written, new.table[s], Len(reused) * BlockSize, str), nstream)
<1> DEFINE k0     == BlocksForTokens(n) - Len(reused)
           fresh  == Fresh(pool.free, k0)
           table  == reused \o fresh
           r      == Len(reused)
           from   == r * BlockSize
           now    == Compute(written, table, from, str)
<1>1. k0 \in Nat /\ k0 <= NumFree(pool)
  BY AllocateDemand
<1>2. s \notin DOMAIN pool.table /\ r \in Nat /\ from \in Nat /\ from <= n
  BY WholeBlocks DEF AllocateOK
<1>3. /\ fresh \in Seq(Blocks) /\ Len(fresh) = k0 /\ DOMAIN fresh = 1..k0
      /\ \A i, j \in 1..k0 : fresh[i] = fresh[j] => i = j
      /\ \A i \in 1..k0 : /\ fresh[i] \in Blocks
                          /\ \A k \in DOMAIN cache.block : cache.block[k] # fresh[i]
                          /\ \A x \in DOMAIN pool.table : \A j \in DOMAIN pool.table[x] :
                               pool.table[x][j] # fresh[i]
  <2> HIDE DEF k0
  <2>1. NewBlocks(fresh, k0, pool, cache)
    BY <1>1, FreshIsNew
  <2> HIDE DEF fresh
  <2> QED
    BY <2>1 DEF NewBlocks
<1>4. /\ DOMAIN new.table = DOMAIN pool.table \cup {s}
      /\ new.table[s] = table /\ new.len[s] = n
      /\ \A x \in DOMAIN pool.table : new.table[x] = pool.table[x]
      /\ \A x \in DOMAIN pool.table : new.len[x] = pool.len[x]
  <2>1. DOMAIN pool.len = DOMAIN pool.table
    BY DEF PoolInv, PoolType
  <2> QED
    BY <1>2, <2>1 DEF Allocate, Bind
<1> HIDE DEF k0, fresh
<1>5. /\ DOMAIN table = 1..(r + k0)
      /\ \A i \in 1..r : i \in DOMAIN table /\ table[i] = reused[i]
      /\ \A i \in 1..k0 : r + i \in DOMAIN table /\ table[r + i] = fresh[i]
      /\ \A i \in DOMAIN table : i \in 1..r \/ \E j \in 1..k0 : i = r + j
  <2>1. DOMAIN table = 1..(r + k0)
    <3>1. table \in Seq(Blocks) /\ Len(table) = Len(reused) + Len(fresh)
      <4>1. fresh \in Seq(Blocks)
        BY <1>3
      <4> QED
        BY <4>1, ConcatProperties
    <3>2. DOMAIN table = 1..Len(table) /\ Len(table) = r + k0
      BY <1>3, <3>1
    <3> QED
      BY <3>2
  <2>2. \A i \in 1..r : i \in DOMAIN table /\ table[i] = reused[i]
    BY <1>1, <1>2, <1>3, <2>1
  <2>3. ASSUME NEW i \in 1..k0 PROVE r + i \in DOMAIN table /\ table[r + i] = fresh[i]
    <3>1. r + i \in 1..(r + k0) /\ r + i > r /\ r + i - r = i
      BY <1>1, <1>2
    <3> QED
      BY <1>2, <1>3, <2>1, <3>1
  <2>4. ASSUME NEW i \in DOMAIN table, i \notin 1..r PROVE \E j \in 1..k0 : i = r + j
    <3>1. i - r \in 1..k0 /\ i = r + (i - r)
      BY <1>1, <1>2, <2>1, <2>4
    <3> QED
      BY <3>1
  <2> QED
    BY <2>1, <2>2, <2>3, <2>4
<1>6. /\ \A i \in 1..r : ~(i * BlockSize > from)
      /\ \A i \in 1..k0 : (r + i) * BlockSize > from
  <2>1. ASSUME NEW i \in Nat
        PROVE  /\ i * BlockSize \in Nat
               /\ (r < i <=> from < i * BlockSize)
    BY <1>2, WholeBlocks
  <2>2. ASSUME NEW i \in 1..r PROVE ~(i * BlockSize > from)
    <3>1. i \in Nat /\ ~(r < i)
      BY <1>2
    <3> DEFINE m == i * BlockSize
    <3>2. m \in Nat /\ (r < i <=> from < m)
      BY <2>1, <3>1
    <3> HIDE DEF m, from
    <3> QED
      BY <1>2, <3>1, <3>2 DEF m
  <2>3. ASSUME NEW i \in 1..k0 PROVE (r + i) * BlockSize > from
    <3>1. r + i \in Nat /\ r < r + i
      BY <1>1, <1>2
    <3> DEFINE m == (r + i) * BlockSize
    <3>2. m \in Nat /\ from < m
      BY <2>1, <3>1
    <3> HIDE DEF m, from
    <3> QED
      BY <1>2, <3>2 DEF m
  <2> QED
    BY <2>2, <2>3
<1> HIDE DEF table, from, r
<1>7. \A i \in 1..r : \A j \in 1..k0 : reused[i] # fresh[j]
  BY <1>3 DEF r, Adoptable
<1>8. ASSUME NEW b \in Blocks, \A j \in 1..k0 : b # fresh[j]
      PROVE  now[b] = written[b]
  <2>1. \A i \in DOMAIN table : table[i] = b => ~(i * BlockSize > from)
    BY <1>5, <1>6, <1>8
  <2> QED
    BY <2>1, ComputeWrites
<1>9. ASSUME NEW i \in 1..k0 PROVE now[fresh[i]] = Prefix(str, r + i)
  <2>1. /\ r + i \in DOMAIN table /\ table[r + i] = fresh[i]
        /\ (r + i) * BlockSize > from /\ fresh[i] \in Blocks
    BY <1>3, <1>5, <1>6
  <2>2. ASSUME NEW j \in DOMAIN table, table[j] = fresh[i] PROVE j = r + i
    <3>1. j \notin 1..r
      BY <1>5, <1>7, <2>2
    <3>2. PICK q \in 1..k0 : j = r + q
      BY <1>5, <3>1
    <3>3. fresh[q] = fresh[i]
      BY <1>5, <2>2, <3>2
    <3>4. q = i
      BY <1>3, <3>3
    <3> QED
      BY <3>2, <3>4
  <2> QED
    BY <2>1, <2>2, ComputeWrites
<1> HIDE DEF now
<1>10. ReadsOwn(new, now, nstream)
  <2> SUFFICES ASSUME NEW x \in DOMAIN new.table, NEW i \in DOMAIN new.table[x]
               PROVE  now[new.table[x][i]] = Prefix(nstream[x], i)
    BY DEF ReadsOwn
  <2>1. CASE x \in DOMAIN pool.table
    <3>1. pool.table[x][i] \in Blocks /\ \A j \in 1..k0 : pool.table[x][i] # fresh[j]
      BY <1>3, <1>4, <2>1 DEF PoolInv, PoolType
    <3>2. now[pool.table[x][i]] = written[pool.table[x][i]]
      BY <1>8, <3>1
    <3> QED
      BY <1>2, <1>4, <2>1, <3>2 DEF ContentInv, ReadsOwn, OthersKeep
  <2>2. CASE x = s /\ i \in 1..r
    <3>1. PICK k \in DOMAIN cache.block : reused[i] = cache.block[k] /\ k = Prefix(str, i)
      BY <2>2 DEF r, Adoptable
    <3>2. reused[i] \in Blocks /\ \A j \in 1..k0 : reused[i] # fresh[j]
      BY <1>7, <2>2, <3>1 DEF IndexInv
    <3>3. now[reused[i]] = written[reused[i]]
      BY <1>8, <3>2
    <3>4. written[reused[i]] = k
      BY <3>1 DEF ContentInv, EntriesKeepKV
    <3> QED
      BY <1>4, <1>5, <2>2, <3>1, <3>3, <3>4
  <2>3. CASE x = s /\ i \notin 1..r
    <3>1. PICK j \in 1..k0 : i = r + j
      BY <1>4, <1>5, <2>3
    <3> QED
      BY <1>4, <1>5, <1>9, <2>3, <3>1
  <2> QED
    BY <1>4, <2>1, <2>2, <2>3
<1>11. EntriesKeepKV(cache, now)
  <2> SUFFICES ASSUME NEW k \in DOMAIN cache.block PROVE now[cache.block[k]] = k
    BY DEF EntriesKeepKV
  <2>1. cache.block[k] \in Blocks /\ \A j \in 1..k0 : cache.block[k] # fresh[j]
    BY <1>3 DEF IndexInv
  <2>2. now[cache.block[k]] = written[cache.block[k]]
    BY <1>8, <2>1
  <2> QED
    BY <2>2 DEF ContentInv, EntriesKeepKV
<1>12. TailsExclusive(new, cache)
  <2> SUFFICES ASSUME NEW x \in DOMAIN new.table, NEW i \in DOMAIN new.table[x],
                      new.len[x] < i * BlockSize
               PROVE  /\ \A y \in DOMAIN new.table : \A j \in DOMAIN new.table[y] :
                           new.table[y][j] = new.table[x][i] => y = x /\ j = i
                      /\ \A k \in DOMAIN cache.block : cache.block[k] # new.table[x][i]
    BY DEF TailsExclusive
  <2>1. CASE x \in DOMAIN pool.table
    <3>1. /\ \A y \in DOMAIN pool.table : \A j \in DOMAIN pool.table[y] :
               pool.table[y][j] = pool.table[x][i] => y = x /\ j = i
          /\ \A k \in DOMAIN cache.block : cache.block[k] # pool.table[x][i]
      BY <1>4, <2>1 DEF ContentInv, TailsExclusive
    <3>2. ASSUME NEW j \in DOMAIN table PROVE table[j] # pool.table[x][i]
      <4>1. CASE j \in 1..r
        <5>1. PICK k \in DOMAIN cache.block : reused[j] = cache.block[k]
          BY <4>1 DEF r, Adoptable
        <5> QED
          BY <1>5, <3>1, <4>1, <5>1
      <4>2. CASE j \notin 1..r
        BY <1>3, <1>4, <1>5, <2>1, <4>2
      <4> QED
        BY <4>1, <4>2
    <3> QED
      BY <1>4, <2>1, <3>1, <3>2
  <2>2. CASE x = s
    <3>1. i \notin 1..r
      <4> SUFFICES ASSUME i \in 1..r PROVE FALSE
        OBVIOUS
      <4>1. ~(i * BlockSize > from) /\ n < i * BlockSize /\ i \in Nat
        BY <1>2, <1>4, <1>6, <2>2
      <4>2. i * BlockSize \in Nat
        BY <4>1, WholeBlocks
      <4> DEFINE m == i * BlockSize
      <4>3. m \in Nat /\ ~(m > from) /\ n < m
        BY <4>1, <4>2
      <4> HIDE DEF m
      <4> QED
        BY <1>2, <4>3
    <3>2. PICK j \in 1..k0 : i = r + j
      BY <1>4, <1>5, <2>2, <3>1
    <3>3. new.table[x][i] = fresh[j]
      BY <1>4, <1>5, <2>2, <3>2
    <3>4. ASSUME NEW l \in DOMAIN table, table[l] = fresh[j] PROVE l = i
      BY <1>3, <1>5, <1>7, <3>2, <3>4
    <3> QED
      BY <1>3, <1>4, <2>2, <3>3, <3>4
  <2> QED
    BY <1>4, <2>1, <2>2
<1>13. AllFit(new)
  <2>1. TableFits(new.table[s], new.len[s])
    BY AllocateFits
  <2> QED
    BY <1>4, <2>1 DEF ContentInv, AllFit
<1> QED
  BY <1>4, <1>10, <1>11, <1>12, <1>13 DEF ContentInv, now, from, r

\* A sequence that grows computes into blocks that it alone reads: its own last block
\* while that is not full, and new ones.  What it read before stays what it was.
LEMMA GrowKeepsContent ==
  ASSUME NEW Ids, NEW pool, NEW cache, NEW written, NEW stream,
         PoolInv(pool, Ids, EntryPins(cache)), IndexInv(cache),
         ContentInv(pool, cache, written, stream),
         NEW s \in DOMAIN pool.table, NEW n \in Nat, CanAppend(pool, s, n),
         NEW T, stream[s] \in Seq(T), Len(stream[s]) = pool.len[s],
         NEW U, NEW str \in Seq(U), Extends(stream[s], str, n),
         NEW new, new = AppendTokens(pool, s, n),
         NEW nstream, nstream[s] = str, OthersKeep(stream, nstream, s, pool)
  PROVE  ContentInv(new, cache, Compute(written, new.table[s], pool.len[s], str), nstream)
<1> DEFINE k0    == BlocksNeededToAppend(pool, s, n)
           fresh == Fresh(pool.free, k0)
           old   == pool.table[s]
           o     == Len(old)
           len   == pool.len[s]
           table == old \o fresh
           now   == Compute(written, table, len, str)
<1>1. /\ PoolType(pool, Ids) /\ DOMAIN pool.len = DOMAIN pool.table
      /\ \A x \in DOMAIN pool.table : pool.table[x] \in Seq(Blocks) /\ pool.len[x] \in Nat
  BY DEF PoolInv, PoolType
<1>2. k0 \in Nat /\ k0 <= NumFree(pool)
  BY <1>1, AppendDemand
<1>3. old \in Seq(Blocks) /\ o \in Nat /\ DOMAIN old = 1..o /\ len \in Nat
  BY <1>1
<1>4. /\ fresh \in Seq(Blocks) /\ Len(fresh) = k0 /\ DOMAIN fresh = 1..k0
      /\ \A i, j \in 1..k0 : fresh[i] = fresh[j] => i = j
      /\ \A i \in 1..k0 : /\ fresh[i] \in Blocks
                          /\ \A k \in DOMAIN cache.block : cache.block[k] # fresh[i]
                          /\ \A x \in DOMAIN pool.table : \A j \in DOMAIN pool.table[x] :
                               pool.table[x][j] # fresh[i]
  <2> HIDE DEF k0
  <2>1. NewBlocks(fresh, k0, pool, cache)
    BY <1>2, FreshIsNew
  <2> HIDE DEF fresh
  <2> QED
    BY <2>1 DEF NewBlocks
<1>5. /\ DOMAIN new.table = DOMAIN pool.table
      /\ new.table[s] = table /\ new.len[s] = len + n
      /\ \A x \in DOMAIN pool.table : x # s => new.table[x] = pool.table[x]
      /\ \A x \in DOMAIN pool.table : x # s => new.len[x] = pool.len[x]
  BY <1>1 DEF AppendTokens, Bind
<1> HIDE DEF k0, fresh
<1>6. /\ DOMAIN table = 1..(o + k0)
      /\ \A i \in 1..o : i \in DOMAIN table /\ table[i] = old[i]
      /\ \A i \in 1..k0 : o + i \in DOMAIN table /\ table[o + i] = fresh[i]
      /\ \A i \in DOMAIN table : i \in 1..o \/ \E j \in 1..k0 : i = o + j
  <2> HIDE DEF old
  <2>1. DOMAIN table = 1..(o + k0)
    <3>1. table \in Seq(Blocks) /\ Len(table) = Len(old) + Len(fresh)
      <4>1. fresh \in Seq(Blocks) /\ old \in Seq(Blocks)
        BY <1>3, <1>4
      <4> QED
        BY <4>1, ConcatProperties
    <3>2. DOMAIN table = 1..Len(table) /\ Len(table) = o + k0
      BY <1>4, <3>1
    <3> QED
      BY <3>2
  <2>2. \A i \in 1..o : i \in DOMAIN table /\ table[i] = old[i]
    BY <1>2, <1>3, <1>4, <2>1
  <2>3. ASSUME NEW i \in 1..k0 PROVE o + i \in DOMAIN table /\ table[o + i] = fresh[i]
    <3>1. o + i \in 1..(o + k0) /\ o + i > o /\ o + i - o = i
      BY <1>2, <1>3
    <3> QED
      BY <1>3, <1>4, <2>1, <3>1
  <2>4. ASSUME NEW i \in DOMAIN table, i \notin 1..o PROVE \E j \in 1..k0 : i = o + j
    <3>1. i - o \in 1..k0 /\ i = o + (i - o)
      BY <1>2, <1>3, <2>1, <2>4
    <3> QED
      BY <3>1
  <2> QED
    BY <2>1, <2>2, <2>3, <2>4
<1>7. ASSUME NEW i \in DOMAIN table, ~(i * BlockSize > len)
      PROVE  i \in 1..o
  <2> SUFFICES ASSUME NEW j \in 1..k0, i = o + j PROVE FALSE
    BY <1>6
  <2>1. i \in Nat /\ o < i
    BY <1>2, <1>3
  <2>2. TableFits(old, len)
    BY DEF ContentInv, AllFit
  <2> DEFINE m == i * BlockSize
             f == o * BlockSize
  <2>3. m \in Nat /\ f \in Nat /\ f < m /\ len <= f /\ ~(m > len)
    BY <1>3, <1>7, <2>1, <2>2, WholeBlocks DEF TableFits
  <2> HIDE DEF m, f
  <2> QED
    BY <1>3, <2>3
<1>8. ASSUME NEW i \in DOMAIN table, i * BlockSize > len
      PROVE  /\ table[i] \in Blocks
             /\ \A k \in DOMAIN cache.block : cache.block[k] # table[i]
             /\ \A x \in DOMAIN pool.table : x # s =>
                  \A j \in DOMAIN pool.table[x] : pool.table[x][j] # table[i]
             /\ \A j \in DOMAIN table : table[j] = table[i] => j = i
  <2>1. CASE i \in 1..o
    <3>1. i \in DOMAIN old /\ table[i] = old[i] /\ pool.len[s] < i * BlockSize
      <4>1. i * BlockSize \in Nat
        BY <1>3, <2>1, WholeBlocks
      <4> DEFINE m == i * BlockSize
      <4>2. m \in Nat /\ m > len
        BY <1>8, <4>1
      <4> HIDE DEF m
      <4>3. len < m
        BY <1>3, <4>2
      <4> QED
        BY <1>3, <1>6, <2>1, <4>3 DEF m
    <3>2. /\ \A x \in DOMAIN pool.table : \A j \in DOMAIN pool.table[x] :
               pool.table[x][j] = pool.table[s][i] => x = s /\ j = i
          /\ \A k \in DOMAIN cache.block : cache.block[k] # pool.table[s][i]
      BY <3>1 DEF ContentInv, TailsExclusive
    <3> HIDE DEF table
    <3>3. ASSUME NEW j \in DOMAIN table, table[j] = table[i] PROVE j = i
      <4>1. j \in 1..o
        BY <1>4, <1>6, <3>1, <3>3
      <4> QED
        BY <1>3, <1>6, <3>1, <3>2, <3>3, <4>1
    <3> QED
      BY <1>3, <3>1, <3>2, <3>3
  <2>2. CASE i \notin 1..o
    <3>1. PICK l \in 1..k0 : i = o + l
      BY <1>6, <2>2
    <3>2. table[i] = fresh[l]
      BY <1>6, <3>1
    <3> HIDE DEF table
    <3>3. ASSUME NEW j \in DOMAIN table, table[j] = table[i] PROVE j = i
      <4>1. CASE j \in 1..o
        <5>1. table[j] = pool.table[s][j] /\ j \in DOMAIN pool.table[s]
          BY <1>3, <1>6, <4>1
        <5>2. pool.table[s][j] # fresh[l]
          BY <1>4, <5>1
        <5> QED
          BY <3>2, <3>3, <5>1, <5>2
      <4>2. CASE j \notin 1..o
        <5>1. PICK q \in 1..k0 : j = o + q
          BY <1>6, <4>2
        <5>2. table[j] = fresh[q]
          BY <1>6, <5>1
        <5>3. fresh[q] = fresh[l]
          BY <3>2, <3>3, <5>2
        <5>4. q = l
          BY <1>4, <5>3
        <5> QED
          BY <3>1, <5>1, <5>4
      <4> QED
        BY <4>1, <4>2
    <3> QED
      BY <1>4, <3>2, <3>3
  <2> QED
    BY <2>1, <2>2
<1> HIDE DEF table
<1>9. ASSUME NEW b \in Blocks, \A i \in DOMAIN table : table[i] = b => ~(i * BlockSize > len)
      PROVE  now[b] = written[b]
  <2> HIDE DEF len, old, o
  <2> QED
    BY <1>9, ComputeWrites
<1>10. ASSUME NEW i \in DOMAIN table, i * BlockSize > len PROVE now[table[i]] = Prefix(str, i)
  BY <1>8, <1>10, ComputeWrites
<1> HIDE DEF now
<1>11. ReadsOwn(new, now, nstream)
  <2> SUFFICES ASSUME NEW x \in DOMAIN new.table, NEW i \in DOMAIN new.table[x]
               PROVE  now[new.table[x][i]] = Prefix(nstream[x], i)
    BY DEF ReadsOwn
  <2>1. CASE x # s
    <3>1. x \in DOMAIN pool.table /\ new.table[x] = pool.table[x]
      BY <1>5, <2>1
    <3>2. pool.table[x][i] \in Blocks
      BY <1>1, <3>1
    <3>3. now[pool.table[x][i]] = written[pool.table[x][i]]
      BY <1>8, <1>9, <2>1, <3>1, <3>2
    <3> QED
      BY <2>1, <3>1, <3>3 DEF ContentInv, ReadsOwn, OthersKeep
  <2>2. CASE x = s /\ i * BlockSize > len
    BY <1>5, <1>10, <2>2
  <2>3. CASE x = s /\ ~(i * BlockSize > len)
    <3>1. i \in DOMAIN table /\ i \in 1..o /\ table[i] = old[i]
      BY <1>5, <1>6, <1>7, <2>3
    <3>2. \A l \in DOMAIN table : table[l] = table[i] => ~(l * BlockSize > len)
      BY <1>8, <2>3, <3>1
    <3>3. now[old[i]] = written[old[i]]
      <4>1. old[i] \in Blocks
        BY <1>3, <3>1
      <4> QED
        BY <1>9, <3>1, <3>2, <4>1
    <3>4. written[old[i]] = Prefix(stream[s], i)
      BY <1>3, <3>1 DEF ContentInv, ReadsOwn
    <3>5. Prefix(stream[s], i) = Prefix(str, i)
      <4> DEFINE a == stream[s]
      <4>1. a \in Seq(T) /\ Len(a) = len /\ \A j \in 1..Len(a) : a[j] = str[j]
        BY DEF Extends
      <4>2. i \in Nat /\ i * BlockSize <= Len(a)
        <5>1. i \in Nat /\ i * BlockSize \in Nat
          BY <1>3, <3>1, WholeBlocks
        <5> DEFINE m == i * BlockSize
        <5>2. m \in Nat /\ ~(m > len)
          BY <2>3, <5>1
        <5> HIDE DEF m, a, len
        <5>3. m <= len
          BY <1>3, <5>2
        <5> QED
          BY <4>1, <5>1, <5>3 DEF m
      <4>3. Len(a) <= Len(str)
        BY <1>3 DEF Extends
      <4>4. Prefix(a, i) = Prefix(str, i)
        <5>1. /\ a \in Seq(T) /\ str \in Seq(U) /\ Len(a) <= Len(str)
              /\ \A j \in 1..Len(a) : a[j] = str[j]
          BY <4>1, <4>3
        <5> HIDE DEF a, len
        <5> QED
          BY <4>2, <5>1, FullBlockIsFinal
      <4> QED
        BY <4>4 DEF a
    <3> QED
      BY <1>5, <2>3, <3>1, <3>3, <3>4, <3>5
  <2> QED
    BY <2>1, <2>2, <2>3
<1>12. EntriesKeepKV(cache, now)
  <2> SUFFICES ASSUME NEW k \in DOMAIN cache.block PROVE now[cache.block[k]] = k
    BY DEF EntriesKeepKV
  <2>1. cache.block[k] \in Blocks
    BY DEF IndexInv
  <2>2. now[cache.block[k]] = written[cache.block[k]]
    BY <1>8, <1>9, <2>1
  <2> QED
    BY <2>2 DEF ContentInv, EntriesKeepKV
<1>13. TailsExclusive(new, cache)
  <2> SUFFICES ASSUME NEW x \in DOMAIN new.table, NEW i \in DOMAIN new.table[x],
                      new.len[x] < i * BlockSize
               PROVE  /\ \A y \in DOMAIN new.table : \A j \in DOMAIN new.table[y] :
                           new.table[y][j] = new.table[x][i] => y = x /\ j = i
                      /\ \A k \in DOMAIN cache.block : cache.block[k] # new.table[x][i]
    BY DEF TailsExclusive
  <2>1. CASE x # s
    <3>1. x \in DOMAIN pool.table /\ new.table[x] = pool.table[x] /\ new.len[x] = pool.len[x]
      BY <1>5, <2>1
    <3>2. /\ \A y \in DOMAIN pool.table : \A j \in DOMAIN pool.table[y] :
               pool.table[y][j] = pool.table[x][i] => y = x /\ j = i
          /\ \A k \in DOMAIN cache.block : cache.block[k] # pool.table[x][i]
      BY <3>1 DEF ContentInv, TailsExclusive
    <3>3. ASSUME NEW j \in DOMAIN table PROVE table[j] # pool.table[x][i]
      <4>1. CASE j \in 1..o
        BY <1>3, <1>6, <2>1, <3>2, <4>1
      <4>2. CASE j \notin 1..o
        BY <1>4, <1>6, <3>1, <4>2
      <4> QED
        BY <4>1, <4>2
    <3> QED
      BY <1>5, <3>1, <3>2, <3>3
  <2>2. CASE x = s
    <3>1. i \in DOMAIN table /\ i * BlockSize > len
      <4>1. i \in DOMAIN table
        BY <1>5, <2>2
      <4>2. i \in Nat
        BY <1>2, <1>3, <1>6, <4>1
      <4>3. i * BlockSize \in Nat
        BY <4>2, WholeBlocks
      <4> DEFINE m == i * BlockSize
      <4>4. m \in Nat /\ len + n < m
        BY <1>5, <2>2, <4>3
      <4> HIDE DEF m
      <4>5. m > len
        BY <1>3, <4>4
      <4> QED
        BY <4>1, <4>5 DEF m
    <3> QED
      BY <1>5, <1>8, <2>2, <3>1
  <2> QED
    BY <2>1, <2>2
<1>14. AllFit(new)
  <2>1. TableFits(pool.table[s], pool.len[s])
    BY DEF ContentInv, AllFit
  <2>2. TableFits(new.table[s], new.len[s])
    BY <2>1, AppendFits
  <2> QED
    BY <1>5, <2>2 DEF ContentInv, AllFit
<1> QED
  BY <1>5, <1>11, <1>12, <1>13, <1>14 DEF ContentInv, now

\* free() takes the table of one sequence away and leaves the others alone.
LEMMA FreeLeavesOthers ==
  ASSUME NEW Ids, NEW pool, PoolType(pool, Ids), NEW s
  PROVE  LET new == FreeSequence(pool, s) IN
           /\ DOMAIN new.table = DOMAIN pool.table \ {s}
           /\ \A x \in DOMAIN new.table : /\ new.table[x] = pool.table[x]
                                          /\ new.len[x] = pool.len[x]
<1>1. DOMAIN pool.len = DOMAIN pool.table
  BY DEF PoolType
<1> QED
  BY <1>1 DEF FreeSequence, Restrict

-----------------------------------------------------------------------------
(* The calls the serving loops make: pool, index and content together *)

\* A request is admitted with the blocks a lookup finds for its prompt.
LEMMA AdoptMatchKeepsAll ==
  ASSUME NEW Ids, NEW pool, NEW cache, NEW written, NEW stream,
         PoolInv(pool, Ids, EntryPins(cache)), IndexInv(cache),
         ContentInv(pool, cache, written, stream),
         NEW p \in Seq(Nat), p # <<>>, NEW match, match = Match(cache, p),
         NEW s \in Ids, NEW n \in Nat, n <= Len(p), AllocateOK(pool, s, n, match),
         NEW T, NEW str \in Seq(T), Extends(str, p, Len(p) - n),
         NEW new, new = Allocate(pool, s, n, match),
         NEW nstream, nstream[s] = str, OthersKeep(stream, nstream, s, pool)
  PROVE  /\ PoolInv(new, Ids, EntryPins(cache))
         /\ ContentInv(new, cache,
                       Compute(written, new.table[s], Len(match) * BlockSize, str), nstream)
<1>1. /\ match \in Seq(Blocks) /\ Len(match) \in Nat /\ Len(match) * BlockSize \in Nat
      /\ \A i \in 1..Len(match) :
           /\ SubSeq(p, 1, i * BlockSize) \in DOMAIN cache.block
           /\ match[i] = cache.block[SubSeq(p, 1, i * BlockSize)]
  BY MatchOfPrompt
<1>2. Len(match) * BlockSize <= n /\ Len(p) \in Nat
  BY DEF AllocateOK
<1>3. PoolInv(new, Ids, EntryPins(cache))
  <2>1. \A b \in Range(match) : pool.ref[b] > 0
    <3> SUFFICES ASSUME NEW i \in DOMAIN match PROVE pool.ref[match[i]] > 0
      BY DEF Range
    <3>1. PICK k \in DOMAIN cache.block : match[i] = cache.block[k]
      BY <1>1
    <3>2. cache.block[k] \notin pool.free /\ cache.block[k] \in Blocks
      BY EntryHoldsBlock DEF IndexInv
    <3>3. pool.ref[cache.block[k]] \in Nat /\ pool.ref[cache.block[k]] # 0
      BY <3>2 DEF PoolInv, PoolType, FreeExact
    <3> QED
      BY <3>1, <3>3
  <2> QED
    BY <1>1, <2>1, AllocateKeepsInv
<1>4. Len(str) = n /\ Len(str) <= Len(p) /\ \A j \in 1..Len(str) : str[j] = p[j]
  BY <1>2 DEF Extends
<1>5. Adoptable(match, cache, str)
  <2> SUFFICES ASSUME NEW i \in 1..Len(match)
               PROVE  Prefix(str, i) = SubSeq(p, 1, i * BlockSize)
    BY <1>1 DEF Adoptable
  <2>1. i \in Nat /\ i <= Len(match) /\ i * BlockSize \in Nat
    BY <1>1, WholeBlocks
  <2>2. i * BlockSize <= n
    <3>1. i * BlockSize <= Len(match) * BlockSize
      BY <1>1, <2>1, WholeBlocks
    <3> DEFINE m == i * BlockSize
               e == Len(match) * BlockSize
    <3>2. m \in Nat /\ e \in Nat /\ m <= e /\ e <= n
      BY <1>1, <1>2, <2>1, <3>1
    <3> HIDE DEF m, e
    <3>3. m <= n
      BY <3>2
    <3> QED
      BY <3>3 DEF m
  <2>3. Prefix(str, i) = Prefix(p, i)
    <3>1. i \in Nat /\ i * BlockSize <= Len(str)
      BY <1>4, <2>1, <2>2
    <3> QED
      BY <1>4, <3>1, FullBlockIsFinal
  <2>4. i * BlockSize <= Len(p)
    <3> DEFINE m == i * BlockSize
    <3>1. m \in Nat /\ m <= n
      BY <2>1, <2>2
    <3> HIDE DEF m
    <3>2. m <= Len(p)
      BY <1>2, <3>1
    <3> QED
      BY <3>2 DEF m
  <2>5. Prefix(p, i) = SubSeq(p, 1, i * BlockSize)
    <3>1. p \in Seq(Nat) /\ Len(p) <= Len(p) /\ \A j \in 1..Len(p) : p[j] = p[j]
      BY <1>2
    <3> QED
      BY <2>1, <2>4, <3>1, FullBlockIsFinal
  <2> QED
    BY <2>3, <2>5
<1>6. ContentInv(new, cache,
                 Compute(written, new.table[s], Len(match) * BlockSize, str), nstream)
  BY <1>1, <1>5, AllocateKeepsContent
<1> QED
  BY <1>3, <1>6

\* A prompt that is computed is published, and the capacity enforced.
LEMMA InsertKeepsAll ==
  ASSUME NEW Ids, NEW pool, NEW cache, NEW written, NEW stream,
         PoolInv(pool, Ids, EntryPins(cache)), IndexInv(cache),
         ContentInv(pool, cache, written, stream),
         NEW s \in DOMAIN pool.table, NEW T, stream[s] \in Seq(T),
         Len(stream[s]) = pool.len[s],
         NEW prompt \in Seq(Nat), StartsWith(stream[s], prompt),
         NEW new, new = Insert([kv |-> pool, cache |-> cache], prompt, pool.table[s])
  PROVE  /\ PoolInv(new.kv, Ids, EntryPins(new.cache)) /\ IndexInv(new.cache)
         /\ new.kv.table = pool.table /\ new.kv.len = pool.len
         /\ ContentInv(new.kv, new.cache, written, stream)
<1> DEFINE st == [kv |-> pool, cache |-> cache]
<1>1. /\ PoolType(pool, Ids) /\ FreeExact(pool)
      /\ pool.table[s] \in Seq(Blocks) /\ pool.ref \in [Blocks -> Nat]
  BY DEF PoolInv, PoolType
<1>2. \A i \in DOMAIN pool.table[s] : pool.ref[pool.table[s][i]] > 0
  <2> SUFFICES ASSUME NEW i \in DOMAIN pool.table[s] PROVE pool.ref[pool.table[s][i]] > 0
    OBVIOUS
  <2>1. pool.table[s][i] \in Blocks /\ pool.table[s][i] \in Range(pool.table[s])
    BY <1>1 DEF Range
  <2>2. pool.table[s][i] \notin pool.free
    BY <2>1, HeldBlockNotFree
  <2> QED
    BY <1>1, <2>1, <2>2 DEF FreeExact
<1>3. /\ PoolInv(new.kv, Ids, EntryPins(new.cache)) /\ IndexInv(new.cache)
      /\ new.kv.table = pool.table /\ new.kv.len = pool.len
      /\ Publishes(cache, new.cache, prompt, pool.table[s])
  <2> DEFINE tb  == pool.table[s]
             res == Insert(st, prompt, tb)
  <2>1. /\ PoolInv(st.kv, Ids, EntryPins(st.cache)) /\ IndexInv(st.cache)
        /\ st.kv = pool /\ st.cache = cache /\ tb \in Seq(Blocks)
        /\ \A i \in DOMAIN tb : st.kv.ref[tb[i]] > 0
    BY <1>1, <1>2
  <2> HIDE DEF st, tb
  <2>2. /\ PoolInv(res.kv, Ids, EntryPins(res.cache)) /\ IndexInv(res.cache)
        /\ res.kv.table = st.kv.table /\ res.kv.len = st.kv.len
        /\ Publishes(st.cache, res.cache, prompt, tb)
    BY <2>1, InsertKeepsInv
  <2>3. new = res
    BY DEF st, tb
  <2> HIDE DEF res
  <2> QED
    BY <2>1, <2>2, <2>3 DEF tb
<1>4. ContentInv(new.kv, new.cache, written, stream)
  <2> DEFINE nk == new.kv
             nc == new.cache
  <2>1. nk.table = pool.table /\ nk.len = pool.len
        /\ Publishes(cache, nc, prompt, pool.table[s])
    BY <1>3
  <2> HIDE DEF nk, nc
  <2>2. Len(prompt) <= pool.len[s] /\ \A i \in 1..Len(prompt) : prompt[i] = stream[s][i]
    BY DEF StartsWith
  <2>3. ContentInv(nk, nc, written, stream)
    BY <1>1, <2>1, <2>2, PublishKeepsContent
  <2> QED
    BY <2>3 DEF nk, nc
<1> QED
  BY <1>3, <1>4

\* A sequence is freed, or an id that has no table is.
LEMMA FreeKeepsAll ==
  ASSUME NEW Ids, NEW pool, NEW cache, NEW written, NEW stream,
         PoolInv(pool, Ids, EntryPins(cache)), IndexInv(cache),
         ContentInv(pool, cache, written, stream),
         NEW s, NEW new, new = FreeSequence(pool, s),
         NEW nstream, OthersKeep(stream, nstream, s, pool)
  PROVE  /\ PoolInv(new, Ids, EntryPins(cache))
         /\ DOMAIN new.table = DOMAIN pool.table \ {s}
         /\ \A x \in DOMAIN new.table : /\ new.table[x] = pool.table[x]
                                        /\ new.len[x] = pool.len[x]
         /\ ContentInv(new, cache, Keep(written, new), nstream)
<1>1. PoolInv(new, Ids, EntryPins(cache))
  BY FreeKeepsInv
<1>2. /\ DOMAIN new.table = DOMAIN pool.table \ {s}
      /\ \A x \in DOMAIN new.table : /\ new.table[x] = pool.table[x]
                                     /\ new.len[x] = pool.len[x]
  <2>1. PoolType(pool, Ids)
    BY DEF PoolInv
  <2> QED
    BY <2>1, FreeLeavesOthers
<1>3. \A x \in DOMAIN new.table : nstream[x] = stream[x]
  BY <1>2 DEF OthersKeep
<1>4. ContentInv(new, cache, Keep(written, new), nstream)
  BY <1>1, <1>2, <1>3, ShrinkKeepsContent
<1> QED
  BY <1>1, <1>2, <1>4
=============================================================================
