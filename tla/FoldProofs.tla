---------------------------- MODULE FoldProofs ----------------------------
(***************************************************************************)
(* Sums over finite sets and sequences.  SumFunctionOnSet is a recursive   *)
(* function that takes the elements in the order CHOOSE gives; the lemmas  *)
(* say that the order does not matter: a sum is what any element adds to   *)
(* the sum of the rest.  Induction is over the subsets of a finite set,    *)
(* which strict inclusion orders well-foundedly.                           *)
(***************************************************************************)
EXTENDS Integers, Sequences, FiniteSetsExt, FiniteSetTheorems, TLAPS

\* A set of sets that contains {} and is closed under adding one element of S to
\* a member contains every finite set of elements of S.
LEMMA SetInduction ==
  ASSUME NEW S, IsFiniteSet(S), NEW F,
         {} \in F,
         \A T \in SUBSET S : \A x \in S \ T : T \in F => T \cup {x} \in F
  PROVE  SUBSET S \subseteq F
<1> DEFINE Bad == {T \in SUBSET S : T \notin F}
           R == StrictSubsetOrdering(S)
<1>1. SUFFICES ASSUME Bad # {} PROVE FALSE
  OBVIOUS
<1>2. IsWellFoundedOn(R, SUBSET S)
  BY FS_StrictSubsetOrderingWellFounded, FS_FiniteSubsetsOfFinite
<1>3. Bad \subseteq SUBSET S
  OBVIOUS
<1>4. \E T \in Bad : \A U \in Bad : ~(<<U, T>> \in R)
  <2> HIDE DEF Bad, R
  <2> QED
    BY <1>1, <1>2, <1>3, WFMin
<1>5. PICK T \in Bad : \A U \in Bad : ~(<<U, T>> \in R)
  BY <1>4
<1>6. PICK x \in T : TRUE
  OBVIOUS
<1>7. <<T \ {x}, T>> \in R
  <2>1. T \ {x} \in SUBSET S /\ T \in SUBSET S /\ T \ {x} \subseteq T /\ T \ {x} # T
    BY <1>6
  <2> QED
    BY <2>1 DEF StrictSubsetOrdering
<1>8. T \ {x} \in F
  BY <1>5, <1>7
<1> QED
  BY <1>6, <1>8

\* A set of natural numbers that contains 0 and is closed under successor is Nat.
LEMMA NatSetInduction ==
  ASSUME NEW F, 0 \in F, \A n \in Nat : n \in F => n + 1 \in F
  PROVE  Nat \subseteq F
<1> SUFFICES ASSUME NEW n \in Nat PROVE n \in F
  OBVIOUS
<1> DEFINE S == 1..n
           G == {T \in SUBSET S : Cardinality(T) \in F}
<1>1. IsFiniteSet(S) /\ Cardinality(S) = n
  BY FS_Interval
<1>2. {} \in G
  BY FS_EmptySet
<1>3. ASSUME NEW T \in SUBSET S, NEW x \in S \ T, T \in G
      PROVE  T \cup {x} \in G
  <2>1. IsFiniteSet(T) /\ Cardinality(T) \in Nat
    BY <1>1, FS_Subset, FS_CardinalityType
  <2>2. Cardinality(T \cup {x}) = Cardinality(T) + 1
    BY <2>1, FS_AddElement
  <2> QED
    BY <1>3, <2>1, <2>2
<1>4. SUBSET S \subseteq G
  <2> HIDE DEF G, S
  <2> QED
    BY <1>1, <1>2, <1>3, SetInduction
<1> QED
  BY <1>1, <1>4

Recur(S, w, it) ==
  it = [s \in S |-> IF s = {} THEN 0 ELSE w[CHOOSE x \in s : TRUE] + it[s \ {CHOOSE x \in s : TRUE}]]

\* There is a function that satisfies the recursion of SumFunctionOnSet.
LEMMA SumExists ==
  ASSUME NEW S, IsFiniteSet(S), NEW w
  PROVE  \E it : Recur(SUBSET S, w, it)
<1> DEFINE upto(n) == {s \in SUBSET S : Cardinality(s) <= n}
           F == {n \in Nat : \E it : Recur(upto(n), w, it)}
<1>1. \A s \in SUBSET S : Cardinality(s) \in Nat /\ (Cardinality(s) = 0 <=> s = {}) /\ IsFiniteSet(s)
  BY FS_Subset, FS_CardinalityType, FS_EmptySet
<1>2. 0 \in F
  <2> DEFINE z == [s \in upto(0) |-> 0]
  <2>1. Recur(upto(0), w, z)
    BY <1>1 DEF Recur
  <2> QED BY <2>1
<1>3. ASSUME NEW n \in Nat, n \in F PROVE n + 1 \in F
  <2>1. PICK it : Recur(upto(n), w, it)
    BY <1>3
  <2> DEFINE step(f, s) == IF s = {} THEN 0 ELSE w[CHOOSE x \in s : TRUE] + f[s \ {CHOOSE x \in s : TRUE}]
             up == [s \in upto(n + 1) |-> step(it, s)]
  <2>2. \A s \in upto(n) : s \in upto(n + 1)
      BY <1>1
  <2>3. \A s \in upto(n + 1) : s # {} => s \ {CHOOSE x \in s : TRUE} \in upto(n)
    BY <1>1, FS_RemoveElement
  <2>4. \A s \in upto(n) : up[s] = it[s]
    <3> SUFFICES ASSUME NEW s \in upto(n) PROVE up[s] = it[s]
      OBVIOUS
    <3>1. up[s] = step(it, s)
      BY <2>2
    <3>2. it = [t \in upto(n) |-> step(it, t)]
      BY <2>1 DEF Recur
    <3> HIDE DEF up, step, upto
    <3>3. it[s] = step(it, s)
      BY <3>2
    <3> QED BY <3>1, <3>3
  <2>5. \A s \in upto(n + 1) : step(it, s) = step(up, s)
    <3> SUFFICES ASSUME NEW s \in upto(n + 1) PROVE step(it, s) = step(up, s)
      OBVIOUS
    <3>1. CASE s = {}
      BY <3>1
    <3>2. CASE s # {}
      <4>1. s \ {CHOOSE x \in s : TRUE} \in upto(n)
        BY <2>3, <3>2
      <4>2. up[s \ {CHOOSE x \in s : TRUE}] = it[s \ {CHOOSE x \in s : TRUE}]
        <5> HIDE DEF up
        <5> QED BY <2>4, <4>1
      <4> HIDE DEF up, upto
      <4> QED BY <4>2
    <3> QED BY <3>1, <3>2
  <2>6. up = [s \in upto(n + 1) |-> step(up, s)]
    <3> HIDE DEF upto, step
    <3> QED BY <2>5
  <2>7. Recur(upto(n + 1), w, up)
    BY <2>6 DEF Recur
  <2>8. \E f : Recur(upto(n + 1), w, f)
    <3> HIDE DEF up, upto
    <3> QED BY <2>7
  <2> QED BY <2>8
<1>4. Cardinality(S) \in F
  <2> HIDE DEF F, upto
  <2> QED
  BY <1>1, <1>2, <1>3, NatSetInduction
<1>5. upto(Cardinality(S)) = SUBSET S
  BY FS_Subset, <1>1
<1> QED
  BY <1>4, <1>5

\* SumFunctionOnSet is one of them.
LEMMA SumRecur ==
  ASSUME NEW S, IsFiniteSet(S), NEW w
  PROVE  \E it : Recur(SUBSET S, w, it) /\ SumFunctionOnSet(w, S) = it[S]
<1> DEFINE P(iter) == iter = [s \in SUBSET S |->
                    IF s = {} THEN 0 ELSE w[CHOOSE x \in s : TRUE] + iter[s \ {CHOOSE x \in s : TRUE}]]
           it == CHOOSE iter : P(iter)
<1>1. SumFunctionOnSet(w, S) = it[S]
  BY DEF SumFunctionOnSet, FoldFunctionOnSet, MapThenFoldSet
<1>2. \E iter : P(iter)
  <2>1. PICK iter : Recur(SUBSET S, w, iter)
    BY SumExists
  <2>2. P(iter)
    BY <2>1 DEF Recur
  <2> HIDE DEF P
  <2> QED BY <2>2
<1>3. P(it)
  <2> HIDE DEF P
  <2> QED BY <1>2
<1>4. Recur(SUBSET S, w, it)
  BY <1>3 DEF Recur
<1> QED
  BY <1>1, <1>4

\* A function that gives the sum of w over each subset of S, whatever element is taken out first.
Sums(S, w, it) ==
  /\ it[{}] = 0
  /\ \A s \in SUBSET S : it[s] \in Int
  /\ \A s \in SUBSET S : \A x \in s : it[s] = w[x] + it[s \ {x}]

\* What satisfies the recursion is a sum: whatever element is taken out first.
LEMMA RecurSums ==
  ASSUME NEW S, IsFiniteSet(S), NEW w, \A x \in S : w[x] \in Int, NEW it, Recur(SUBSET S, w, it)
  PROVE  Sums(S, w, it)
<1> DEFINE step(s) == IF s = {} THEN 0 ELSE w[CHOOSE x \in s : TRUE] + it[s \ {CHOOSE x \in s : TRUE}]
           good(s) == it[s] \in Int /\ \A x \in s : it[s] = w[x] + it[s \ {x}]
           F == {n \in Nat : \A s \in SUBSET S : Cardinality(s) <= n => good(s)}
<1>1. \A s \in SUBSET S : Cardinality(s) \in Nat /\ (Cardinality(s) = 0 <=> s = {}) /\ IsFiniteSet(s)
  BY FS_Subset, FS_CardinalityType, FS_EmptySet
<1>2. \A s \in SUBSET S : it[s] = step(s)
  <2>1. it = [s \in SUBSET S |-> step(s)]
    BY DEF Recur
  <2> HIDE DEF step
  <2> QED BY <2>1
<1> /\ it[{}] = 0
    /\ \A s \in SUBSET S : s # {} => it[s] = w[CHOOSE x \in s : TRUE] + it[s \ {CHOOSE x \in s : TRUE}]
  BY <1>2
<1> HIDE DEF step
<1>3. 0 \in F
  <2> SUFFICES ASSUME NEW s \in SUBSET S, Cardinality(s) <= 0 PROVE good(s)
    OBVIOUS
  <2>1. s = {}
    BY <1>1
  <2> QED BY <2>1
<1>4. ASSUME NEW n \in Nat, n \in F PROVE n + 1 \in F
  <2> SUFFICES ASSUME NEW s \in SUBSET S, Cardinality(s) <= n + 1 PROVE good(s)
    <3> HIDE DEF good
    <3> QED OBVIOUS
  <2>1. CASE s = {}
    BY <2>1
  <2>2. CASE s # {}
    <3> DEFINE c == CHOOSE x \in s : TRUE
    <3>1. c \in s
      BY <2>2
    <3>2. \A x \in s : good(s \ {x}) /\ w[x] \in Int
      <4> SUFFICES ASSUME NEW x \in s PROVE good(s \ {x}) /\ w[x] \in Int
        OBVIOUS
      <4>1. Cardinality(s \ {x}) <= n
        BY <1>1, FS_RemoveElement
      <4> HIDE DEF good
      <4> QED BY <1>4, <4>1
    <3>3. it[s] = w[c] + it[s \ {c}]
      BY <2>2
    <3> HIDE DEF c
    <3>4. ASSUME NEW x \in s, x # c PROVE it[s] = w[x] + it[s \ {x}]
      <4>1. it[s \ {c}] = w[x] + it[(s \ {c}) \ {x}]
        BY <3>1, <3>2, <3>4
      <4>2. it[s \ {x}] = w[c] + it[(s \ {x}) \ {c}]
        BY <3>1, <3>2, <3>4
      <4>3. (s \ {c}) \ {x} = (s \ {x}) \ {c}
        OBVIOUS
      <4>4. it[(s \ {c}) \ {x}] \in Int
        <5>1. Cardinality(s \ {c}) <= n /\ s \ {c} \in SUBSET S
          BY <1>1, <3>1, FS_RemoveElement
        <5>2. Cardinality((s \ {c}) \ {x}) <= n /\ (s \ {c}) \ {x} \in SUBSET S
          <6>1. IsFiniteSet(s \ {c}) /\ Cardinality(s \ {c}) \in Nat
            BY <1>1, <5>1
          <6>2. Cardinality((s \ {c}) \ {x}) <= Cardinality(s \ {c})
            <7> DEFINE u == s \ {c}
            <7>1. u \ {x} \in SUBSET u
              OBVIOUS
            <7> HIDE DEF u
            <7> QED BY <6>1, <7>1, FS_Subset
          <6>3. (s \ {c}) \ {x} \in SUBSET S
            BY <5>1
          <6> QED BY <1>1, <5>1, <6>1, <6>2, <6>3
        <5>3. good((s \ {c}) \ {x})
          <6> HIDE DEF good
          <6> QED BY <1>4, <5>2
        <5> QED BY <5>3
      <4>5. w[x] \in Int /\ w[c] \in Int
        BY <3>1, <3>2
      <4>6. \A p, q, z \in Int : p + (q + z) = q + (p + z)
        OBVIOUS
      <4>7. w[c] + (w[x] + it[(s \ {c}) \ {x}]) = w[x] + (w[c] + it[(s \ {c}) \ {x}])
        BY <4>4, <4>5, <4>6
      <4> HIDE DEF F, good
      <4> QED BY <3>3, <4>1, <4>2, <4>3, <4>7, Zenon
    <3>5. it[s] \in Int
      <4>1. w[c] \in Int /\ it[s \ {c}] \in Int
        BY <3>1, <3>2
      <4> QED BY <3>3, <4>1
    <3> QED BY <3>3, <3>4, <3>5
  <2> QED BY <2>1, <2>2
<1>5. Nat \subseteq F
  <2> HIDE DEF F
  <2> QED BY <1>3, <1>4, NatSetInduction
<1>6. \A s \in SUBSET S : good(s)
  <2> SUFFICES ASSUME NEW s \in SUBSET S PROVE good(s)
    OBVIOUS
  <2>1. Cardinality(s) \in F /\ Cardinality(s) <= Cardinality(s)
    BY <1>1, <1>5
  <2> HIDE DEF good
  <2> QED BY <2>1
<1> QED BY <1>6 DEF Sums

\* SumFunctionOnSet(w, S) is the value at S of a function that sums w.
LEMMA SumIsSum ==
  ASSUME NEW S, IsFiniteSet(S), NEW w, \A x \in S : w[x] \in Int
  PROVE  \E it : Sums(S, w, it) /\ SumFunctionOnSet(w, S) = it[S]
<1>1. PICK it : Recur(SUBSET S, w, it) /\ SumFunctionOnSet(w, S) = it[S]
  BY SumRecur
<1>2. Sums(S, w, it)
  BY <1>1, RecurSums
<1> QED BY <1>1, <1>2

\* Sums of the same values over the same set agree.
LEMMA SumsAgree ==
  ASSUME NEW S, NEW T, IsFiniteSet(T), T \subseteq S, NEW w, NEW v, \A x \in T : v[x] = w[x],
         NEW it, Sums(S, w, it), NEW jt, Sums(T, v, jt)
  PROVE  jt[T] = it[T]
<1> DEFINE F == {s \in SUBSET T : jt[s] = it[s]}
<1>1. {} \in F
  BY DEF Sums
<1>2. ASSUME NEW s \in SUBSET T, NEW x \in T \ s, s \in F PROVE s \cup {x} \in F
  <2>1. (s \cup {x}) \ {x} = s
    BY <1>2
  <2>2. jt[s \cup {x}] = v[x] + jt[s]
    BY <1>2, <2>1 DEF Sums
  <2>3. it[s \cup {x}] = w[x] + it[s]
    BY <1>2, <2>1 DEF Sums
  <2> QED BY <1>2, <2>2, <2>3
<1>3. SUBSET T \subseteq F
  <2> HIDE DEF F
  <2> QED BY <1>1, <1>2, SetInduction
<1> QED BY <1>3

\* The sum over the empty set is 0.
LEMMA SumEmpty == \A w : SumFunctionOnSet(w, {}) = 0
<1> SUFFICES ASSUME NEW w PROVE SumFunctionOnSet(w, {}) = 0
  OBVIOUS
<1>1. PICK it : Sums({}, w, it) /\ SumFunctionOnSet(w, {}) = it[{}]
  BY FS_EmptySet, SumIsSum
<1> QED BY <1>1 DEF Sums

\* An element can be taken out of a sum of integers.
LEMMA SumRemove ==
  ASSUME NEW S, IsFiniteSet(S), NEW w, \A x \in S : w[x] \in Int
  PROVE  /\ SumFunctionOnSet(w, S) \in Int
         /\ \A x \in S : SumFunctionOnSet(w, S) = w[x] + SumFunctionOnSet(w, S \ {x})
<1>1. PICK it : Sums(S, w, it) /\ SumFunctionOnSet(w, S) = it[S]
  BY SumIsSum
<1>2. ASSUME NEW T \in SUBSET S PROVE SumFunctionOnSet(w, T) = it[T]
  <2>1. IsFiniteSet(T) /\ (\A x \in T : w[x] \in Int)
    BY FS_Subset
  <2>2. PICK jt : Sums(T, w, jt) /\ SumFunctionOnSet(w, T) = jt[T]
    BY <2>1, SumIsSum
  <2>3. jt[T] = it[T]
    BY <1>1, <2>1, <2>2, SumsAgree
  <2> QED BY <2>2, <2>3
<1> QED BY <1>1, <1>2 DEF Sums

\* Sums of the same values are the same.
LEMMA SumCongruent ==
  ASSUME NEW S, IsFiniteSet(S), NEW w, NEW v, \A x \in S : w[x] \in Int /\ v[x] = w[x]
  PROVE  SumFunctionOnSet(v, S) = SumFunctionOnSet(w, S)
<1>1. PICK it : Sums(S, w, it) /\ SumFunctionOnSet(w, S) = it[S]
  BY SumIsSum
<1>2. PICK jt : Sums(S, v, jt) /\ SumFunctionOnSet(v, S) = jt[S]
  <2>1. \A x \in S : v[x] \in Int
    OBVIOUS
  <2> QED BY <2>1, SumIsSum
<1> QED BY <1>1, <1>2, SumsAgree

\* A new element adds its value to the sum.
LEMMA SumAdd ==
  ASSUME NEW S, IsFiniteSet(S), NEW w, NEW x, x \notin S, w[x] \in Int, \A y \in S : w[y] \in Int
  PROVE  /\ SumFunctionOnSet(w, S) \in Int
         /\ SumFunctionOnSet(w, S \cup {x}) = w[x] + SumFunctionOnSet(w, S)
<1> DEFINE T == S \cup {x}
<1>1. IsFiniteSet(T) /\ (\A y \in T : w[y] \in Int) /\ x \in T /\ T \ {x} = S
  BY FS_AddElement
<1> HIDE DEF T
<1>2. SumFunctionOnSet(w, T) = w[x] + SumFunctionOnSet(w, S)
  BY <1>1, SumRemove
<1>3. SumFunctionOnSet(w, S) \in Int
  BY SumRemove
<1> QED BY <1>2, <1>3 DEF T

\* A sum of natural numbers is one, and no term is larger.
LEMMA SumNat ==
  ASSUME NEW S, IsFiniteSet(S), NEW w, \A x \in S : w[x] \in Nat
  PROVE  /\ SumFunctionOnSet(w, S) \in Nat
         /\ \A x \in S : w[x] <= SumFunctionOnSet(w, S)
<1>1. PICK it : Sums(S, w, it) /\ SumFunctionOnSet(w, S) = it[S]
  <2>1. \A x \in S : w[x] \in Int
    OBVIOUS
  <2> QED BY <2>1, SumIsSum
<1> DEFINE F == {s \in SUBSET S : it[s] \in Nat}
<1>2. {} \in F
  BY <1>1 DEF Sums
<1>3. ASSUME NEW s \in SUBSET S, NEW x \in S \ s, s \in F PROVE s \cup {x} \in F
  <2>1. (s \cup {x}) \ {x} = s
    BY <1>3
  <2>2. it[s \cup {x}] = w[x] + it[s]
    BY <1>1, <1>3, <2>1 DEF Sums
  <2> QED BY <1>3, <2>2
<1>4. SUBSET S \subseteq F
  <2> HIDE DEF F
  <2> QED BY <1>2, <1>3, SetInduction
<1>5. ASSUME NEW x \in S PROVE w[x] <= it[S]
  <2>1. it[S] = w[x] + it[S \ {x}] /\ it[S \ {x}] \in Nat
    BY <1>1, <1>4 DEF Sums
  <2> QED BY <2>1
<1> QED BY <1>1, <1>4, <1>5

\* The sum of a sequence: of no elements, and after one is appended.
LEMMA SumSeqEmpty == SumFunction(<<>>) = 0
  BY SumEmpty DEF SumFunction

\* A sequence one longer has the sum of its elements and the new one.
LEMMA SumSeqAppend ==
  ASSUME NEW s \in Seq(Int), NEW e \in Int
  PROVE  SumFunction(s) \in Int /\ SumFunction(Append(s, e)) = SumFunction(s) + e
<1> DEFINE t == Append(s, e)
           D == 1..Len(s)
<1>1. /\ IsFiniteSet(D) /\ Len(s) + 1 \notin D /\ DOMAIN s = D /\ DOMAIN t = D \cup {Len(s) + 1}
      /\ t[Len(s) + 1] = e /\ (\A i \in D : t[i] \in Int /\ s[i] \in Int /\ t[i] = s[i])
  <2>1. Len(s) \in Nat /\ IsFiniteSet(D)
    BY FS_Interval
  <2>2. Len(s) + 1 \notin D /\ DOMAIN s = D /\ DOMAIN t = D \cup {Len(s) + 1}
    BY <2>1
  <2>3. t[Len(s) + 1] = e /\ (\A i \in D : t[i] \in Int /\ s[i] \in Int /\ t[i] = s[i])
    BY <2>1
  <2> QED BY <2>1, <2>2, <2>3
<1> HIDE DEF t, D
<1>2. SumFunctionOnSet(t, D \cup {Len(s) + 1}) = e + SumFunctionOnSet(t, D)
  BY <1>1, SumAdd
<1>3. SumFunctionOnSet(t, D) = SumFunctionOnSet(s, D)
  BY <1>1, SumCongruent
<1>4. SumFunctionOnSet(s, D) \in Int
  BY <1>1, SumRemove
<1>5. SumFunction(t) = e + SumFunctionOnSet(s, D) /\ SumFunction(s) = SumFunctionOnSet(s, D)
  BY <1>1, <1>2, <1>3 DEF SumFunction
<1> QED BY <1>4, <1>5 DEF t

\* A finite set of integers that is not empty has a largest element.
LEMMA FiniteHasMax ==
  ASSUME NEW S, IsFiniteSet(S), S \subseteq Int, NEW e \in S
  PROVE  \E m \in S : \A y \in S : m >= y
<1> DEFINE F == {T \in SUBSET S : T = {} \/ \E m \in T : \A y \in T : m >= y}
<1>1. {} \in F
  OBVIOUS
<1>2. ASSUME NEW T \in SUBSET S, NEW x \in S \ T, T \in F
      PROVE  T \cup {x} \in F
  <2>1. CASE T = {}
    BY <1>2, <2>1
  <2>2. CASE \E m \in T : \A y \in T : m >= y
    <3>1. PICK m \in T : \A y \in T : m >= y
      BY <2>2
    <3>2. (IF m >= x THEN m ELSE x) \in T \cup {x}
      OBVIOUS
    <3>3. \A y \in T \cup {x} : (IF m >= x THEN m ELSE x) >= y
      BY <1>2, <3>1
    <3> QED BY <3>2, <3>3
  <2> QED BY <1>2, <2>1, <2>2
<1> HIDE DEF F
<1>3. SUBSET S \subseteq F
  BY <1>1, <1>2, SetInduction
<1> QED BY <1>3 DEF F
=============================================================================
