---------------------------- MODULE InputsProofs ----------------------------
(***************************************************************************)
(* Theorems about Inputs: whatever the layers of a configuration say the   *)
(* last one wins, whatever is observed the series are those of the         *)
(* history, failed requests do not flatter a benchmark, and the prompt of  *)
(* an accepted chat keeps the conversation.                                *)
(***************************************************************************)
EXTENDS Inputs, FoldProofs, SequenceTheorems, TLAPS

-----------------------------------------------------------------------------
(* Configuration *)

\* What LastLayerWins says of an option that some layer names: raw is what the last
\* of these says, below the default and what the others say.
Won(value, default, raw, below) ==
  LET types == {v[1] : v \in below \cup {raw}}
  IN /\ "bool" \notin types => value[2] = raw[2]
     /\ types \cap {"bool", "none"} = {} => value[1] = default[1]
     /\ below = {Null} \/ raw = Null => value = raw
     /\ value[1] \in types

Setters(o) == {l \in 1..applied : o \in DOMAIN given[l]}

Below(o) == {Defaults[o]} \cup {given[l][o] : l \in Setters(o) \ {Max(Setters(o))}}

\* LastLayerWins, by option, whatever the outcome.
Wins(o) ==
  IF Setters(o) = {} THEN cfg[o] = Defaults[o]
  ELSE Won(cfg[o], Defaults[o], given[Max(Setters(o))][o], Below(o))

ConfigInv ==
  /\ applied \in 0..3
  /\ DOMAIN cfg = DOMAIN Defaults
  /\ outcome \in {"building", "ready"} => \A o \in DOMAIN cfg : Wins(o)

LEMMA ConfigInvWins == ConfigInv => LastLayerWins
<1> SUFFICES ASSUME ConfigInv, outcome \in {"building", "ready"}, NEW o \in DOMAIN cfg, Wins(o)
             PROVE  LET setters == {l \in 1..applied : o \in DOMAIN given[l]}
                        raw     == given[Max(setters)][o]
                        below   == {Defaults[o]} \cup {given[l][o] : l \in setters \ {Max(setters)}}
                        types   == {v[1] : v \in below \cup {raw}}
                    IN IF setters = {} THEN cfg[o] = Defaults[o]
                       ELSE /\ "bool" \notin types => cfg[o][2] = raw[2]
                            /\ types \cap {"bool", "none"} = {} => cfg[o][1] = Defaults[o][1]
                            /\ below = {Null} \/ raw = Null => cfg[o] = raw
                            /\ cfg[o][1] \in types
  BY DEF ConfigInv, LastLayerWins
<1> QED BY DEF Wins, Won, Setters, Below

\* What _coerce() keeps of a value, unless a boolean is involved or it raises.
LEMMA CoerceKeeps ==
  ASSUME NEW value, NEW target, Coerce(value, target) # Crash
  PROVE  /\ "bool" \notin {value[1], target[1]} => Coerce(value, target)[2] = value[2]
         /\ {value[1], target[1]} \cap {"bool", "none"} = {} =>
              \/ Coerce(value, target)[1] = target[1]
              \/ target[1] \notin {"int", "float", "list", "str"}
         /\ "none" \in {value[1], target[1]} => Coerce(value, target) = value
         /\ Coerce(value, target)[1] \in {value[1], target[1]}
<1> DEFINE c == Coerce(value, target)
<1>1. CASE "none" \in {value[1], target[1]}
  BY <1>1 DEF Coerce
<1>2. CASE "none" \notin {value[1], target[1]} /\ target[1] = "bool"
  BY <1>2 DEF Coerce
<1>3. CASE "none" \notin {value[1], target[1]} /\ target[1] = "int"
  BY <1>3 DEF Coerce
<1>4. CASE "none" \notin {value[1], target[1]} /\ target[1] = "float"
  BY <1>4 DEF Coerce
<1>5. CASE "none" \notin {value[1], target[1]} /\ target[1] = "list"
  BY <1>5 DEF Coerce
<1>6. CASE "none" \notin {value[1], target[1]} /\ target[1] = "str"
  BY <1>6 DEF Coerce
<1>7. CASE "none" \notin {value[1], target[1]} /\ target[1] \notin {"bool", "int", "float", "list", "str"}
  BY <1>7 DEF Coerce
<1> QED BY <1>1, <1>2, <1>3, <1>4, <1>5, <1>6, <1>7

\* A default is a value of one of the types that are coerced, or null.
LEMMA DefaultTypes ==
  \A o \in DOMAIN Defaults : Defaults[o][1] \in {"bool", "int", "float", "list", "str", "none"}
<1> DEFINE kinds == {"bool", "int", "float", "list", "str", "none"}
<1>1. DOMAIN Defaults = {"max_num_seqs", "watermark", "enable_prefix_caching", "kind", "endpoint",
                         "ttft_buckets_s", "request_rate"}
  BY DEF Defaults
<1>2. /\ Defaults.max_num_seqs[1] = "int" /\ Defaults.watermark[1] = "float"
      /\ Defaults.enable_prefix_caching[1] = "bool" /\ Defaults.kind[1] = "str"
      /\ Defaults.endpoint[1] = "none" /\ Defaults.ttft_buckets_s[1] = "list"
      /\ Defaults.request_rate[1] = "none"
  BY DEF Defaults, Null
<1> QED BY <1>1, <1>2

\* One more layer wins, over a default or over the layers below.
LEMMA CoerceWins ==
  ASSUME NEW value, NEW default, NEW next, NEW below,
         default[1] \in {"bool", "int", "float", "list", "str", "none"},
         \/ below = {default} /\ value = default
         \/ \E raw, under : /\ Won(value, default, raw, under)
                           /\ default \in under /\ below = under \cup {raw},
         Coerce(next, value) # Crash
  PROVE  Won(Coerce(next, value), default, next, below)
<1> DEFINE c == Coerce(next, value)
           types == {v[1] : v \in below \cup {next}}
<1>1. value[1] \in {v[1] : v \in below} /\ (below = {Null} => value = Null)
  <2>1. CASE below = {default} /\ value = default
    BY <2>1
  <2>2. CASE ~(below = {default} /\ value = default)
    <3>1. PICK raw, under : Won(value, default, raw, under) /\ default \in under /\ below = under \cup {raw}
      BY <2>2
    <3>2. value[1] \in {v[1] : v \in under \cup {raw}}
      BY <3>1 DEF Won
    <3>3. below = {Null} => raw = Null
      BY <3>1
    <3>4. raw = Null => value = raw
      BY <3>1 DEF Won
    <3> QED BY <3>1, <3>2, <3>3, <3>4
  <2> QED BY <2>1, <2>2
<1>2. types \cap {"bool", "none"} = {} => value[1] = default[1]
  <2>1. CASE below = {default} /\ value = default
    BY <2>1
  <2>2. CASE ~(below = {default} /\ value = default)
    <3>1. PICK raw, under : Won(value, default, raw, under) /\ default \in under /\ below = under \cup {raw}
      BY <2>2
    <3>2. {v[1] : v \in under \cup {raw}} \subseteq types
      BY <3>1
    <3> QED BY <3>1, <3>2 DEF Won
  <2> QED BY <2>1, <2>2
<1>3. next[1] \in types /\ value[1] \in types
  BY <1>1
<1>4. /\ "bool" \notin {next[1], value[1]} => c[2] = next[2]
      /\ {next[1], value[1]} \cap {"bool", "none"} = {} =>
           c[1] = value[1] \/ value[1] \notin {"int", "float", "list", "str"}
      /\ "none" \in {next[1], value[1]} => c = next
      /\ c[1] \in {next[1], value[1]}
  BY CoerceKeeps
<1> HIDE DEF c, types
<1>5. "bool" \notin types => c[2] = next[2]
  BY <1>3, <1>4
<1>6. types \cap {"bool", "none"} = {} => c[1] = default[1]
  BY <1>2, <1>3, <1>4
<1>7. below = {Null} \/ next = Null => c = next
  <2>1. Null[1] = "none"
    BY DEF Null
  <2> QED BY <1>1, <1>4, <2>1
<1>8. c[1] \in types
  BY <1>3, <1>4
<1> QED BY <1>5, <1>6, <1>7, <1>8 DEF Won, c, types

\* A set of numbers with a largest one.
LEMMA MaxIs ==
  ASSUME NEW S, S \subseteq Int, NEW m \in S, \A y \in S : m >= y
  PROVE  Max(S) = m
<1> DEFINE P(x) == x \in S /\ \A y \in S : x >= y
<1>1. \A x \in S : P(x) => x = m
  <2> SUFFICES ASSUME NEW x \in S, P(x) PROVE x = m
    OBVIOUS
  <2>1. x >= m /\ m >= x /\ x \in Int /\ m \in Int
    OBVIOUS
  <2> QED BY <2>1
<1>2. Max(S) = CHOOSE x \in S : \A y \in S : x >= y
  BY DEF Max
<1> QED BY <1>1, <1>2

\* A set of numbers with a least one.
LEMMA MinIs ==
  ASSUME NEW S, S \subseteq Int, NEW m \in S, \A y \in S : m <= y
  PROVE  Min(S) = m
<1> DEFINE P(x) == x \in S /\ \A y \in S : x <= y
<1>1. \A x \in S : P(x) => x = m
  <2> SUFFICES ASSUME NEW x \in S, P(x) PROVE x = m
    OBVIOUS
  <2>1. x <= m /\ m <= x /\ x \in Int /\ m \in Int
    OBVIOUS
  <2> QED BY <2>1
<1>2. Min(S) = CHOOSE x \in S : \A y \in S : x <= y
  BY DEF Min
<1> QED BY <1>1, <1>2

\* A layer that is accepted leaves what it does not name and wins where it does.
LEMMA ApplyLayerWins ==
  ASSUME ConfigInv, ApplyLayer
  PROVE  ConfigInv'
<1> DEFINE layer  == given[applied + 1]
           values == [o \in DOMAIN layer \cap DOMAIN cfg |-> Coerce(layer[o], cfg[o])]
<1>1. outcome = "building" /\ applied \in 0..2 /\ applied' = applied + 1 /\ given' = given
  BY DEF ApplyLayer, ConfigInv
<1>2. CASE outcome' \notin {"building", "ready"}
  <2>1. cfg' = cfg
    BY <1>1, <1>2 DEF ApplyLayer
  <2> QED BY <1>1, <1>2, <2>1 DEF ConfigInv
<1>3. CASE outcome' \in {"building", "ready"}
  <2>1. /\ DOMAIN layer \subseteq DOMAIN cfg
        /\ \A o \in DOMAIN values : values[o] # Crash
        /\ cfg' = Merge(values, cfg)
    BY <1>3 DEF ApplyLayer
  <2>2. DOMAIN cfg' = DOMAIN cfg /\ DOMAIN cfg = DOMAIN Defaults
    BY <2>1 DEF Merge, ConfigInv
  <2>3. ASSUME NEW o \in DOMAIN cfg, o \notin DOMAIN layer
        PROVE  Wins(o)'
    <3>1. cfg'[o] = cfg[o]
      BY <2>1, <2>3 DEF Merge
    <3>2. Setters(o)' = Setters(o)
      BY <1>1, <2>3 DEF Setters
    <3>3. Wins(o)
      BY <1>1 DEF ConfigInv
    <3> QED BY <1>1, <3>1, <3>2, <3>3 DEF Wins, Below
  <2>4. ASSUME NEW o \in DOMAIN cfg, o \in DOMAIN layer
        PROVE  Wins(o)'
    <3>1. cfg'[o] = Coerce(layer[o], cfg[o]) /\ Coerce(layer[o], cfg[o]) # Crash
      BY <2>1, <2>4 DEF Merge
    <3>2. Setters(o)' = Setters(o) \cup {applied + 1} /\ Setters(o) \subseteq 1..applied
      BY <1>1, <2>4 DEF Setters
    <3>3. Max(Setters(o)') = applied + 1
      BY <1>1, <3>2, MaxIs
    <3>4. Setters(o)' \ {Max(Setters(o)')} = Setters(o)
      BY <1>1, <3>2, <3>3
    <3>5. Below(o)' = {Defaults[o]} \cup {given[l][o] : l \in Setters(o)}
      BY <1>1, <3>4 DEF Below
    <3>6. Wins(o)
      BY <1>1 DEF ConfigInv
    <3>7. \/ Below(o)' = {Defaults[o]} /\ cfg[o] = Defaults[o]
          \/ \E raw, under : /\ Won(cfg[o], Defaults[o], raw, under)
                            /\ Defaults[o] \in under /\ Below(o)' = under \cup {raw}
      <4>1. CASE Setters(o) = {}
        BY <3>5, <3>6, <4>1 DEF Wins
      <4>2. CASE Setters(o) # {}
        <5>1. Max(Setters(o)) \in Setters(o)
          <6>1. PICK e \in Setters(o) : TRUE
            BY <4>2
          <6>2. IsFiniteSet(Setters(o)) /\ Setters(o) \subseteq Int
            <7>1. IsFiniteSet(1..applied)
              BY <1>1, FS_Interval
            <7>2. Setters(o) \subseteq Int
              BY <1>1, <3>2
            <7>3. IsFiniteSet(Setters(o))
              BY <3>2, <7>1, FS_Subset
            <7> QED BY <7>2, <7>3
          <6>3. PICK m \in Setters(o) : \A y \in Setters(o) : m >= y
            BY <6>1, <6>2, FiniteHasMax
          <6>4. Max(Setters(o)) = m
            BY <6>2, <6>3, MaxIs
          <6> QED BY <6>3, <6>4
        <5>2. Below(o)' = Below(o) \cup {given[Max(Setters(o))][o]} /\ Defaults[o] \in Below(o)
          BY <3>5, <5>1 DEF Below
        <5>3. Won(cfg[o], Defaults[o], given[Max(Setters(o))][o], Below(o))
          BY <3>6, <4>2 DEF Wins
        <5> QED BY <5>2, <5>3
      <4> QED BY <4>1, <4>2
    <3>8. Won(Coerce(layer[o], cfg[o]), Defaults[o], layer[o], Below(o)')
      BY <2>2, <3>1, <3>7, DefaultTypes, CoerceWins
    <3>9. Wins(o)' = IF Setters(o)' = {} THEN cfg'[o] = Defaults[o]
                     ELSE Won(cfg'[o], Defaults[o], given'[Max(Setters(o)')][o], Below(o)')
      BY DEF Wins, Won
    <3> QED BY <1>1, <3>1, <3>2, <3>3, <3>8, <3>9
  <2>5. \A o \in DOMAIN cfg : Wins(o)'
    BY <2>3, <2>4
  <2> QED BY <1>1, <2>2, <2>5 DEF ConfigInv
<1> QED BY <1>2, <1>3

LEMMA ConfigInvInit == Init => ConfigInv
<1> SUFFICES ASSUME Init PROVE ConfigInv
  OBVIOUS
<1>1. applied = 0 /\ cfg = Defaults
  BY DEF Init, ConfigInit
<1>2. ASSUME NEW o \in DOMAIN cfg PROVE Wins(o)
  <2>1. Setters(o) = {}
    BY <1>1 DEF Setters
  <2> QED BY <1>1, <2>1 DEF Wins
<1> QED BY <1>1, <1>2 DEF ConfigInv

LEMMA ConfigInvStep == ConfigInv /\ [Next]_vars => ConfigInv'
<1> SUFFICES ASSUME ConfigInv, [Next]_vars PROVE ConfigInv'
  OBVIOUS
<1>1. CASE ApplyLayer
  BY <1>1, ApplyLayerWins
<1>2. CASE UNCHANGED <<given, applied, cfg>> /\ outcome = "building"
  <2>1. /\ \A o \in DOMAIN cfg : Setters(o)' = Setters(o) /\ Below(o)' = Below(o)
        /\ \A o \in DOMAIN cfg : Wins(o)
    BY <1>2 DEF Setters, Below, ConfigInv
  <2>2. \A o \in DOMAIN cfg : Wins(o)'
    BY <1>2, <2>1 DEF Wins
  <2> QED BY <1>2, <2>2 DEF ConfigInv
<1>3. CASE UNCHANGED configVars
  <2>1. /\ \A o \in DOMAIN cfg : Setters(o)' = Setters(o) /\ Below(o)' = Below(o)
        /\ given' = given /\ applied' = applied /\ cfg' = cfg /\ outcome' = outcome
    BY <1>3 DEF configVars, Setters, Below
  <2>2. \A o \in DOMAIN cfg : Wins(o) => Wins(o)'
    BY <2>1 DEF Wins
  <2> QED BY <2>1, <2>2 DEF ConfigInv
<1> QED BY <1>1, <1>2, <1>3 DEF Next, vars, Validate

\* Whatever the file, the environment and the command line say, and whatever is
\* coerced on the way: an option has the text of the last layer that names it, the
\* type of its default unless a null or a boolean is involved, and its default when
\* no layer names it.
THEOREM LastLayerAlwaysWins == Spec => []LastLayerWins
<1>1. Spec => []ConfigInv
  BY ConfigInvInit, ConfigInvStep, PTL DEF Spec
<1> QED BY <1>1, ConfigInvWins, PTL

-----------------------------------------------------------------------------
(* Ranks *)

\* A finite set of integers that is not empty has a least element.
LEMMA FiniteHasMin ==
  ASSUME NEW S, IsFiniteSet(S), S \subseteq Int, NEW e \in S
  PROVE  \E m \in S : \A y \in S : m <= y
<1> DEFINE F == {T \in SUBSET S : T = {} \/ \E m \in T : \A y \in T : m <= y}
<1>1. {} \in F
  OBVIOUS
<1>2. ASSUME NEW T \in SUBSET S, NEW x \in S \ T, T \in F
      PROVE  T \cup {x} \in F
  <2>1. CASE T = {}
    BY <1>2, <2>1
  <2>2. CASE \E m \in T : \A y \in T : m <= y
    <3>1. PICK m \in T : \A y \in T : m <= y
      BY <2>2
    <3>2. (IF m <= x THEN m ELSE x) \in T \cup {x}
      OBVIOUS
    <3>3. \A y \in T \cup {x} : (IF m <= x THEN m ELSE x) <= y
      BY <1>2, <3>1
    <3> QED BY <3>2, <3>3
  <2> QED BY <1>2, <2>1, <2>2
<1> HIDE DEF F
<1>3. SUBSET S \subseteq F
  BY <1>1, <1>2, SetInduction
<1> QED BY <1>3 DEF F

\* Samples are integers at finitely many indices.
Samples(s) == IsFiniteSet(DOMAIN s) /\ \A i \in DOMAIN s : s[i] \in Int

Size(s) == Cardinality(DOMAIN s)

Less(s, v) == {i \in DOMAIN s : s[i] < v}

AtMost(s, v) == {i \in DOMAIN s : s[i] <= v}

\* A set of indices has no more than a larger one, and no more than there are.
LEMMA IndexSets ==
  ASSUME NEW s, Samples(s), NEW S \in SUBSET DOMAIN s
  PROVE  /\ IsFiniteSet(S) /\ Cardinality(S) \in Nat /\ Size(s) \in Nat
         /\ Cardinality(S) <= Size(s)
         /\ \A T \in SUBSET S : Cardinality(T) <= Cardinality(S)
<1>1. IsFiniteSet(S) /\ IsFiniteSet(DOMAIN s)
  BY FS_Subset DEF Samples
<1>2. Cardinality(S) <= Cardinality(DOMAIN s)
  BY <1>1, FS_Subset
<1>3. \A T \in SUBSET S : Cardinality(T) <= Cardinality(S)
  BY <1>1, FS_Subset
<1> QED BY <1>1, <1>2, <1>3, FS_CardinalityType DEF Size

\* The samples are finitely many values.
LEMMA RangeFinite ==
  ASSUME NEW s, Samples(s)
  PROVE  IsFiniteSet(Range(s)) /\ Range(s) \subseteq Int
<1> DEFINE f == [i \in DOMAIN s |-> s[i]]
<1>1. f \in Surjection(DOMAIN s, Range(s))
  BY DEF Surjection, Range
<1>2. IsFiniteSet(Range(s))
  <2> HIDE DEF f
  <2> QED BY <1>1, FS_Surjection DEF Samples
<1> QED BY <1>2 DEF Range, Samples

\* Some sample has rank k.
LEMMA RankExists ==
  ASSUME NEW s, Samples(s), NEW k \in Nat, k < Size(s)
  PROVE  \E v \in Range(s) : Cardinality(Less(s, v)) <= k /\ Cardinality(AtMost(s, v)) > k
<1> DEFINE V == {v \in Range(s) : Cardinality(AtMost(s, v)) > k}
<1>1. Range(s) \subseteq Int /\ IsFiniteSet(Range(s))
  BY RangeFinite
<1>2. Size(s) \in Nat /\ \A v : AtMost(s, v) \in SUBSET DOMAIN s /\ Less(s, v) \in SUBSET DOMAIN s
  BY IndexSets DEF AtMost, Less
<1>3. \E v : v \in V
  <2>1. DOMAIN s # {}
    BY <1>2, FS_EmptySet DEF Size
  <2>2. PICK e \in Range(s) : TRUE
    BY <2>1 DEF Range
  <2>3. PICK m \in Range(s) : \A y \in Range(s) : m >= y
    BY <1>1, <2>2, FiniteHasMax
  <2>4. AtMost(s, m) = DOMAIN s
    <3>1. \A i \in DOMAIN s : s[i] \in Range(s)
      BY DEF Range
    <3> QED BY <1>1, <2>3, <3>1 DEF AtMost
  <2> QED BY <2>3, <2>4 DEF Size
<1>4. PICK v \in V : \A y \in V : v <= y
  <2>1. V \subseteq Int /\ IsFiniteSet(V)
    BY <1>1, FS_Subset
  <2> HIDE DEF V
  <2> QED BY <1>3, <2>1, FiniteHasMin
<1>5. Cardinality(Less(s, v)) <= k
  <2> SUFFICES ASSUME Cardinality(Less(s, v)) > k PROVE FALSE
    BY <1>2, IndexSets
  <2>1. Less(s, v) # {}
    BY FS_EmptySet
  <2> DEFINE W == {s[i] : i \in Less(s, v)}
  <2>2. W \subseteq Range(s) /\ \E w : w \in W
    BY <2>1 DEF Less, Range
  <2>3. IsFiniteSet(W) /\ W \subseteq Int
    BY <1>1, <2>2, FS_Subset
  <2>4. PICK u \in W : \A y \in W : u >= y
    <3> HIDE DEF W
    <3> QED BY <2>2, <2>3, FiniteHasMax
  <2>5. u < v /\ u \in Int
    BY <1>1, <2>2, <2>4 DEF Less
  <2>6. Less(s, v) \in SUBSET AtMost(s, u)
    BY <2>4 DEF Less, AtMost
  <2>7. Cardinality(AtMost(s, u)) > k
    BY <1>2, <2>6, IndexSets
  <2>8. u \in V
    BY <2>2, <2>4, <2>7
  <2> QED BY <1>1, <1>4, <2>5, <2>8
<1> QED BY <1>4, <1>5

\* What sorted() puts at k.
LEMMA OrderedRank ==
  ASSUME NEW s, Samples(s), NEW k \in Nat, k < Size(s)
  PROVE  /\ Ordered(s)[k] \in Range(s) /\ Ordered(s)[k] \in Int
         /\ Cardinality(Less(s, Ordered(s)[k])) <= k
         /\ Cardinality(AtMost(s, Ordered(s)[k])) > k
<1> DEFINE P(v) == Cardinality(Less(s, v)) <= k /\ Cardinality(AtMost(s, v)) > k
<1>1. k \in 0..(Cardinality(DOMAIN s) - 1)
  BY IndexSets DEF Size
<1>2. Ordered(s)[k] = CHOOSE v \in Range(s) : P(v)
  BY <1>1 DEF Ordered, Less, AtMost
<1>3. \E v \in Range(s) : P(v)
  BY RankExists
<1>4. Ordered(s)[k] \in Range(s) /\ P(Ordered(s)[k])
  <2> HIDE DEF P
  <2> QED BY <1>2, <1>3
<1>5. Range(s) \subseteq Int
  BY DEF Range, Samples
<1> QED BY <1>4, <1>5

\* sorted() ascends.
LEMMA OrderedAscends ==
  ASSUME NEW s, Samples(s), NEW j \in Nat, NEW k \in Nat, j <= k, k < Size(s)
  PROVE  Ordered(s)[j] <= Ordered(s)[k]
<1> DEFINE u == Ordered(s)[k]
           v == Ordered(s)[j]
<1>1. u \in Int /\ Cardinality(AtMost(s, u)) > k
  BY OrderedRank
<1>2. v \in Int /\ Cardinality(Less(s, v)) <= j
  <2>1. j < Size(s)
    BY IndexSets
  <2> QED BY <2>1, OrderedRank
<1> HIDE DEF u, v
<1> SUFFICES ASSUME u < v PROVE FALSE
  BY <1>1, <1>2 DEF u, v
<1>3. AtMost(s, u) \in SUBSET Less(s, v) /\ Less(s, v) \in SUBSET DOMAIN s
  BY <1>1, <1>2 DEF AtMost, Less, Samples
<1>4. /\ Cardinality(AtMost(s, u)) <= Cardinality(Less(s, v))
      /\ Cardinality(AtMost(s, u)) \in Nat /\ Cardinality(Less(s, v)) \in Nat
  <2>1. AtMost(s, u) \in SUBSET DOMAIN s
    BY DEF AtMost
  <2> QED BY <1>3, <2>1, IndexSets
<1> QED BY <1>1, <1>2, <1>4

-----------------------------------------------------------------------------
(* Percentiles *)

\* Between the ranks k and k + 1, where the percentile q lies.
LEMMA PositionOf ==
  ASSUME NEW n \in Nat \ {0}, NEW q \in 0..100
  PROVE  /\ (n - 1) * q \in Nat
         /\ ((n - 1) * q) \div 100 \in 0..(n - 1) /\ ((n - 1) * q) % 100 \in 0..99
         /\ (n - 1) * q = 100 * (((n - 1) * q) \div 100) + (((n - 1) * q) % 100)
         /\ ((n - 1) * q) % 100 # 0 => ((n - 1) * q) \div 100 + 1 <= n - 1
<1>1. (n - 1) * q \in Nat /\ (n - 1) * q <= 100 * (n - 1)
  OBVIOUS
<1>2. ASSUME NEW pos \in Nat, pos <= 100 * (n - 1)
      PROVE  /\ pos \div 100 \in 0..(n - 1) /\ pos % 100 \in 0..99
             /\ pos = 100 * (pos \div 100) + (pos % 100)
             /\ pos % 100 # 0 => pos \div 100 + 1 <= n - 1
  <2> DEFINE d == pos \div 100
             f == pos % 100
  <2>1. d \in Int /\ f \in 0..99 /\ pos = 100 * d + f
    OBVIOUS
  <2> HIDE DEF d, f
  <2>2. d \in 0..(n - 1) /\ (f # 0 => d + 1 <= n - 1)
    BY <1>2, <2>1
  <2> QED BY <2>1, <2>2 DEF d, f
<1> QED BY <1>1, <1>2

\* A point between a and b moves from the one to the other.
LEMMA Between ==
  ASSUME NEW a \in Int, NEW b \in Int, a <= b, NEW f \in 0..100, NEW g \in 0..100, f <= g
  PROVE  /\ a * (100 - f) + b * f \in Int
         /\ 100 * a <= a * (100 - f) + b * f /\ a * (100 - f) + b * f <= 100 * b
         /\ a * (100 - f) + b * f <= a * (100 - g) + b * g
<1> DEFINE d == b - a
<1>1. d \in Nat /\ b = a + d
  OBVIOUS
<1> HIDE DEF d
<1>2. \A h \in 0..100 : a * (100 - h) + b * h = 100 * a + d * h
  BY <1>1
<1>3. d * f \in Nat /\ d * f <= 100 * d /\ d * f <= d * g /\ d * g \in Nat
  BY <1>1
<1> QED BY <1>1, <1>2, <1>3

\* percentile() lies at its rank, or between it and the next.
LEMMA PercentileBetween ==
  ASSUME NEW s, Samples(s), Size(s) # 0, NEW q \in 0..100
  PROVE  LET pos == (Size(s) - 1) * q
             k   == pos \div 100
             p   == Percentile(s, q)
         IN /\ p \in Int /\ 100 * Ordered(s)[k] <= p
            /\ pos % 100 = 0 => p = 100 * Ordered(s)[k]
            /\ pos % 100 # 0 =>
                 /\ p = Ordered(s)[k] * (100 - (pos % 100)) + Ordered(s)[k + 1] * (pos % 100)
                 /\ p <= 100 * Ordered(s)[k + 1]
<1> DEFINE pos == (Size(s) - 1) * q
           k   == pos \div 100
           f   == pos % 100
           a   == Ordered(s)[k]
           b   == Ordered(s)[k + 1]
<1>1. Size(s) \in Nat \ {0}
  BY IndexSets
<1>2. k \in Nat /\ k < Size(s) /\ f \in 0..99 /\ (f # 0 => k + 1 < Size(s))
  <2> DEFINE n == Size(s)
  <2>1. n \in Nat \ {0}
    BY <1>1
  <2> HIDE DEF n
  <2>2. /\ ((n - 1) * q) \div 100 \in 0..(n - 1) /\ ((n - 1) * q) % 100 \in 0..99
        /\ ((n - 1) * q) % 100 # 0 => ((n - 1) * q) \div 100 + 1 <= n - 1
    BY <2>1, PositionOf
  <2>3. \A x \in 0..(n - 1) : x \in Nat /\ x < n /\ (x + 1 <= n - 1 => x + 1 < n)
    BY <2>1
  <2> QED BY <2>2, <2>3 DEF n
<1>3. Percentile(s, q) = IF f = 0 THEN 100 * a ELSE a * (100 - f) + b * f
  BY DEF Percentile, Size
<1> HIDE DEF f
<1>4. a \in Int
  <2> HIDE DEF k
  <2> QED BY <1>2, OrderedRank
<1>5. f # 0 => b \in Int /\ a <= b
  <2> HIDE DEF k
  <2> QED BY <1>2, OrderedRank, OrderedAscends
<1>6. CASE f = 0
  <2> HIDE DEF a, b, k
  <2>1. Percentile(s, q) = 100 * a
    BY <1>3, <1>6
  <2>2. 100 * a \in Int
    BY <1>4
  <2> QED BY <1>4, <1>6, <2>1, <2>2 DEF a, k, f
<1>7. CASE f # 0
  <2> HIDE DEF a, b, k
  <2>1. Percentile(s, q) = a * (100 - f) + b * f
    BY <1>3, <1>7
  <2>2. f \in 0..100 /\ f <= f
    BY <1>2
  <2>3. a * (100 - f) + b * f \in Int /\ 100 * a <= a * (100 - f) + b * f /\ a * (100 - f) + b * f <= 100 * b
    BY <1>4, <1>5, <1>7, <2>2, Between
  <2> QED BY <1>7, <2>1, <2>3 DEF a, b, k, f
<1> QED BY <1>6, <1>7

\* A percentile has its rank: enough samples are not above it, and not below it.
LEMMA PercentileRank ==
  ASSUME NEW s, Samples(s), Size(s) # 0, NEW q \in 0..100
  PROVE  LET p == Percentile(s, q)
         IN /\ 100 * Cardinality({i \in DOMAIN s : 100 * s[i] <= p}) > (Size(s) - 1) * q
            /\ 100 * Cardinality({i \in DOMAIN s : 100 * s[i] >= p}) > (Size(s) - 1) * (100 - q)
            /\ 100 * Min(Range(s)) <= p /\ p <= 100 * Max(Range(s))
<1> DEFINE n   == Size(s)
           pos == (n - 1) * q
           k   == pos \div 100
           f   == pos % 100
           a   == Ordered(s)[k]
           b   == Ordered(s)[k + 1]
           p   == Percentile(s, q)
           top == IF f = 0 THEN k ELSE k + 1
           t   == Ordered(s)[top]
           low  == {i \in DOMAIN s : 100 * s[i] <= p}
           high == {i \in DOMAIN s : 100 * s[i] >= p}
<1>1. n \in Nat \ {0}
  BY IndexSets
<1>2. p \in Int /\ 100 * a <= p /\ p <= 100 * t
  <2>1. p \in Int /\ 100 * a <= p /\ (f = 0 => p = 100 * a) /\ (f # 0 => p <= 100 * b)
    BY PercentileBetween
  <2> HIDE DEF p, a, b, k, f
  <2> QED BY <2>1 DEF a, b
<1> HIDE DEF n, p
<1>3. /\ k \in Nat /\ k < n /\ f \in 0..99 /\ pos = 100 * k + f /\ top \in Nat /\ top < n
      /\ (f = 0 => top = k) /\ (f # 0 => top = k + 1)
  <2>1. /\ k \in 0..(n - 1) /\ f \in 0..99 /\ pos = 100 * k + f /\ (f # 0 => k + 1 <= n - 1)
    BY <1>1, PositionOf
  <2> HIDE DEF k, f, pos
  <2> QED BY <1>1, <2>1
<1>4. (n - 1) * (100 - q) = 100 * (n - 1) - pos
  BY <1>1
<1> HIDE DEF pos, k, f, top, a, b
<1>5. a \in Range(s) /\ a \in Int /\ Cardinality(AtMost(s, a)) > k
  BY <1>3, OrderedRank DEF n, a
<1>6. t \in Range(s) /\ t \in Int /\ Cardinality(Less(s, t)) <= top
  BY <1>3, OrderedRank DEF n
<1> HIDE DEF t
<1>7. 100 * Cardinality(low) > pos
  <2>1. AtMost(s, a) \in SUBSET low /\ low \in SUBSET DOMAIN s
    BY <1>2, <1>5 DEF AtMost, Samples
  <2> HIDE DEF low
  <2>2. Cardinality(low) >= Cardinality(AtMost(s, a)) /\ Cardinality(low) \in Nat
    BY <2>1, IndexSets
  <2>3. Cardinality(AtMost(s, a)) \in Nat
    BY IndexSets DEF AtMost
  <2> QED BY <1>3, <1>5, <2>2, <2>3
<1>8. 100 * Cardinality(high) > 100 * (n - 1) - pos
  <2>1. DOMAIN s \ Less(s, t) \in SUBSET high /\ high \in SUBSET DOMAIN s
    BY <1>2, <1>6 DEF Less, Samples
  <2> HIDE DEF high
  <2>2. Cardinality(DOMAIN s \ Less(s, t)) = n - Cardinality(Less(s, t))
    <3>1. Less(s, t) \in SUBSET DOMAIN s
      BY DEF Less
    <3>2. IsFiniteSet(DOMAIN s) /\ DOMAIN s \cap Less(s, t) = Less(s, t)
      BY <3>1 DEF Samples
    <3> QED BY <3>2, FS_Difference DEF n, Size
  <2>3. Cardinality(Less(s, t)) \in Nat
    BY IndexSets DEF Less
  <2>4. Cardinality(high) >= n - Cardinality(Less(s, t)) /\ Cardinality(high) \in Nat
    BY <2>1, <2>2, IndexSets
  <2> QED BY <1>1, <1>3, <1>6, <2>3, <2>4
<1>9. 100 * Min(Range(s)) <= p /\ p <= 100 * Max(Range(s))
  <2>1. IsFiniteSet(Range(s)) /\ Range(s) \subseteq Int
    BY RangeFinite
  <2>2. PICK m \in Range(s) : \A y \in Range(s) : m <= y
    BY <1>5, <2>1, FiniteHasMin
  <2>3. PICK x \in Range(s) : \A y \in Range(s) : x >= y
    BY <1>5, <2>1, FiniteHasMax
  <2>4. Min(Range(s)) = m /\ Max(Range(s)) = x
    BY <2>1, <2>2, <2>3, MaxIs, MinIs
  <2>5. m <= a /\ t <= x /\ m \in Int /\ x \in Int
    BY <1>5, <1>6, <2>1, <2>2, <2>3
  <2> QED BY <1>2, <1>5, <1>6, <2>4, <2>5
<1> QED BY <1>4, <1>7, <1>8, <1>9 DEF pos, n, p

\* A percentile grows with q.
LEMMA PercentileGrows ==
  ASSUME NEW s, Samples(s), Size(s) # 0, NEW q \in 0..100, NEW r \in 0..100, q <= r
  PROVE  Percentile(s, q) <= Percentile(s, r)
<1> DEFINE n    == Size(s)
           at(k) == Ordered(s)[k]
           kq   == ((n - 1) * q) \div 100
           fq   == ((n - 1) * q) % 100
           kr   == ((n - 1) * r) \div 100
           fr   == ((n - 1) * r) % 100
           p    == Percentile(s, q)
           u    == Percentile(s, r)
<1>1. n \in Nat \ {0}
  BY IndexSets
<1>2. /\ p \in Int /\ (fq = 0 => p = 100 * at(kq))
      /\ fq # 0 => p = at(kq) * (100 - fq) + at(kq + 1) * fq /\ p <= 100 * at(kq + 1)
  BY PercentileBetween
<1>3. /\ u \in Int /\ 100 * at(kr) <= u /\ (fr = 0 => u = 100 * at(kr))
      /\ fr # 0 => u = at(kr) * (100 - fr) + at(kr + 1) * fr
  BY PercentileBetween
<1> HIDE DEF n, p, u
<1>4. /\ kq \in 0..(n - 1) /\ fq \in 0..99 /\ (n - 1) * q = 100 * kq + fq
      /\ fq # 0 => kq + 1 <= n - 1
  BY <1>1, PositionOf
<1>5. /\ kr \in 0..(n - 1) /\ fr \in 0..99 /\ (n - 1) * r = 100 * kr + fr
      /\ fr # 0 => kr + 1 <= n - 1
  BY <1>1, PositionOf
<1>6. (n - 1) * q <= (n - 1) * r
  BY <1>1
<1> HIDE DEF kq, fq, kr, fr
<1>7. 100 * kq + fq <= 100 * kr + fr
  BY <1>4, <1>5, <1>6
<1>8. \A k \in 0..(n - 1) : at(k) \in Int
  BY <1>1, OrderedRank DEF n
<1>9. \A j, k \in 0..(n - 1) : j <= k => at(j) <= at(k)
  BY <1>1, OrderedAscends DEF n
<1> HIDE DEF at
<1>10. CASE kq # kr
  <2>1. kq < kr
    BY <1>4, <1>5, <1>7, <1>10
  <2>2. p <= 100 * at(kr)
    <3>1. CASE fq = 0
      <4>1. at(kq) <= at(kr) /\ at(kq) \in Int /\ at(kr) \in Int
        BY <1>4, <1>5, <1>8, <1>9, <2>1
      <4> QED BY <1>2, <3>1, <4>1
    <3>2. CASE fq # 0
      <4>1. at(kq + 1) <= at(kr) /\ at(kq + 1) \in Int /\ at(kr) \in Int
        <5>1. kq + 1 \in 0..(n - 1) /\ kq + 1 <= kr
          BY <1>1, <1>4, <1>5, <2>1, <3>2
        <5> QED BY <1>5, <1>8, <1>9, <5>1
      <4> QED BY <1>2, <3>2, <4>1
    <3> QED BY <3>1, <3>2
  <2>3. at(kr) \in Int
    BY <1>5, <1>8
  <2> QED BY <1>2, <1>3, <2>2, <2>3 DEF p, u
<1>11. CASE kq = kr
  <2>1. fq <= fr
    BY <1>4, <1>5, <1>7, <1>11
  <2>2. CASE fq = 0
    BY <1>2, <1>3, <1>11, <2>2 DEF p, u
  <2>3. CASE fq # 0
    <3>1. fr # 0 /\ fq \in 0..100 /\ fr \in 0..100
      BY <1>4, <1>5, <2>1, <2>3
    <3>2. kq + 1 \in 0..(n - 1)
      BY <1>1, <1>4, <2>3
    <3>3. at(kq) \in Int /\ at(kq + 1) \in Int /\ at(kq) <= at(kq + 1)
      BY <1>4, <1>8, <1>9, <3>2
    <3>4. at(kq) * (100 - fq) + at(kq + 1) * fq <= at(kq) * (100 - fr) + at(kq + 1) * fr
      BY <2>1, <3>1, <3>3, Between
    <3> QED BY <1>2, <1>3, <1>11, <2>3, <3>1, <3>4 DEF p, u
  <2> QED BY <2>2, <2>3
<1> QED BY <1>10, <1>11

-----------------------------------------------------------------------------
(* Histograms *)

\* The samples a bucket counts.
Upto(s, b) == {i \in DOMAIN s : b > Len(Bounds) \/ s[i] <= Bounds[b]}

LEMMA BoundsType ==
  /\ Len(Bounds) \in Nat \ {0} /\ DOMAIN Bounds = 1..Len(Bounds)
  /\ \A b \in 1..Len(Bounds) : Bounds[b] \in Nat
  /\ \A b \in 1..Len(Bounds) : Bounds[b] <= Bounds[Len(Bounds)]
  /\ Last(Bounds) = Bounds[Len(Bounds)]
<1>1. Bounds \in Seq(Nat) /\ Bounds # <<>>
  BY MetricsAssumption
<1>2. Len(Bounds) \in Nat \ {0} /\ DOMAIN Bounds = 1..Len(Bounds)
  BY <1>1, EmptySeq
<1>3. \A b \in 1..Len(Bounds) : Bounds[b] \in Nat
  BY <1>1, <1>2
<1>4. \A b \in 1..Len(Bounds) : Bounds[b] <= Bounds[Len(Bounds)]
  BY <1>2, MetricsAssumption
<1> QED BY <1>2, <1>3, <1>4 DEF Last

\* A sequence of observed values has samples at 1 to its length.
LEMMA SeenSamples ==
  ASSUME NEW s \in Seq(Values)
  PROVE  /\ Samples(s) /\ Size(s) = Len(s) /\ Len(s) \in Nat /\ DOMAIN s = 1..Len(s)
         /\ \A i \in DOMAIN s : s[i] \in Nat
<1>1. Len(s) \in Nat /\ DOMAIN s = 1..Len(s) /\ \A i \in DOMAIN s : s[i] \in Values
  OBVIOUS
<1>2. IsFiniteSet(1..Len(s)) /\ Cardinality(1..Len(s)) = Len(s)
  BY <1>1, FS_Interval
<1>3. \A i \in DOMAIN s : s[i] \in Nat
  BY <1>1, MetricsAssumption
<1> QED BY <1>1, <1>2, <1>3 DEF Samples, Size

LEMMA BucketCounts ==
  ASSUME NEW s \in Seq(Values)
  PROVE  LET c == CumulativeBucketCounts(s, Bounds)
         IN /\ DOMAIN c = 1..(Len(Bounds) + 1) /\ Len(c) = Len(Bounds) + 1
            /\ \A b \in 1..(Len(Bounds) + 1) : c[b] = Cardinality(Upto(s, b)) /\ c[b] \in Nat
            /\ c[Len(Bounds) + 1] = Len(s)
<1> DEFINE c == CumulativeBucketCounts(s, Bounds)
           L == Len(Bounds)
<1>1. c = [b \in 1..(L + 1) |-> Cardinality(Upto(s, b))]
  BY DEF CumulativeBucketCounts, Upto
<1> HIDE DEF c
<1>2. L + 1 \in Nat /\ L + 1 \in 1..(L + 1)
  BY BoundsType
<1>3. \A b \in 1..(L + 1) : Cardinality(Upto(s, b)) \in Nat
  BY SeenSamples, IndexSets DEF Upto
<1>4. Len(c) = L + 1
  <2>1. c \in Seq(Nat) /\ DOMAIN c = 1..(L + 1)
    BY <1>1, <1>2, <1>3, IsASeq
  <2>2. Len(c) \in Nat /\ DOMAIN c = 1..Len(c)
    BY <2>1, LenProperties
  <2> QED BY <1>2, <2>1, <2>2
<1>5. Upto(s, L + 1) = DOMAIN s
  <2>1. L + 1 > Len(Bounds)
    BY BoundsType
  <2> QED BY <2>1 DEF Upto
<1> QED BY <1>1, <1>2, <1>3, <1>4, <1>5, SeenSamples DEF c, Size

\* The rank of a quantile is the least whole number that is not less.
LEMMA RankOf ==
  ASSUME NEW n \in Nat \ {0}, NEW q \in 1..100
  PROVE  LET rank == Max({1, (q * n + 99) \div 100})
         IN /\ rank \in 1..n
            /\ \A c \in Nat : 100 * c >= q * n <=> c >= rank
<1> DEFINE m == q * n
           r == (m + 99) \div 100
<1>1. m \in Nat /\ m >= 1 /\ m <= 100 * n
  OBVIOUS
<1> HIDE DEF m
<1>2. r \in Nat /\ r >= 1 /\ 100 * r >= m /\ 100 * r < m + 100
  BY <1>1
<1> HIDE DEF r
<1>3. Max({1, r}) = r
  <2>1. {1, r} \subseteq Int /\ r \in {1, r} /\ \A y \in {1, r} : r >= y
    BY <1>2
  <2> QED BY <2>1, MaxIs
<1>4. r \in 1..n /\ \A c \in Nat : 100 * c >= m <=> c >= r
  BY <1>1, <1>2
<1> QED BY <1>3, <1>4 DEF m, r

\* The bucket that histogram_quantile() chooses is the first that counts as many
\* samples as the rank.
LEMMA QuantileInBucket ==
  ASSUME NEW s \in Seq(Values), s # <<>>, NEW q \in 1..100, NEW x \in Int, NEW rank \in Nat,
         \A c \in Nat : 100 * c >= q * Len(s) <=> c >= rank,
         rank \in 1..Len(s),
         x >= 0, Cardinality(Less(s, x)) < rank, Cardinality(AtMost(s, x)) >= rank
  PROVE  LET e == HistogramQuantile(CumulativeBucketCounts(s, Bounds), Bounds, q)
         IN /\ 0 <= e[3] /\ e[3] <= e[4]
            /\ IF x > Last(Bounds) THEN e[2] = Last(Bounds) ELSE e[1] <= x /\ x <= e[2]
<1> DEFINE c == CumulativeBucketCounts(s, Bounds)
           L == Len(Bounds)
           n == Len(s)
           Q == q * n
           Reached(i) == 100 * c[i] >= Q /\ \A j \in 1..(i - 1) : 100 * c[j] < Q
           b     == CHOOSE i \in DOMAIN c : Reached(i)
           below == IF b = 1 THEN 0 ELSE Bounds[b - 1]
           prev  == IF b = 1 THEN 0 ELSE c[b - 1]
           e     == HistogramQuantile(c, Bounds, q)
<1>1. /\ DOMAIN c = 1..(L + 1) /\ Len(c) = L + 1 /\ c[L + 1] = n /\ L \in Nat \ {0}
      /\ \A i \in 1..(L + 1) : c[i] = Cardinality(Upto(s, i)) /\ c[i] \in Nat
  BY BucketCounts, BoundsType
<1>2. n \in Nat \ {0} /\ Samples(s) /\ (\A i \in DOMAIN s : s[i] \in Nat) /\ Q \in Nat /\ Q >= 1
  <2>1. n \in Nat \ {0}
    BY SeenSamples, EmptySeq
  <2> QED BY <2>1, SeenSamples
<1>3. b \in 1..(L + 1) /\ Reached(b)
  <2> DEFINE B == {i \in 1..(L + 1) : 100 * c[i] >= Q}
  <2>1. IsFiniteSet(1..(L + 1)) /\ B \subseteq 1..(L + 1)
    BY <1>1, FS_Interval
  <2>2. IsFiniteSet(B) /\ B \subseteq Int
    BY <1>1, <2>1, FS_Subset
  <2>3. L + 1 \in B
    BY <1>1, <1>2
  <2> HIDE DEF B
  <2>4. PICK m \in B : \A y \in B : m <= y
    BY <2>2, <2>3, FiniteHasMin
  <2> HIDE DEF c, Q
  <2>5. m \in 1..(L + 1) /\ 100 * c[m] >= Q
    BY <2>4 DEF B
  <2>6. ASSUME NEW j \in 1..(m - 1) PROVE 100 * c[j] < Q
    <3>1. j \notin B /\ j \in 1..(L + 1)
      BY <1>1, <2>4, <2>5
    <3> QED BY <1>1, <1>2, <3>1 DEF B
  <2>7. m \in DOMAIN c /\ Reached(m)
    BY <1>1, <2>5, <2>6
  <2> HIDE DEF Reached
  <2> QED BY <1>1, <2>7
<1>4. e = IF b > L THEN <<below, below, 0, 1>>
          ELSE IF c[b] = prev THEN <<Bounds[b], Bounds[b], 0, 1>>
          ELSE <<below, Bounds[b], Q - 100 * prev, 100 * (c[b] - prev)>>
  <2>1. c[Len(c)] = n
    BY <1>1
  <2>2. e = CASE b > L -> <<below, below, 0, 1>>
              [] b <= L /\ c[b] = prev -> <<Bounds[b], Bounds[b], 0, 1>>
              [] OTHER -> <<below, Bounds[b], Q - 100 * prev, 100 * (c[b] - prev)>>
    <3> HIDE DEF c
    <3> QED BY <2>1 DEF HistogramQuantile
  <2>3. b > L <=> ~(b <= L)
    BY <1>1, <1>3
  <2> HIDE DEF e, b, below, prev, c
  <2> QED BY <2>2, <2>3
<1> HIDE DEF c, e, b, Q
<1>5. \A i \in 1..(L + 1) : 100 * c[i] >= Q <=> c[i] >= rank
  BY <1>1 DEF Q
<1>6. 100 * c[b] >= Q /\ c[b] >= rank
  BY <1>3, <1>5
<1>7. b # 1 => b - 1 \in 1..L /\ c[b - 1] < rank /\ 100 * c[b - 1] < Q
  <2> SUFFICES ASSUME b # 1 PROVE b - 1 \in 1..L /\ c[b - 1] < rank /\ 100 * c[b - 1] < Q
    OBVIOUS
  <2>1. b - 1 \in 1..L /\ b - 1 \in 1..(b - 1) /\ b - 1 \in 1..(L + 1)
    BY <1>1, <1>3
  <2>2. 100 * c[b - 1] < Q
    BY <1>3, <2>1
  <2> QED BY <1>1, <1>2, <1>5, <2>1, <2>2
\* The value of that rank is above the bounds before the bucket, and not above its own.
<1>8. b <= L => x <= Bounds[b]
  <2> SUFFICES ASSUME b <= L, x > Bounds[b] PROVE FALSE
    BY <1>1, <1>3, BoundsType
  <2>1. Upto(s, b) \in SUBSET Less(s, x) /\ Less(s, x) \in SUBSET DOMAIN s
    BY <1>1, <1>2, <1>3, BoundsType DEF Upto, Less
  <2>2. c[b] <= Cardinality(Less(s, x)) /\ Cardinality(Less(s, x)) \in Nat /\ c[b] \in Nat
    BY <1>1, <1>2, <1>3, <2>1, IndexSets
  <2> QED BY <1>6, <2>2
<1>9. b # 1 => x > Bounds[b - 1]
  <2> SUFFICES ASSUME b # 1, x <= Bounds[b - 1] PROVE FALSE
    BY <1>1, <1>7, BoundsType
  <2>1. AtMost(s, x) \in SUBSET Upto(s, b - 1) /\ Upto(s, b - 1) \in SUBSET DOMAIN s
    BY <1>2, <1>7, BoundsType DEF Upto, AtMost
  <2>2. b - 1 \in 1..(L + 1)
    BY <1>1, <1>3, <1>7
  <2>3. Cardinality(AtMost(s, x)) <= c[b - 1] /\ Cardinality(AtMost(s, x)) \in Nat /\ c[b - 1] \in Nat
    <3>1. Cardinality(AtMost(s, x)) <= Cardinality(Upto(s, b - 1)) /\ Cardinality(AtMost(s, x)) \in Nat
      BY <1>2, <2>1, IndexSets
    <3> QED BY <1>1, <2>2, <3>1
  <2> QED BY <1>7, <2>3
<1>10. below \in Nat /\ below <= x /\ prev \in Nat /\ prev < rank /\ 100 * prev < Q
  <2>1. CASE b = 1
    BY <1>2, <2>1
  <2>2. CASE b # 1
    BY <1>1, <1>7, <1>9, <2>2, BoundsType
  <2> QED BY <2>1, <2>2
<1>11. CASE b > L
  <2>1. b # 1 /\ b - 1 = L
    BY <1>1, <1>3, <1>11
  <2>2. below = Last(Bounds) /\ x > Last(Bounds)
    BY <1>9, <2>1, BoundsType
  <2>3. e = <<below, below, 0, 1>>
    BY <1>4, <1>11
  <2> HIDE DEF below, prev
  <2> QED BY <2>2, <2>3 DEF e, c
<1>12. CASE ~(b > L)
  <2>1. b \in 1..L /\ b <= L
    BY <1>1, <1>3, <1>12
  <2>2. c[b] # prev /\ c[b] \in Nat
    BY <1>1, <1>3, <1>6, <1>10
  <2>3. e = <<below, Bounds[b], Q - 100 * prev, 100 * (c[b] - prev)>>
    BY <1>4, <1>12, <2>2
  <2>4. ~(x > Last(Bounds))
    BY <1>8, <2>1, BoundsType
  <2> HIDE DEF below, prev
  <2>5. 0 <= Q - 100 * prev /\ Q - 100 * prev <= 100 * (c[b] - prev)
    BY <1>2, <1>6, <1>10, <2>2
  <2>6. below <= x /\ x <= Bounds[b]
    BY <1>8, <1>10, <2>1
  <2> QED BY <2>3, <2>4, <2>5, <2>6 DEF e, c
<1> QED BY <1>11, <1>12

-----------------------------------------------------------------------------
(* The window of the tracker *)

Snapshots == [t : Nat, batch : Nat]

First(p) == Max({1, Len(p) - Window + 1})

Recent(p) == SubSeq(p, First(p), Len(p))

\* What is in the window: the last snapshots, as many as it holds.
LEMMA RecentIs ==
  ASSUME NEW p \in Seq(Snapshots)
  PROVE  LET n == IF Len(p) < Window THEN Len(p) ELSE Window
         IN /\ Recent(p) \in Seq(Snapshots) /\ Len(Recent(p)) = n
            /\ \A i \in 1..n : Recent(p)[i] = p[Len(p) - n + i]
<1> DEFINE N == Len(p)
           m == First(p)
           n == IF N < Window THEN N ELSE Window
<1>1. N \in Nat /\ Window \in Nat \ {0} /\ DOMAIN p = 1..N /\ \A i \in 1..N : p[i] \in Snapshots
  BY MetricsAssumption, LenProperties, ElementOfSeq
<1>2. m = N - n + 1
  <2>1. CASE N < Window
    <3>1. {1, N - Window + 1} \subseteq Int /\ 1 \in {1, N - Window + 1}
          /\ \A y \in {1, N - Window + 1} : 1 >= y
      BY <1>1, <2>1
    <3>2. m = 1
      BY <3>1, MaxIs DEF First
    <3> QED BY <1>1, <2>1, <3>2
  <2>2. CASE ~(N < Window)
    <3> DEFINE k == N - Window + 1
    <3>1. {1, k} \subseteq Int /\ k \in {1, k} /\ \A y \in {1, k} : k >= y
      BY <1>1, <2>2
    <3>2. m = k
      <4> HIDE DEF k
      <4>1. Max({1, k}) = k
        BY <3>1, MaxIs
      <4> QED BY <4>1 DEF First, k
    <3> QED BY <1>1, <2>2, <3>2
  <2> QED BY <2>1, <2>2
<1>3. n \in 0..N
  BY <1>1
<1> HIDE DEF m, n, N
<1>4. m \in Int /\ N \in Int /\ (\A i \in m..N : p[i] \in Snapshots) /\ N - m + 1 = n
  BY <1>1, <1>2, <1>3
<1>5. /\ SubSeq(p, m, N) \in Seq(Snapshots)
      /\ Len(SubSeq(p, m, N)) = IF m <= N THEN N - m + 1 ELSE 0
      /\ \A i \in 1..(N - m + 1) : SubSeq(p, m, N)[i] = p[m + i - 1]
  BY <1>4, SubSeqProperties
<1>6. Len(SubSeq(p, m, N)) = n
  BY <1>2, <1>3, <1>4, <1>5
<1>7. \A i \in 1..n : SubSeq(p, m, N)[i] = p[N - n + i]
  <2> SUFFICES ASSUME NEW i \in 1..n PROVE SubSeq(p, m, N)[i] = p[N - n + i]
    OBVIOUS
  <2>1. SubSeq(p, m, N)[i] = p[m + i - 1]
    BY <1>4, <1>5
  <2>2. m + i - 1 = N - n + i
    BY <1>1, <1>2, <1>3
  <2> QED BY <2>1, <2>2
<1> QED BY <1>5, <1>6, <1>7 DEF Recent, m, n, N

\* deque(maxlen) keeps the last snapshots.
LEMMA PushKeepsRecent ==
  ASSUME NEW p \in Seq(Snapshots), NEW snap \in Snapshots
  PROVE  Push(Recent(p), snap) = Recent(Append(p, snap))
<1> DEFINE N == Len(p)
           n == IF N < Window THEN N ELSE Window
           w == Recent(p)
           u == Append(p, snap)
           l == IF N + 1 < Window THEN N + 1 ELSE Window
           v == Recent(u)
<1>1. N \in Nat /\ Window \in Nat \ {0}
  BY MetricsAssumption
<1>2. /\ u \in Seq(Snapshots) /\ Len(u) = N + 1 /\ u[N + 1] = snap
      /\ \A i \in 1..N : u[i] = p[i]
  OBVIOUS
<1>3. w \in Seq(Snapshots) /\ Len(w) = n /\ \A i \in 1..n : w[i] = p[N - n + i]
  BY RecentIs
<1>4. v \in Seq(Snapshots) /\ Len(v) = l /\ \A i \in 1..l : v[i] = u[N + 1 - l + i]
  <2> HIDE DEF u, N
  <2> DEFINE k == Len(u)
             z == IF k < Window THEN k ELSE Window
  <2>1. v \in Seq(Snapshots) /\ Len(v) = z /\ \A i \in 1..z : v[i] = u[k - z + i]
    BY <1>2, RecentIs
  <2>2. k = N + 1
    BY <1>2
  <2>3. z = l
    BY <2>2
  <2>4. l \in Int /\ N \in Int
    BY <1>1 DEF N
  <2> HIDE DEF k, z, l, v
  <2>5. ASSUME NEW i \in 1..l PROVE v[i] = u[N + 1 - l + i]
    <3>1. v[i] = u[k - z + i]
      BY <2>1, <2>3
    <3>2. k - z + i = N + 1 - l + i
      BY <2>2, <2>3, <2>4
    <3> QED BY <3>1, <3>2
  <2> QED BY <2>1, <2>3, <2>5
<1> HIDE DEF u, v, w, N
<1>5. CASE N < Window
  <2>1. n = N /\ l = N + 1
    BY <1>1, <1>5
  <2>2. Push(w, snap) = Append(w, snap)
    BY <1>3, <1>5, <2>1, <1>1 DEF Push
  <2>3. Append(w, snap) \in Seq(Snapshots) /\ Len(Append(w, snap)) = N + 1
    BY <1>1, <1>3, <2>1
  <2>4. ASSUME NEW i \in 1..(N + 1) PROVE Append(w, snap)[i] = v[i]
    <3>1. CASE i = N + 1
      <4>1. Append(w, snap)[i] = snap
        BY <1>1, <1>3, <2>1, <3>1
      <4>2. v[i] = u[N + 1]
        BY <1>1, <1>4, <2>1, <3>1
      <4> QED BY <1>2, <4>1, <4>2
    <3>2. CASE i # N + 1
      <4>1. i \in 1..N
        BY <1>1, <3>2
      <4>2. Append(w, snap)[i] = w[i]
        BY <1>1, <1>3, <2>1, <4>1
      <4>3. w[i] = p[i]
        BY <1>1, <1>3, <2>1, <4>1
      <4>4. v[i] = u[i]
        BY <1>1, <1>4, <2>1
      <4> QED BY <1>2, <4>1, <4>2, <4>3, <4>4
    <3> QED BY <3>1, <3>2
  <2>5. Append(w, snap) = v
    BY <1>4, <2>1, <2>3, <2>4, SeqEqual
  <2> QED BY <2>2, <2>5 DEF w, v, u
<1>6. CASE ~(N < Window)
  <2>1. n = Window /\ l = Window /\ w # <<>>
    BY <1>1, <1>3, <1>6, EmptySeq
  <2> HIDE DEF n, l
  <2> DEFINE t == Tail(w)
  <2>2. t \in Seq(Snapshots) /\ Len(t) = Window - 1 /\ \A i \in 1..(Window - 1) : t[i] = w[i + 1]
    BY <1>3, <2>1, HeadTailProperties
  <2>3. Push(w, snap) = Append(t, snap)
    BY <1>3, <2>1 DEF Push
  <2> HIDE DEF t
  <2>4. Append(t, snap) \in Seq(Snapshots) /\ Len(Append(t, snap)) = Window
    BY <1>1, <2>2
  <2>5. ASSUME NEW i \in 1..Window PROVE Append(t, snap)[i] = v[i]
    <3>1. CASE i = Window
      <4>1. Append(t, snap)[i] = snap
        BY <1>1, <2>2, <3>1
      <4>2. N + 1 - l + i = N + 1 /\ i \in 1..l
        BY <1>1, <2>1, <3>1
      <4>3. v[i] = u[N + 1]
        BY <1>4, <4>2
      <4> QED BY <1>2, <4>1, <4>3
    <3>2. CASE i # Window
      <4>1. i \in 1..(Window - 1)
        BY <1>1, <3>2
      <4>2. Append(t, snap)[i] = t[i] /\ t[i] = w[i + 1]
        BY <1>1, <2>2, <4>1
      <4> DEFINE k == N + 1 - Window + i
      <4>3. /\ N - n + (i + 1) = k /\ i + 1 \in 1..n
            /\ N + 1 - l + i = k /\ i \in 1..l /\ k \in 1..N
        BY <1>1, <1>6, <2>1, <4>1
      <4> HIDE DEF k
      <4>4. w[i + 1] = p[k]
        BY <1>3, <4>3
      <4>5. v[i] = u[k]
        BY <1>4, <4>3
      <4> QED BY <1>2, <4>2, <4>3, <4>4, <4>5
    <3> QED BY <3>1, <3>2
  <2>6. Append(t, snap) = v
    BY <1>4, <2>1, <2>4, <2>5, SeqEqual
  <2> QED BY <2>3, <2>6 DEF w, v, u
<1> QED BY <1>5, <1>6

\* The counts by batch size add up to the number of batches.
LEMMA HistogramTotal ==
  ASSUME NEW d, Samples(d)
  PROVE  LET h == [size \in Range(d) |-> Cardinality({i \in DOMAIN d : d[i] = size})]
         IN SumFunction(h) = Size(d)
<1> DEFINE of(size) == {i \in DOMAIN d : d[i] = size}
           h == [size \in Range(d) |-> Cardinality({i \in DOMAIN d : d[i] = size})]
           within(T) == {i \in DOMAIN d : d[i] \in T}
           F == {T \in SUBSET Range(d) : SumFunctionOnSet(h, T) = Cardinality(within(T))}
<1>1. \A size \in Range(d) : h[size] = Cardinality(of(size)) /\ h[size] \in Int
  <2>1. \A size : Cardinality(of(size)) \in Nat
    BY IndexSets
  <2> QED BY <2>1
<1> DOMAIN h = Range(d)
  OBVIOUS
<1> HIDE DEF h
<1>2. {} \in F
  <2>1. within({}) = {}
    OBVIOUS
  <2> QED BY <2>1, SumEmpty, FS_EmptySet
<1>3. ASSUME NEW T \in SUBSET Range(d), NEW x \in Range(d) \ T, T \in F
      PROVE  T \cup {x} \in F
  <2>1. IsFiniteSet(T) /\ (\A y \in T : h[y] \in Int) /\ h[x] \in Int
    BY <1>1, RangeFinite, FS_Subset
  <2>2. SumFunctionOnSet(h, T \cup {x}) = h[x] + SumFunctionOnSet(h, T)
    BY <1>3, <2>1, SumAdd
  <2>3. within(T \cup {x}) = within(T) \cup of(x) /\ within(T) \cap of(x) = {}
    BY <1>3
  <2>4. /\ IsFiniteSet(within(T)) /\ IsFiniteSet(of(x))
        /\ Cardinality(within(T)) \in Nat /\ Cardinality(of(x)) \in Nat
    <3>1. within(T) \in SUBSET DOMAIN d /\ of(x) \in SUBSET DOMAIN d
      OBVIOUS
    <3> HIDE DEF within, of
    <3> QED BY <3>1, IndexSets
  <2>5. Cardinality(within(T) \cup of(x)) = Cardinality(of(x)) + Cardinality(within(T))
    <3> HIDE DEF within, of
    <3>1. Cardinality(within(T) \cup of(x))
            = Cardinality(within(T)) + Cardinality(of(x)) - Cardinality(within(T) \cap of(x))
      BY <2>4, FS_Union
    <3>2. Cardinality(within(T) \cap of(x)) = 0
      BY <2>3, FS_EmptySet
    <3> QED BY <2>4, <3>1, <3>2
  <2>6. SumFunctionOnSet(h, T) = Cardinality(within(T)) /\ h[x] = Cardinality(of(x))
    BY <1>1, <1>3
  <2> HIDE DEF within, of
  <2>7. SumFunctionOnSet(h, T \cup {x}) = Cardinality(within(T \cup {x}))
    BY <2>2, <2>3, <2>5, <2>6, Zenon
  <2> QED BY <2>7
<1>4. SUBSET Range(d) \subseteq F
  <2> HIDE DEF F, within, of
  <2>1. IsFiniteSet(Range(d))
    BY RangeFinite
  <2> QED BY <1>2, <1>3, <2>1, SetInduction
<1>5. within(Range(d)) = DOMAIN d
  BY DEF Range
<1>6. SumFunctionOnSet(h, Range(d)) = Cardinality(DOMAIN d)
  <2>1. Range(d) \in F
    BY <1>4
  <2> QED BY <1>5, <2>1
<1> QED BY <1>6 DEF SumFunction, Size, h

-----------------------------------------------------------------------------
(* The series *)

Tokens(p) == SumFunction([i \in DOMAIN p |-> p[i].batch])

\* What is kept is what the history says it is.
SeriesInv ==
  /\ seen \in Seq(Values) /\ past \in Seq(Snapshots)
  /\ counts = CumulativeBucketCounts(seen, Bounds) /\ total = SumFunction(seen)
  /\ window = Recent(past)
  /\ steps = [n |-> Len(past), tokens |-> Tokens(past)]

\* A value that is observed is in the buckets it belongs into, and in no other.
LEMMA BucketsAfter ==
  ASSUME NEW s \in Seq(Values), NEW v \in Values, NEW b \in 1..(Len(Bounds) + 1)
  PROVE  CumulativeBucketCounts(Append(s, v), Bounds)[b] =
           CumulativeBucketCounts(s, Bounds)[b] + (IF Into(v, b) THEN 1 ELSE 0)
<1> DEFINE n == Len(s)
           t == Append(s, v)
<1>1. /\ t \in Seq(Values) /\ n \in Nat /\ DOMAIN s = 1..n /\ DOMAIN t = 1..(n + 1)
      /\ t[n + 1] = v /\ \A i \in 1..n : t[i] = s[i]
  <2>1. t \in Seq(Values) /\ n \in Nat /\ DOMAIN s = 1..n
    OBVIOUS
  <2>2. DOMAIN t = 1..(n + 1) /\ t[n + 1] = v /\ \A i \in 1..n : t[i] = s[i]
    BY <2>1
  <2> QED BY <2>1, <2>2
<1> HIDE DEF t, n
<1>2. /\ CumulativeBucketCounts(t, Bounds)[b] = Cardinality(Upto(t, b))
      /\ CumulativeBucketCounts(s, Bounds)[b] = Cardinality(Upto(s, b))
  BY <1>1, BucketCounts
<1>3. Upto(t, b) = Upto(s, b) \cup (IF Into(v, b) THEN {n + 1} ELSE {})
  BY <1>1 DEF Upto, Into
<1>4. IsFiniteSet(Upto(s, b)) /\ Cardinality(Upto(s, b)) \in Nat /\ n + 1 \notin Upto(s, b)
  <2>1. Samples(s) /\ Upto(s, b) \in SUBSET DOMAIN s
    BY SeenSamples DEF Upto
  <2> QED BY <1>1, <2>1, IndexSets
<1>5. CASE Into(v, b)
  <2>1. Cardinality(Upto(s, b) \cup {n + 1}) = Cardinality(Upto(s, b)) + 1
    BY <1>4, FS_AddElement
  <2> QED BY <1>2, <1>3, <1>5, <2>1 DEF t
<1>6. CASE ~Into(v, b)
  BY <1>2, <1>3, <1>4, <1>6 DEF t
<1> QED BY <1>5, <1>6

\* One more step adds its batch to the tokens.
LEMMA TokensAfter ==
  ASSUME NEW p \in Seq(Snapshots), NEW snap \in Snapshots
  PROVE  Tokens(Append(p, snap)) = Tokens(p) + snap.batch
<1> DEFINE n == Len(p)
           u == Append(p, snap)
           w == [i \in DOMAIN p |-> p[i].batch]
           y == [i \in DOMAIN u |-> u[i].batch]
<1>1. /\ n \in Nat /\ DOMAIN p = 1..n /\ DOMAIN u = 1..(n + 1) /\ u[n + 1] = snap
      /\ \A i \in 1..n : u[i] = p[i] /\ p[i] \in Snapshots
  <2>1. n \in Nat /\ DOMAIN p = 1..n
    OBVIOUS
  <2>2. DOMAIN u = 1..(n + 1) /\ u[n + 1] = snap /\ \A i \in 1..n : u[i] = p[i] /\ p[i] \in Snapshots
    BY <2>1
  <2> QED BY <2>1, <2>2
<1> HIDE DEF u, n
<1>2. /\ DOMAIN w = 1..n /\ DOMAIN y = 1..(n + 1) /\ y[n + 1] = snap.batch /\ snap.batch \in Int
      /\ \A i \in 1..n : w[i] \in Int /\ y[i] = w[i]
  BY <1>1 DEF Snapshots
<1> HIDE DEF w, y
<1>3. 1..(n + 1) = 1..n \cup {n + 1} /\ n + 1 \notin 1..n /\ IsFiniteSet(1..n)
  <2>1. \A i : i \in 1..(n + 1) <=> i \in 1..n \/ i = n + 1
    BY <1>1
  <2>2. n + 1 \notin 1..n
    BY <1>1
  <2>3. IsFiniteSet(1..n)
    BY <1>1, FS_Interval
  <2> QED BY <2>1, <2>2, <2>3
<1>4. SumFunctionOnSet(y, 1..n \cup {n + 1}) = y[n + 1] + SumFunctionOnSet(y, 1..n)
  BY <1>2, <1>3, SumAdd
<1>5. SumFunctionOnSet(y, 1..n) = SumFunctionOnSet(w, 1..n)
  BY <1>2, <1>3, SumCongruent
<1>6. SumFunctionOnSet(w, 1..n) \in Int
  BY <1>2, <1>3, SumRemove
<1>7. SumFunction(y) = SumFunction(w) + snap.batch
  <2>1. SumFunction(w) = SumFunctionOnSet(w, 1..n)
    BY <1>2 DEF SumFunction
  <2>2. SumFunction(y) = SumFunctionOnSet(y, 1..n \cup {n + 1})
    BY <1>2, <1>3 DEF SumFunction
  <2>3. SumFunction(y) = snap.batch + SumFunction(w)
    BY <1>2, <1>4, <1>5, <2>1, <2>2, Zenon
  <2>4. \A a, c \in Int : a + c = c + a
    OBVIOUS
  <2> QED BY <1>2, <1>6, <2>1, <2>3, <2>4
<1> QED BY <1>7 DEF Tokens, w, y, u

LEMMA SeriesInvInit == Init => SeriesInv
<1> SUFFICES ASSUME Init PROVE SeriesInv
  OBVIOUS
<1>1. /\ counts = [b \in 1..(Len(Bounds) + 1) |-> 0] /\ total = 0 /\ seen = <<>>
      /\ window = <<>> /\ steps = [n |-> 0, tokens |-> 0] /\ past = <<>>
  BY DEF Init, MetricsInit
<1>2. seen \in Seq(Values) /\ past \in Seq(Snapshots) /\ Len(past) = 0 /\ DOMAIN past = {}
  BY <1>1
<1>3. counts = CumulativeBucketCounts(seen, Bounds)
  <2>1. \A b : Cardinality(Upto(seen, b)) = 0
    <3>1. DOMAIN seen = {}
      BY <1>1
    <3>2. \A b : Upto(seen, b) = {}
      BY <3>1 DEF Upto
    <3> QED BY <3>2, FS_EmptySet
  <2>2. CumulativeBucketCounts(seen, Bounds) = [b \in 1..(Len(Bounds) + 1) |-> Cardinality(Upto(seen, b))]
    BY DEF CumulativeBucketCounts, Upto
  <2> QED BY <1>1, <2>1, <2>2
<1>4. total = SumFunction(seen)
  BY <1>1, SumSeqEmpty
<1>5. Tokens(past) = 0
  <2>1. Tokens(past) = SumFunctionOnSet([i \in DOMAIN past |-> past[i].batch], {})
    BY <1>2 DEF Tokens, SumFunction
  <2> QED BY <2>1, SumEmpty
<1>6. window = Recent(past)
  <2>1. 0 < Window
    BY MetricsAssumption
  <2>2. Recent(past) \in Seq(Snapshots) /\ Len(Recent(past)) = 0
    BY <1>2, <2>1, RecentIs
  <2> QED BY <1>1, <2>2, EmptySeq
<1> QED BY <1>1, <1>2, <1>3, <1>4, <1>5, <1>6 DEF SeriesInv

LEMMA SeriesInvStep == SeriesInv /\ [Next]_vars => SeriesInv'
<1> SUFFICES ASSUME SeriesInv, [Next]_vars PROVE SeriesInv'
  OBVIOUS
<1>1. ASSUME NEW v \in Values, Observe(v) PROVE SeriesInv'
  <2>1. /\ counts' = [b \in DOMAIN counts |-> counts[b] + (IF Into(v, b) THEN 1 ELSE 0)]
        /\ total' = total + v /\ seen' = Append(seen, v)
        /\ UNCHANGED <<window, steps, past>>
    BY <1>1 DEF Observe
  <2>2. seen \in Seq(Values) /\ counts = CumulativeBucketCounts(seen, Bounds)
    BY DEF SeriesInv
  <2>3. seen' \in Seq(Values)
    BY <2>1, <2>2
  <2>4. counts' = CumulativeBucketCounts(seen', Bounds)
    <3> DEFINE L == Len(Bounds)
               c == CumulativeBucketCounts(seen', Bounds)
    <3>1. DOMAIN counts = 1..(L + 1)
      BY <2>2, BucketCounts
    <3>2. c = [b \in 1..(L + 1) |-> c[b]]
      BY DEF CumulativeBucketCounts
    <3>3. \A b \in 1..(L + 1) : c[b] = counts[b] + (IF Into(v, b) THEN 1 ELSE 0)
      BY <2>1, <2>2, BucketsAfter
    <3> HIDE DEF c, L
    <3>4. c = [b \in 1..(L + 1) |-> counts[b] + (IF Into(v, b) THEN 1 ELSE 0)]
      BY <3>2, <3>3
    <3> QED BY <2>1, <3>1, <3>4 DEF c
  <2>5. total' = SumFunction(seen')
    <3>1. seen \in Seq(Int) /\ v \in Int
      <4>1. Values \subseteq Int
        BY MetricsAssumption
      <4> QED BY <2>2, <4>1, SeqMonotonic
    <3>2. SumFunction(Append(seen, v)) = SumFunction(seen) + v
      BY <3>1, SumSeqAppend
    <3>3. total = SumFunction(seen)
      BY DEF SeriesInv
    <3> QED BY <2>1, <3>2, <3>3
  <2> QED BY <2>1, <2>3, <2>4, <2>5 DEF SeriesInv, Recent, First, Tokens
<1>2. ASSUME NEW gap \in Gaps, NEW batch \in BatchSizes, RecordStep(gap, batch) PROVE SeriesInv'
  <2> DEFINE snap == [t |-> gap + (IF past = <<>> THEN 0 ELSE Last(past).t), batch |-> batch]
  <2>1. /\ window' = Push(window, snap) /\ past' = Append(past, snap)
        /\ steps' = [n |-> steps.n + 1, tokens |-> steps.tokens + batch]
        /\ UNCHANGED <<counts, total, seen>>
    BY <1>2 DEF RecordStep
  <2>2. past \in Seq(Snapshots) /\ window = Recent(past)
        /\ steps = [n |-> Len(past), tokens |-> Tokens(past)]
    BY DEF SeriesInv
  <2>3. snap \in Snapshots
    <3>1. gap \in Nat /\ batch \in Nat
      BY MetricsAssumption
    <3>2. past # <<>> => Last(past).t \in Nat
      <4> SUFFICES ASSUME past # <<>> PROVE Last(past).t \in Nat
        OBVIOUS
      <4>1. Len(past) \in Nat \ {0}
        BY <2>2, EmptySeq
      <4>2. past[Len(past)] \in Snapshots
        BY <2>2, <4>1, ElementOfSeq
      <4> QED BY <4>2 DEF Last, Snapshots
    <3> QED BY <3>1, <3>2 DEF Snapshots
  <2>4. snap.batch = batch
    OBVIOUS
  <2> HIDE DEF snap
  <2>5. past' \in Seq(Snapshots) /\ Len(past') = Len(past) + 1
    BY <2>1, <2>2, <2>3
  <2>6. window' = Recent(past')
    BY <2>1, <2>2, <2>3, PushKeepsRecent
  <2>7. Tokens(past') = Tokens(past) + batch
    BY <2>1, <2>2, <2>3, <2>4, TokensAfter
  <2>8. steps' = [n |-> Len(past'), tokens |-> Tokens(past')]
    BY <2>1, <2>2, <2>5, <2>7
  <2> QED BY <2>1, <2>5, <2>6, <2>8 DEF SeriesInv, Recent, First, Tokens
<1>3. CASE UNCHANGED <<counts, total, seen, window, steps, past>>
  BY <1>3 DEF SeriesInv, Recent, First, Tokens
<1> QED BY <1>1, <1>2, <1>3 DEF Next, vars, ObserveAny, RecordAny, AppendAny, AppendRecord, metricsVars

\* A quantile, with the value of its rank.
LEMMA QuantilesRight ==
  ASSUME SeriesInv, seen # <<>>, NEW q \in 1..100
  PROVE  LET e == HistogramQuantile(counts, Bounds, q)
         IN /\ 0 <= e[3] /\ e[3] <= e[4]
            /\ IF Exact(q) > Last(Bounds) THEN e[2] = Last(Bounds)
               ELSE e[1] <= Exact(q) /\ Exact(q) <= e[2]
<1> DEFINE n    == Len(seen)
           rank == Max({1, (q * n + 99) \div 100})
           x    == Ordered(seen)[rank - 1]
<1>1. seen \in Seq(Values) /\ counts = CumulativeBucketCounts(seen, Bounds)
  BY DEF SeriesInv
<1>2. Samples(seen) /\ Size(seen) = n /\ n \in Nat \ {0} /\ \A i \in DOMAIN seen : seen[i] \in Nat
  BY <1>1, SeenSamples, EmptySeq
<1>3. rank \in 1..n /\ \A c \in Nat : 100 * c >= q * n <=> c >= rank
  <2> HIDE DEF n
  <2> QED BY <1>2, RankOf
<1>4. x = Exact(q)
  BY DEF Exact
<1> HIDE DEF rank
<1>5. rank - 1 \in Nat /\ rank - 1 < Size(seen) /\ rank \in Nat
  BY <1>2, <1>3
<1>6. /\ x \in Range(seen) /\ x \in Int /\ Cardinality(Less(seen, x)) <= rank - 1
      /\ Cardinality(AtMost(seen, x)) > rank - 1
  BY <1>2, <1>5, OrderedRank
<1> HIDE DEF x
<1>7. Cardinality(Less(seen, x)) \in Nat /\ Cardinality(AtMost(seen, x)) \in Nat
  <2>1. Less(seen, x) \in SUBSET DOMAIN seen /\ AtMost(seen, x) \in SUBSET DOMAIN seen
    BY DEF Less, AtMost
  <2> QED BY <1>2, <2>1, IndexSets
<1>8. Cardinality(Less(seen, x)) < rank /\ Cardinality(AtMost(seen, x)) >= rank
  BY <1>5, <1>6, <1>7
<1>9. x >= 0
  BY <1>2, <1>6 DEF Range
<1> QED BY <1>1, <1>3, <1>4, <1>5, <1>6, <1>8, <1>9, QuantileInBucket

LEMMA SeriesInvMatches == SeriesInv => SeriesMatchHistory
<1> SUFFICES ASSUME SeriesInv PROVE SeriesMatchHistory
  OBVIOUS
<1>1. \A q \in Quantiles : q \in 0..100 /\ (q # 0 => q \in 1..100)
  BY DEF Quantiles
<1>2. /\ counts = CumulativeBucketCounts(seen, Bounds) /\ total = SumFunction(seen)
      /\ window = SubSeq(past, Max({1, Len(past) - Window + 1}), Len(past))
      /\ steps = [n |-> Len(past), tokens |-> SumFunction([i \in DOMAIN past |-> past[i].batch])]
  BY DEF SeriesInv, Recent, First, Tokens
<1>3. SumFunction(BatchSizeHistogram) = Len(window)
  <2>1. past \in Seq(Snapshots) /\ window = Recent(past)
    BY DEF SeriesInv
  <2>2. window \in Seq(Snapshots)
    BY <2>1, RecentIs
  <2>3. Len(window) \in Nat /\ DOMAIN window = 1..Len(window) /\ \A i \in DOMAIN window : window[i] \in Snapshots
    BY <2>2
  <2>4. IsFiniteSet(DOMAIN window) /\ Cardinality(DOMAIN window) = Len(window)
    BY <2>3, FS_Interval
  <2>5. DOMAIN Batches = DOMAIN window /\ \A i \in DOMAIN window : Batches[i] \in Nat
    BY <2>3 DEF Batches, Snapshots
  <2>6. Samples(Batches) /\ Size(Batches) = Len(window)
    BY <2>4, <2>5 DEF Samples, Size
  <2>7. SumFunction([size \in Range(Batches) |-> Cardinality({i \in DOMAIN Batches : Batches[i] = size})]) = Size(Batches)
    BY <2>6, HistogramTotal
  <2> QED BY <2>6, <2>7 DEF BatchSizeHistogram
<1>4. ASSUME seen # <<>>, NEW q \in Quantiles \ {0}
      PROVE  LET e == HistogramQuantile(counts, Bounds, q)
             IN /\ 0 <= e[3] /\ e[3] <= e[4]
                /\ IF Exact(q) > Last(Bounds) THEN e[2] = Last(Bounds)
                   ELSE e[1] <= Exact(q) /\ Exact(q) <= e[2]
  BY <1>1, <1>4, QuantilesRight
<1>5. ASSUME seen # <<>>, NEW q \in Quantiles
      PROVE  LET p == Percentile(seen, q)
                 n == Len(seen) - 1
             IN /\ 100 * Cardinality({i \in DOMAIN seen : 100 * seen[i] <= p}) > n * q
                /\ 100 * Cardinality({i \in DOMAIN seen : 100 * seen[i] >= p}) > n * (100 - q)
                /\ 100 * Min(Range(seen)) <= p /\ p <= 100 * Max(Range(seen))
                /\ \A r \in Quantiles : q <= r => p <= Percentile(seen, r)
  <2>1. Samples(seen) /\ Size(seen) = Len(seen) /\ Size(seen) # 0
    <3>1. seen \in Seq(Values)
      BY DEF SeriesInv
    <3> QED BY <1>5, <3>1, SeenSamples, EmptySeq
  <2>2. q \in 0..100
    BY <1>1
  <2>3. \A r \in Quantiles : q <= r => Percentile(seen, q) <= Percentile(seen, r)
    BY <1>1, <2>1, <2>2, PercentileGrows
  <2> QED BY <2>1, <2>2, <2>3, PercentileRank
<1> QED BY <1>2, <1>3, <1>4, <1>5 DEF SeriesMatchHistory

\* Whatever is observed and recorded, at any bounds and window: histogram, total and
\* window are those of the history; a quantile is estimated in the bucket that holds
\* the exact one; a percentile has its rank, lies between the extremes and grows with
\* q; the batch sizes of a window add up to its length.
THEOREM SeriesAlwaysMatchHistory == Spec => []SeriesMatchHistory
<1>1. Spec => []SeriesInv
  BY SeriesInvInit, SeriesInvStep, PTL DEF Spec
<1> QED BY <1>1, SeriesInvMatches, PTL

-----------------------------------------------------------------------------
(* Benchmark records *)

RecordsInv == records \in Seq(RecordKinds)

LEMMA RecordsInvHolds == Spec => []RecordsInv
<1>1. Init => RecordsInv
  BY DEF Init, MetricsInit, RecordsInv
<1>2. RecordsInv /\ [Next]_vars => RecordsInv'
  <2> SUFFICES ASSUME RecordsInv, [Next]_vars PROVE RecordsInv'
    OBVIOUS
  <2>1. records' = records \/ \E rec \in RecordKinds : records' = Append(records, rec)
    BY DEF Next, vars, metricsVars, ObserveAny, Observe, RecordAny, RecordStep, AppendAny, AppendRecord
  <2> QED BY <2>1 DEF RecordsInv
<1> QED BY <1>1, <1>2, PTL DEF Spec

\* The records that completed, and those of them that met both budgets.
Good(recs) == {k \in DOMAIN recs : OK(recs[k])}

Met(recs) == {k \in Good(recs) : MeetsSLO(recs[k])}

\* What aggregate() reports of the records that completed.
LEMMA AggregateIs ==
  ASSUME NEW recs
  PROVE  /\ Aggregate(recs).completed = Cardinality(Good(recs))
         /\ Aggregate(recs).failed = Len(recs) - Cardinality(Good(recs))
         /\ Aggregate(recs).tokens = SumFunction([k \in Good(recs) |-> recs[k].tokens])
         /\ Aggregate(recs).ttft = LatencyStats([k \in Good(recs) |-> recs[k].ttft])
         /\ Aggregate(recs).e2e = LatencyStats([k \in Good(recs) |-> recs[k].latency])
         /\ Aggregate(recs).met = Cardinality(Met(recs))
         /\ Aggregate(recs).attained =
              IF recs = <<>> THEN <<0, 1>> ELSE <<Cardinality(Met(recs)), Len(recs)>>
BY DEF Aggregate, Good, Met

LEMMA RecordSets ==
  ASSUME NEW recs \in Seq(RecordKinds)
  PROVE  /\ Len(recs) \in Nat /\ DOMAIN recs = 1..Len(recs)
         /\ IsFiniteSet(Good(recs)) /\ Cardinality(Good(recs)) \in Nat
         /\ Cardinality(Met(recs)) \in Nat /\ Cardinality(Met(recs)) <= Cardinality(Good(recs))
<1>1. Len(recs) \in Nat /\ DOMAIN recs = 1..Len(recs)
  OBVIOUS
<1>2. IsFiniteSet(DOMAIN recs)
  BY <1>1, FS_Interval
<1>3. Good(recs) \in SUBSET DOMAIN recs /\ Met(recs) \in SUBSET Good(recs)
  BY DEF Good, Met
<1>4. IsFiniteSet(Good(recs))
  BY <1>2, <1>3, FS_Subset
<1>5. IsFiniteSet(Met(recs)) /\ Cardinality(Met(recs)) <= Cardinality(Good(recs))
  BY <1>3, <1>4, FS_Subset
<1> QED BY <1>1, <1>4, <1>5, FS_CardinalityType

\* A record that failed changes none of the sums over the completed ones.
LEMMA FailedLeaves ==
  ASSUME NEW recs \in Seq(RecordKinds), NEW rec \in RecordKinds, ~OK(rec)
  PROVE  LET new == Append(recs, rec)
         IN /\ Good(new) = Good(recs) /\ Met(new) = Met(recs)
            /\ \A k \in Good(recs) : new[k] = recs[k]
            /\ Len(new) = Len(recs) + 1 /\ new # <<>>
<1> DEFINE n   == Len(recs)
           new == Append(recs, rec)
<1>1. /\ n \in Nat /\ DOMAIN recs = 1..n /\ DOMAIN new = 1..(n + 1) /\ new[n + 1] = rec
      /\ Len(new) = n + 1 /\ \A k \in 1..n : new[k] = recs[k]
  <2>1. n \in Nat /\ DOMAIN recs = 1..n
    OBVIOUS
  <2>2. DOMAIN new = 1..(n + 1) /\ new[n + 1] = rec /\ Len(new) = n + 1 /\ \A k \in 1..n : new[k] = recs[k]
    BY <2>1
  <2> QED BY <2>1, <2>2
<1> HIDE DEF new, n
<1>2. \A k : k \in 1..(n + 1) <=> k \in 1..n \/ k = n + 1
  BY <1>1
<1>3. Good(new) = Good(recs)
  BY <1>1, <1>2 DEF Good
<1>4. \A k \in Good(recs) : new[k] = recs[k]
  BY <1>1 DEF Good
<1>5. Met(new) = Met(recs)
  BY <1>3, <1>4 DEF Met
<1>6. new # <<>>
  BY <1>1
<1> QED BY <1>1, <1>3, <1>4, <1>5, <1>6 DEF new, n

LEMMA AppendDoesNotFlatter ==
  ASSUME RecordsInv, RecordsInv', [Next]_vars
  PROVE  LET old == Aggregate(records)
             new == Aggregate(records')
         IN /\ new.completed + new.failed = Len(records')
            /\ new.met <= new.completed
            /\ records' # records /\ ~OK(Last(records')) =>
                 /\ new.ttft = old.ttft /\ new.e2e = old.e2e /\ new.tokens = old.tokens
                 /\ new.attained[1] * old.attained[2] <= old.attained[1] * new.attained[2]
<1> DEFINE old == Aggregate(records)
           new == Aggregate(records')
<1>1. records \in Seq(RecordKinds) /\ records' \in Seq(RecordKinds)
  BY DEF RecordsInv
<1>2. new.completed + new.failed = Len(records') /\ new.met <= new.completed
  <2>1. /\ new.completed = Cardinality(Good(records'))
        /\ new.failed = Len(records') - Cardinality(Good(records'))
        /\ new.met = Cardinality(Met(records'))
    BY AggregateIs
  <2>2. /\ Len(records') \in Nat /\ Cardinality(Good(records')) \in Nat
        /\ Cardinality(Met(records')) <= Cardinality(Good(records'))
    BY <1>1, RecordSets
  <2> HIDE DEF new
  <2> QED BY <2>1, <2>2
<1>3. ASSUME records' # records, ~OK(Last(records'))
      PROVE  /\ new.ttft = old.ttft /\ new.e2e = old.e2e /\ new.tokens = old.tokens
             /\ new.attained[1] * old.attained[2] <= old.attained[1] * new.attained[2]
  <2>1. PICK rec \in RecordKinds : records' = Append(records, rec)
    BY <1>3 DEF Next, vars, metricsVars, ObserveAny, Observe, RecordAny, RecordStep, AppendAny, AppendRecord
  <2>2. Last(records') = rec
    BY <1>1, <2>1 DEF Last
  <2>3. /\ Good(records') = Good(records) /\ Met(records') = Met(records)
        /\ \A k \in Good(records) : records'[k] = records[k]
        /\ Len(records') = Len(records) + 1 /\ records' # <<>>
    BY <1>1, <1>3, <2>1, <2>2, FailedLeaves
  <2>4. /\ [k \in Good(records') |-> records'[k].tokens] = [k \in Good(records) |-> records[k].tokens]
        /\ [k \in Good(records') |-> records'[k].ttft] = [k \in Good(records) |-> records[k].ttft]
        /\ [k \in Good(records') |-> records'[k].latency] = [k \in Good(records) |-> records[k].latency]
    BY <2>3
  <2>5. new.ttft = old.ttft /\ new.e2e = old.e2e /\ new.tokens = old.tokens
    <3>1. /\ new.ttft = LatencyStats([k \in Good(records') |-> records'[k].ttft])
          /\ new.e2e = LatencyStats([k \in Good(records') |-> records'[k].latency])
          /\ new.tokens = SumFunction([k \in Good(records') |-> records'[k].tokens])
      BY AggregateIs
    <3>2. /\ old.ttft = LatencyStats([k \in Good(records) |-> records[k].ttft])
          /\ old.e2e = LatencyStats([k \in Good(records) |-> records[k].latency])
          /\ old.tokens = SumFunction([k \in Good(records) |-> records[k].tokens])
      BY AggregateIs
    <3> HIDE DEF new, old
    <3> QED BY <2>4, <3>1, <3>2, Zenon
  <2>6. /\ old.attained = IF records = <<>> THEN <<0, 1>> ELSE <<Cardinality(Met(records)), Len(records)>>
        /\ new.attained = <<Cardinality(Met(records)), Len(records) + 1>>
    BY <2>3, AggregateIs
  <2>7. Cardinality(Met(records)) \in Nat /\ Len(records) \in Nat
    BY <1>1, RecordSets
  <2>8. records = <<>> => Cardinality(Met(records)) = 0
    <3> SUFFICES ASSUME records = <<>> PROVE Cardinality(Met(records)) = 0
      OBVIOUS
    <3>1. Met(records) = {}
      BY DEF Met, Good
    <3> QED BY <3>1, FS_EmptySet
  <2>9. \A m, n \in Nat : m * n <= m * (n + 1)
    OBVIOUS
  <2>10. new.attained[1] * old.attained[2] <= old.attained[1] * new.attained[2]
    <3> HIDE DEF new, old
    <3>1. CASE records = <<>>
      BY <2>6, <2>7, <2>8, <3>1
    <3>2. CASE records # <<>>
      BY <2>6, <2>7, <2>9, <3>2
    <3> QED BY <3>1, <3>2
  <2> QED BY <2>5, <2>10
<1> QED BY <1>2, <1>3

\* Whatever the records of a run: one that failed leaves every latency figure and the
\* tokens as they were and never raises the share that met the SLO, and every record
\* is counted once.
THEOREM FailuresNeverFlatter == Spec => FailuresDoNotFlatter
<1>1. RecordsInv /\ RecordsInv' /\ [Next]_vars =>
        [LET old == Aggregate(records)
             new == Aggregate(records')
         IN /\ new.completed + new.failed = Len(records')
            /\ new.met <= new.completed
            /\ records' # records /\ ~OK(Last(records')) =>
                 /\ new.ttft = old.ttft /\ new.e2e = old.e2e /\ new.tokens = old.tokens
                 /\ new.attained[1] * old.attained[2] <= old.attained[1] * new.attained[2]]_records
  BY AppendDoesNotFlatter
<1> QED BY <1>1, RecordsInvHolds, PTL DEF Spec, FailuresDoNotFlatter

-----------------------------------------------------------------------------
(* Chats *)

\* f[i] is what the first i of the pieces give, up to m.
Flattening(seqs, m, f) == f = [i \in 1..m |-> IF i = 1 THEN seqs[i] ELSE f[i - 1] \o seqs[i]]

\* FlattenSeq appends the pieces one at a time.
LEMMA FlattenSteps ==
  ASSUME NEW seqs \in Seq(Seq(Int))
  PROVE  \E out : /\ out[0] = <<>> /\ FlattenSeq(seqs) = out[Len(seqs)]
                  /\ \A i \in 1..Len(seqs) : out[i] = out[i - 1] \o seqs[i]
                  /\ \A i \in 0..Len(seqs) : out[i] \in Seq(Int)
<1> DEFINE n == Len(seqs)
           F == {m \in Nat : m <= n => \E f : Flattening(seqs, m, f)}
<1>1. n \in Nat /\ \A i \in 1..n : seqs[i] \in Seq(Int)
  BY LenProperties, ElementOfSeq
<1>2. 0 \in F
  <2>1. Flattening(seqs, 0, [i \in 1..0 |-> <<>>])
    BY DEF Flattening
  <2> QED BY <2>1
<1>3. ASSUME NEW m \in Nat, m \in F PROVE m + 1 \in F
  <2> SUFFICES ASSUME m + 1 <= n
               PROVE  \E f : Flattening(seqs, m + 1, f)
    OBVIOUS
  <2>1. PICK f : Flattening(seqs, m, f)
    BY <1>1, <1>3
  <2> DEFINE step(g, i) == IF i = 1 THEN seqs[i] ELSE g[i - 1] \o seqs[i]
             up == [i \in 1..(m + 1) |-> step(f, i)]
  <2>2. \A i \in 1..m : up[i] = f[i]
    <3> SUFFICES ASSUME NEW i \in 1..m PROVE up[i] = f[i]
      OBVIOUS
    <3>1. up[i] = step(f, i)
      OBVIOUS
    <3>2. f = [j \in 1..m |-> step(f, j)]
      BY <2>1 DEF Flattening
    <3> HIDE DEF step, up
    <3>3. f[i] = step(f, i)
      BY <3>2
    <3> QED BY <3>1, <3>3
  <2>3. \A i \in 1..(m + 1) : step(f, i) = step(up, i)
    <3> SUFFICES ASSUME NEW i \in 1..(m + 1) PROVE step(f, i) = step(up, i)
      OBVIOUS
    <3>1. CASE i = 1
      BY <3>1
    <3>2. CASE i # 1
      <4>1. up[i - 1] = f[i - 1]
        <5>1. i - 1 \in 1..m
          BY <3>2
        <5> HIDE DEF up
        <5> QED BY <2>2, <5>1
      <4> HIDE DEF up
      <4> QED BY <4>1
    <3> QED BY <3>1, <3>2
  <2>4. up = [i \in 1..(m + 1) |-> step(up, i)]
    <3> HIDE DEF step
    <3> QED BY <2>3
  <2>5. Flattening(seqs, m + 1, up)
    BY <2>4 DEF Flattening
  <2> HIDE DEF up
  <2> QED BY <2>5
<1>4. \E f : Flattening(seqs, n, f)
  <2> HIDE DEF F
  <2>1. n \in F
    BY <1>1, <1>2, <1>3, NatSetInduction
  <2>2. n <= n
    BY <1>1
  <2> HIDE DEF n
  <2> QED BY <2>1, <2>2 DEF F
<1> DEFINE P(f) == f = [i \in 1..n |-> IF i = 1 THEN seqs[i] ELSE f[i - 1] \o seqs[i]]
           flat == CHOOSE f : P(f)
           out == [i \in 0..n |-> IF i = 0 THEN <<>> ELSE flat[i]]
<1>5. P(flat)
  <2>1. \E f : P(f)
    BY <1>4 DEF Flattening
  <2> HIDE DEF P
  <2> QED BY <2>1
<1>6. n # 0 => FlattenSeq(seqs) = flat[n]
  BY DEF FlattenSeq
<1>7. \A i \in 1..n : flat[i] = IF i = 1 THEN seqs[i] ELSE flat[i - 1] \o seqs[i]
  <2> HIDE DEF flat
  <2> QED BY <1>5
<1> HIDE DEF flat, P
<1>8. \A i \in 1..n : out[i] = out[i - 1] \o seqs[i]
  <2> SUFFICES ASSUME NEW i \in 1..n PROVE out[i] = out[i - 1] \o seqs[i]
    OBVIOUS
  <2>1. CASE i = 1
    <3>1. out[i] = seqs[1] /\ out[i - 1] = <<>>
      BY <1>7, <2>1
    <3>2. <<>> \o seqs[1] = seqs[1]
      BY <1>1, <2>1
    <3> QED BY <2>1, <3>1, <3>2
  <2>2. CASE i # 1
    <3>1. out[i - 1] = flat[i - 1] /\ out[i] = flat[i]
      BY <2>2
    <3> QED BY <1>7, <2>2, <3>1
  <2> QED BY <2>1, <2>2
<1>9. out[0] = <<>> /\ FlattenSeq(seqs) = out[n]
  <2>1. CASE n = 0
    <3>1. FlattenSeq(seqs) = seqs
      BY <2>1 DEF FlattenSeq
    <3>2. seqs = <<>>
      BY <2>1, EmptySeq
    <3> QED BY <2>1, <3>1, <3>2
  <2>2. CASE n # 0
    BY <1>1, <1>6, <2>2
  <2> QED BY <2>1, <2>2
<1> HIDE DEF out, n
<1>10. \A i \in 0..n : out[i] \in Seq(Int)
  <2> DEFINE G == {m \in Nat : m <= n => out[m] \in Seq(Int)}
  <2>1. 0 \in G
    <3>1. <<>> \in Seq(Int)
      OBVIOUS
    <3> QED BY <1>9, <3>1
  <2>2. ASSUME NEW m \in Nat, m \in G PROVE m + 1 \in G
    <3> SUFFICES ASSUME m + 1 <= n PROVE out[m + 1] \in Seq(Int)
      OBVIOUS
    <3>1. out[m] \in Seq(Int) /\ seqs[m + 1] \in Seq(Int)
      BY <1>1, <2>2
    <3>2. out[m + 1] = out[m] \o seqs[m + 1]
      <4>1. m + 1 \in 1..n /\ (m + 1) - 1 = m
        BY <1>1
      <4> QED BY <1>8, <4>1
    <3> QED BY <3>1, <3>2, ConcatProperties
  <2> HIDE DEF G
  <2>3. Nat \subseteq G
    BY <2>1, <2>2, NatSetInduction
  <2> QED BY <1>1, <2>3 DEF G
<1> QED BY <1>8, <1>9, <1>10 DEF n

\* How often x stands among the first k elements of s.
Marks(s, k, x) == Cardinality({j \in 1..k : s[j] = x})

LEMMA MarksAppend ==
  ASSUME NEW s \in Seq(Int), NEW t \in Seq(Int), NEW x
  PROVE  /\ \A k \in 0..Len(s) : Marks(s \o t, k, x) = Marks(s, k, x)
         /\ \A k \in 0..Len(t) : Marks(s \o t, Len(s) + k, x) = Marks(s, Len(s), x) + Marks(t, k, x)
<1>1. /\ Len(s) \in Nat /\ Len(t) \in Nat
      /\ \A j \in 1..Len(s) : (s \o t)[j] = s[j]
      /\ \A j \in 1..Len(t) : (s \o t)[Len(s) + j] = t[j]
  <2>1. Len(s) \in Nat /\ Len(t) \in Nat
    BY LenProperties
  <2> QED BY <2>1, ConcatProperties
<1>2. ASSUME NEW k \in 0..Len(s) PROVE Marks(s \o t, k, x) = Marks(s, k, x)
  <2>1. {j \in 1..k : (s \o t)[j] = x} = {j \in 1..k : s[j] = x}
    BY <1>1
  <2> QED BY <2>1 DEF Marks
<1>3. ASSUME NEW k \in 0..Len(t)
      PROVE  Marks(s \o t, Len(s) + k, x) = Marks(s, Len(s), x) + Marks(t, k, x)
  <2> DEFINE A == {j \in 1..Len(s) : s[j] = x}
             B == {j \in 1..k : t[j] = x}
             C == {j \in (Len(s) + 1)..(Len(s) + k) : (s \o t)[j] = x}
             f == [j \in B |-> Len(s) + j]
  <2>1. {j \in 1..(Len(s) + k) : (s \o t)[j] = x} = A \cup C /\ A \cap C = {}
    BY <1>1
  <2>2. IsFiniteSet(A) /\ IsFiniteSet(B) /\ IsFiniteSet(C)
    <3>1. IsFiniteSet(1..Len(s)) /\ IsFiniteSet(1..k) /\ IsFiniteSet((Len(s) + 1)..(Len(s) + k))
      BY <1>1, FS_Interval
    <3> QED BY <3>1, FS_Subset
  <2>3. Cardinality(B) = Cardinality(C)
    <3>1. f \in Bijection(B, C)
      <4>1. \A j \in B : Len(s) + j \in C
        BY <1>1
      <4>2. \A j \in C : j - Len(s) \in B /\ j = Len(s) + (j - Len(s))
        <5> SUFFICES ASSUME NEW j \in C PROVE j - Len(s) \in B /\ j = Len(s) + (j - Len(s))
          OBVIOUS
        <5>1. j - Len(s) \in 1..Len(t) /\ j - Len(s) \in 1..k /\ j = Len(s) + (j - Len(s))
          BY <1>1
        <5>2. (s \o t)[Len(s) + (j - Len(s))] = t[j - Len(s)]
          BY <1>1, <5>1
        <5> QED BY <5>1, <5>2
      <4>3. f \in [B -> C]
        BY <4>1
      <4>4. \A a, b \in B : f[a] = f[b] => a = b
        BY <1>1
      <4>5. \A c \in C : \E b \in B : f[b] = c
        <5> SUFFICES ASSUME NEW c \in C PROVE \E b \in B : f[b] = c
          OBVIOUS
        <5>1. c - Len(s) \in B /\ f[c - Len(s)] = c
          BY <4>2
        <5> QED BY <5>1
      <4> HIDE DEF f, B, C
      <4> QED BY <4>3, <4>4, <4>5 DEF Bijection, Injection, Surjection, IsInjective
    <3> HIDE DEF f, B, C
    <3>2. ExistsBijection(B, C)
      BY <3>1 DEF ExistsBijection
    <3> QED BY <2>2, <3>2, FS_Bijection
  <2>4. Cardinality(A \cup C) = Cardinality(A) + Cardinality(C)
    <3> HIDE DEF A, C
    <3>1. Cardinality(A \cap C) = 0
      BY <2>1, FS_EmptySet
    <3>2. Cardinality(A \cup C) = Cardinality(A) + Cardinality(C) - Cardinality(A \cap C)
      BY <2>2, FS_Union
    <3>3. Cardinality(A) \in Nat /\ Cardinality(C) \in Nat
      BY <2>2, FS_CardinalityType
    <3> QED BY <3>1, <3>2, <3>3
  <2> QED BY <2>1, <2>3, <2>4 DEF Marks
<1> QED BY <1>2, <1>3

\* The positions of the texts in a rendered prompt, and the texts.
TextAt(s) == {k \in DOMAIN s : s[k] > 0}

TextOf(s) == {s[k] : k \in TextAt(s)}

Goes(ms, a, b) ==
  \/ ms[a].role = "system" /\ ms[b].role # "system"
  \/ (ms[a].role = "system" <=> ms[b].role = "system") /\ a < b

InOrder(ms, s) == \A j, k \in TextAt(s) : j < k => Goes(ms, s[j], s[k])

LEMMA TextAppend ==
  ASSUME NEW s \in Seq(Int), NEW t \in Seq(Int)
  PROVE  /\ s \o t \in Seq(Int) /\ Len(s) \in Nat /\ Len(t) \in Nat
         /\ \A k \in TextAt(s) : k \in TextAt(s \o t) /\ (s \o t)[k] = s[k]
         /\ \A k \in TextAt(t) : Len(s) + k \in TextAt(s \o t) /\ (s \o t)[Len(s) + k] = t[k]
         /\ \A k \in TextAt(s \o t) : \/ k \in TextAt(s)
                                      \/ k > Len(s) /\ k - Len(s) \in TextAt(t)
<1>1. /\ Len(s) \in Nat /\ DOMAIN s = 1..Len(s)
      /\ Len(t) \in Nat /\ DOMAIN t = 1..Len(t)
  BY LenProperties
<1>2. /\ s \o t \in Seq(Int) /\ DOMAIN (s \o t) = 1..(Len(s) + Len(t))
      /\ \A j \in 1..Len(s) : (s \o t)[j] = s[j]
      /\ \A j \in 1..Len(t) : (s \o t)[Len(s) + j] = t[j]
  <2>1. s \o t \in Seq(Int) /\ Len(s \o t) = Len(s) + Len(t)
    BY ConcatProperties
  <2>2. DOMAIN (s \o t) = 1..(Len(s) + Len(t))
    BY <2>1, LenProperties
  <2> QED BY <1>1, <2>1, <2>2, ConcatProperties
<1>3. \A k \in TextAt(s) : k \in TextAt(s \o t) /\ (s \o t)[k] = s[k]
  BY <1>1, <1>2 DEF TextAt
<1>4. \A k \in TextAt(t) : Len(s) + k \in TextAt(s \o t) /\ (s \o t)[Len(s) + k] = t[k]
  <2> SUFFICES ASSUME NEW k \in TextAt(t)
               PROVE  Len(s) + k \in TextAt(s \o t) /\ (s \o t)[Len(s) + k] = t[k]
    OBVIOUS
  <2>1. k \in 1..Len(t) /\ Len(s) + k \in 1..(Len(s) + Len(t)) /\ t[k] > 0
    BY <1>1 DEF TextAt
  <2> QED BY <1>2, <2>1 DEF TextAt
<1>5. ASSUME NEW k \in TextAt(s \o t), k \notin TextAt(s)
      PROVE  k > Len(s) /\ k - Len(s) \in TextAt(t)
  <2>1. k \in 1..(Len(s) + Len(t)) /\ (s \o t)[k] > 0
    BY <1>2 DEF TextAt
  <2>2. k > Len(s)
    BY <1>1, <1>2, <1>5, <2>1 DEF TextAt
  <2>3. k - Len(s) \in 1..Len(t) /\ Len(s) + (k - Len(s)) = k
    BY <1>1, <2>1, <2>2
  <2>4. t[k - Len(s)] = (s \o t)[Len(s) + (k - Len(s))]
    BY <1>2, <2>3
  <2> QED BY <1>1, <2>1, <2>2, <2>3, <2>4 DEF TextAt
<1> QED BY <1>1, <1>2, <1>3, <1>4, <1>5

LEMMA TextOfAppend ==
  ASSUME NEW s \in Seq(Int), NEW t \in Seq(Int)
  PROVE  TextOf(s \o t) = TextOf(s) \cup TextOf(t)
<1>1. \A k \in TextAt(s \o t) : (s \o t)[k] \in TextOf(s) \cup TextOf(t)
  <2> SUFFICES ASSUME NEW k \in TextAt(s \o t) PROVE (s \o t)[k] \in TextOf(s) \cup TextOf(t)
    OBVIOUS
  <2>1. CASE k \in TextAt(s)
    BY <2>1, TextAppend DEF TextOf
  <2>2. CASE k > Len(s) /\ k - Len(s) \in TextAt(t)
    <3>1. Len(s) + (k - Len(s)) = k
      <4>1. k \in Int /\ Len(s) \in Int
        <5>1. s \o t \in Seq(Int) /\ Len(s) \in Nat
          BY TextAppend
        <5>2. DOMAIN (s \o t) = 1..Len(s \o t)
          BY <5>1, LenProperties
        <5> QED BY <5>1, <5>2 DEF TextAt
      <4> QED BY <4>1
    <3>2. (s \o t)[Len(s) + (k - Len(s))] = t[k - Len(s)]
      BY <2>2, TextAppend
    <3> QED BY <2>2, <3>1, <3>2 DEF TextOf
  <2> QED BY <2>1, <2>2, TextAppend
<1>2. TextOf(s) \subseteq TextOf(s \o t)
  <2> SUFFICES ASSUME NEW k \in TextAt(s) PROVE s[k] \in TextOf(s \o t)
    BY DEF TextOf
  <2>1. k \in TextAt(s \o t) /\ (s \o t)[k] = s[k]
    BY TextAppend
  <2> QED BY <2>1 DEF TextOf
<1>3. TextOf(t) \subseteq TextOf(s \o t)
  <2> SUFFICES ASSUME NEW k \in TextAt(t) PROVE t[k] \in TextOf(s \o t)
    BY DEF TextOf
  <2>1. Len(s) + k \in TextAt(s \o t) /\ (s \o t)[Len(s) + k] = t[k]
    BY TextAppend
  <2> QED BY <2>1 DEF TextOf
<1>4. TextOf(s \o t) \subseteq TextOf(s) \cup TextOf(t)
  BY <1>1 DEF TextOf
<1> QED BY <1>2, <1>3, <1>4

\* A later piece whose texts go after the earlier ones keeps the order.
LEMMA InOrderAppend ==
  ASSUME NEW ms, NEW s \in Seq(Int), NEW t \in Seq(Int), InOrder(ms, s), InOrder(ms, t),
         \A a \in TextOf(s), b \in TextOf(t) : Goes(ms, a, b)
  PROVE  InOrder(ms, s \o t)
<1> SUFFICES ASSUME NEW j \in TextAt(s \o t), NEW k \in TextAt(s \o t), j < k
             PROVE  Goes(ms, (s \o t)[j], (s \o t)[k])
  BY DEF InOrder
<1>1. j \in Nat /\ k \in Nat /\ Len(s) \in Nat
  <2>1. s \o t \in Seq(Int) /\ Len(s) \in Nat
    BY TextAppend
  <2>2. DOMAIN (s \o t) = 1..Len(s \o t)
    BY <2>1, LenProperties
  <2> QED BY <2>1, <2>2 DEF TextAt
<1>2. \A i \in TextAt(s) : i <= Len(s)
  BY LenProperties DEF TextAt
<1>3. \A i \in Nat : i > Len(s) /\ i - Len(s) \in TextAt(t) => (s \o t)[i] = t[i - Len(s)]
  <2> SUFFICES ASSUME NEW i \in Nat, i > Len(s), i - Len(s) \in TextAt(t)
               PROVE  (s \o t)[i] = t[i - Len(s)]
    OBVIOUS
  <2>1. Len(s) + (i - Len(s)) = i
    BY <1>1
  <2>2. (s \o t)[Len(s) + (i - Len(s))] = t[i - Len(s)]
    BY TextAppend
  <2> QED BY <2>1, <2>2
<1>4. CASE j \in TextAt(s) /\ k \in TextAt(s)
  <2>1. Goes(ms, s[j], s[k])
    BY <1>4 DEF InOrder
  <2>2. (s \o t)[j] = s[j] /\ (s \o t)[k] = s[k]
    BY <1>4, TextAppend
  <2> QED BY <2>1, <2>2
<1>5. CASE j \in TextAt(s) /\ k > Len(s) /\ k - Len(s) \in TextAt(t)
  <2>1. s[j] \in TextOf(s) /\ t[k - Len(s)] \in TextOf(t)
    BY <1>5 DEF TextOf
  <2>2. (s \o t)[j] = s[j]
    BY <1>5, TextAppend
  <2>3. (s \o t)[k] = t[k - Len(s)]
    BY <1>1, <1>3, <1>5
  <2> QED BY <2>1, <2>2, <2>3
<1>6. CASE /\ j > Len(s) /\ j - Len(s) \in TextAt(t)
           /\ k > Len(s) /\ k - Len(s) \in TextAt(t)
  <2>1. Goes(ms, t[j - Len(s)], t[k - Len(s)])
    <3>1. j - Len(s) < k - Len(s)
      BY <1>1
    <3> QED BY <1>6, <3>1 DEF InOrder
  <2>2. (s \o t)[j] = t[j - Len(s)] /\ (s \o t)[k] = t[k - Len(s)]
    BY <1>1, <1>3, <1>6
  <2> QED BY <2>1, <2>2
<1>7. ~(k \in TextAt(s) /\ j > Len(s))
  BY <1>1, <1>2
<1>8. /\ j \in TextAt(s) \/ (j > Len(s) /\ j - Len(s) \in TextAt(t))
      /\ k \in TextAt(s) \/ (k > Len(s) /\ k - Len(s) \in TextAt(t))
  BY TextAppend
<1> QED BY <1>4, <1>5, <1>6, <1>7, <1>8

Says(ms, i) == ms[i].content = "text"

System(ms) == {i \in DOMAIN ms : ms[i].role = "system" /\ Says(ms, i)}

LEMMA SaidIs ==
  ASSUME NEW ms, NEW i \in Nat \ {0}
  PROVE  /\ Said(ms, i) \in Seq(Int) /\ \A k \in DOMAIN Said(ms, i) : Said(ms, i)[k] > 0
         /\ TextOf(Said(ms, i)) = IF Says(ms, i) THEN {i} ELSE {}
         /\ InOrder(ms, Said(ms, i))
<1>1. CASE Says(ms, i)
  <2>1. Said(ms, i) = <<i>>
    BY <1>1 DEF Said, Says
  <2>2. TextAt(<<i>>) = {1}
    BY DEF TextAt
  <2>3. TextOf(<<i>>) = {i}
    BY <2>2 DEF TextOf
  <2>4. InOrder(ms, <<i>>)
    BY <2>2 DEF InOrder
  <2> QED BY <1>1, <2>1, <2>3, <2>4
<1>2. CASE ~Says(ms, i)
  <2>1. Said(ms, i) = <<>>
    BY <1>2 DEF Said, Says
  <2>2. TextAt(<<>>) = {}
    BY DEF TextAt
  <2>3. TextOf(<<>>) = {}
    BY <2>2 DEF TextOf
  <2>4. InOrder(ms, <<>>)
    BY <2>2 DEF InOrder
  <2> QED BY <1>2, <2>1, <2>3, <2>4
<1> QED BY <1>1, <1>2

\* A sequence of texts only.
AllText(s) == s \in Seq(Int) /\ \A k \in DOMAIN s : s[k] > 0

LEMMA AllTextAppend ==
  ASSUME NEW s, NEW t, AllText(s), AllText(t)
  PROVE  AllText(s \o t)
<1>1. s \in Seq(Int) /\ t \in Seq(Int) /\ TextAt(s) = DOMAIN s /\ TextAt(t) = DOMAIN t
  BY DEF AllText, TextAt
<1>2. s \o t \in Seq(Int) /\ DOMAIN (s \o t) = 1..(Len(s) + Len(t))
  <2>1. s \o t \in Seq(Int) /\ Len(s \o t) = Len(s) + Len(t)
    BY <1>1, ConcatProperties
  <2> QED BY <2>1, LenProperties
<1>3. Len(s) \in Nat /\ Len(t) \in Nat /\ DOMAIN s = 1..Len(s) /\ DOMAIN t = 1..Len(t)
  BY <1>1, LenProperties
<1>4. ASSUME NEW k \in 1..(Len(s) + Len(t)) PROVE (s \o t)[k] > 0
  <2>1. (s \o t)[k] = IF k <= Len(s) THEN s[k] ELSE t[k - Len(s)]
    BY <1>1, ConcatProperties
  <2>2. k <= Len(s) => s[k] > 0
    BY <1>3 DEF AllText
  <2>3. ~(k <= Len(s)) => t[k - Len(s)] > 0
    <3>1. ~(k <= Len(s)) => k - Len(s) \in DOMAIN t
      BY <1>3
    <3> QED BY <3>1 DEF AllText
  <2> QED BY <2>1, <2>2, <2>3
<1> QED BY <1>2, <1>4 DEF AllText

\* The system's parts are its texts, in their order.
LEMMA SystemPartsAre ==
  ASSUME NEW M, NEW ms \in Seq(M)
  PROVE  /\ AllText(SystemParts(ms)) /\ TextOf(SystemParts(ms)) = System(ms)
         /\ InOrder(ms, SystemParts(ms))
<1> DEFINE n == Len(ms)
           piece(i) == IF i \in Turns(ms) THEN <<>> ELSE Said(ms, i)
           seqs == [i \in DOMAIN ms |-> piece(i)]
<1>1. n \in Nat /\ DOMAIN ms = 1..n
  BY LenProperties
<1>2. \A i \in 1..n : piece(i) \in Seq(Int)
  BY SaidIs
<1>3. seqs \in Seq(Seq(Int)) /\ Len(seqs) = n /\ \A i \in 1..n : seqs[i] = piece(i)
  <2>1. seqs \in [1..n -> Seq(Int)]
    BY <1>1, <1>2
  <2> QED BY <1>1, <2>1
<1>4. SystemParts(ms) = FlattenSeq(seqs)
  BY DEF SystemParts
<1> HIDE DEF seqs
<1>5. PICK out : /\ out[0] = <<>> /\ FlattenSeq(seqs) = out[n]
                 /\ \A i \in 1..n : out[i] = out[i - 1] \o seqs[i]
                 /\ \A i \in 0..n : out[i] \in Seq(Int)
  BY <1>3, FlattenSteps
<1> DEFINE upto(i) == {j \in 1..i : ms[j].role = "system" /\ Says(ms, j)}
           P(i) == /\ AllText(out[i]) /\ TextOf(out[i]) = upto(i)
                   /\ InOrder(ms, out[i])
           F == {i \in Nat : i <= n => P(i)}
<1>6. P(0)
  <2>1. AllText(<<>>)
    BY DEF AllText
  <2>2. TextAt(<<>>) = {}
    BY DEF TextAt
  <2>3. TextOf(<<>>) = {} /\ InOrder(ms, <<>>)
    BY <2>2 DEF TextOf, InOrder
  <2>4. upto(0) = {}
    OBVIOUS
  <2> QED BY <1>5, <2>1, <2>3, <2>4
<1>7. ASSUME NEW i \in 1..n, P(i - 1) PROVE P(i)
  <2>1. out[i] = out[i - 1] \o piece(i)
    BY <1>3, <1>5
  <2>2. CASE i \in Turns(ms)
    <3>1. out[i] = out[i - 1]
      <4>1. out[i - 1] \in Seq(Int)
        BY <1>7 DEF AllText
      <4> QED BY <2>1, <2>2, <4>1, ConcatEmptySeq
    <3>2. upto(i) = upto(i - 1)
      BY <1>1, <2>2 DEF Turns
    <3> HIDE DEF upto
    <3> QED BY <1>7, <3>1, <3>2
  <2>3. CASE i \notin Turns(ms)
    <3>1. out[i] = out[i - 1] \o Said(ms, i) /\ ms[i].role = "system"
      BY <1>1, <2>1, <2>3 DEF Turns
    <3>2. /\ Said(ms, i) \in Seq(Int) /\ AllText(Said(ms, i))
          /\ TextOf(Said(ms, i)) = (IF Says(ms, i) THEN {i} ELSE {})
          /\ InOrder(ms, Said(ms, i))
      BY <1>1, SaidIs DEF AllText
    <3>3. AllText(out[i]) /\ out[i - 1] \in Seq(Int)
      BY <1>7, <3>1, <3>2, AllTextAppend DEF AllText
    <3>4. TextOf(out[i]) = TextOf(out[i - 1]) \cup TextOf(Said(ms, i))
      BY <3>1, <3>2, <3>3, TextOfAppend
    <3>5. upto(i) = upto(i - 1) \cup (IF Says(ms, i) THEN {i} ELSE {})
      BY <1>1, <3>1
    <3>6. \A a \in TextOf(out[i - 1]), b \in TextOf(Said(ms, i)) : Goes(ms, a, b)
      <4> SUFFICES ASSUME NEW a \in upto(i - 1) PROVE Goes(ms, a, i)
        BY <1>7, <3>2
      <4>1. a < i /\ ms[a].role = "system"
        BY <1>1
      <4> QED BY <3>1, <4>1 DEF Goes
    <3>7. InOrder(ms, out[i])
      <4>1. InOrder(ms, out[i - 1])
        BY <1>7
      <4> QED BY <3>1, <3>2, <3>3, <3>6, <4>1, InOrderAppend
    <3>8. TextOf(out[i - 1]) = upto(i - 1)
      BY <1>7
    <3>9. TextOf(out[i]) = upto(i)
      <4> HIDE DEF upto
      <4> QED BY <3>2, <3>4, <3>5, <3>8
    <3> QED BY <3>3, <3>7, <3>9
  <2> QED BY <2>2, <2>3
<1>8. Nat \subseteq F
  <2>1. 0 \in F
    <3> HIDE DEF P
    <3> QED BY <1>6
  <2>2. ASSUME NEW i \in Nat, i \in F PROVE i + 1 \in F
    <3> SUFFICES ASSUME i + 1 <= n PROVE P(i + 1)
      OBVIOUS
    <3>1. P(i) /\ i + 1 \in 1..n /\ (i + 1) - 1 = i
      <4> HIDE DEF P
      <4> QED BY <1>1, <2>2
    <3> HIDE DEF P
    <3>2. P((i + 1) - 1)
      BY <3>1
    <3> QED BY <1>7, <3>1, <3>2
  <2> HIDE DEF F
  <2> QED BY <2>1, <2>2, NatSetInduction
<1>9. P(n)
  <2>1. n \in F
    BY <1>1, <1>8
  <2> HIDE DEF P
  <2> QED BY <1>1, <2>1
<1>10. upto(n) = System(ms)
  BY <1>1 DEF System
<1> QED BY <1>4, <1>5, <1>9, <1>10

Users(ms, i) == Cardinality({j \in 1..i : ms[j].role = "user"})

\* The next message is the next turn, and the next user turn, or it is not.
LEMMA TurnSteps ==
  ASSUME NEW M, NEW ms \in Seq(M)
  PROVE  /\ TurnOf(ms, 0) = 0 /\ Users(ms, 0) = 0
         /\ \A i \in 0..Len(ms) : TurnOf(ms, i) \in Nat /\ Users(ms, i) \in Nat
         /\ \A i \in 1..Len(ms) :
              /\ TurnOf(ms, i) = TurnOf(ms, i - 1) + (IF i \in Turns(ms) THEN 1 ELSE 0)
              /\ Users(ms, i) = Users(ms, i - 1) + (IF ms[i].role = "user" THEN 1 ELSE 0)
<1> DEFINE n == Len(ms)
           T(i) == {j \in Turns(ms) : j <= i}
           U(i) == {j \in 1..i : ms[j].role = "user"}
<1>1. n \in Nat /\ Turns(ms) \subseteq 1..n
  <2>1. n \in Nat /\ DOMAIN ms = 1..n
    BY LenProperties
  <2> QED BY <2>1 DEF Turns
<1>2. T(0) = {} /\ U(0) = {}
  BY <1>1
<1>3. \A i \in 0..n : IsFiniteSet(T(i)) /\ IsFiniteSet(U(i))
  <2> SUFFICES ASSUME NEW i \in 0..n PROVE IsFiniteSet(T(i)) /\ IsFiniteSet(U(i))
    OBVIOUS
  <2>1. IsFiniteSet(1..n) /\ IsFiniteSet(1..i)
    BY <1>1, FS_Interval
  <2>2. T(i) \subseteq 1..n
    BY <1>1
  <2>3. U(i) \subseteq 1..i
    OBVIOUS
  <2> QED BY <2>1, <2>2, <2>3, FS_Subset
<1>4. ASSUME NEW i \in 1..n
      PROVE  /\ TurnOf(ms, i) = TurnOf(ms, i - 1) + (IF i \in Turns(ms) THEN 1 ELSE 0)
             /\ Users(ms, i) = Users(ms, i - 1) + (IF ms[i].role = "user" THEN 1 ELSE 0)
  <2>1. T(i) = T(i - 1) \cup (IF i \in Turns(ms) THEN {i} ELSE {}) /\ i \notin T(i - 1)
    BY <1>1
  <2>2. U(i) = U(i - 1) \cup (IF ms[i].role = "user" THEN {i} ELSE {}) /\ i \notin U(i - 1)
    BY <1>1
  <2>3. IsFiniteSet(T(i - 1)) /\ IsFiniteSet(U(i - 1)) /\ i - 1 \in 0..n
    <3>1. i - 1 \in 0..n
      BY <1>1
    <3> HIDE DEF T, U, n
    <3> QED BY <1>3, <3>1
  <2> HIDE DEF T, U
  <2>4. Cardinality(T(i - 1)) \in Nat /\ Cardinality(U(i - 1)) \in Nat
    BY <2>3, FS_CardinalityType
  <2>5. Cardinality(T(i)) = Cardinality(T(i - 1)) + (IF i \in Turns(ms) THEN 1 ELSE 0)
    <3>1. CASE i \in Turns(ms)
      BY <2>1, <2>3, <3>1, FS_AddElement
    <3>2. CASE i \notin Turns(ms)
      <4>1. T(i) = T(i - 1)
        BY <2>1, <3>2
      <4> QED BY <2>4, <3>2, <4>1
    <3> QED BY <3>1, <3>2
  <2>6. Cardinality(U(i)) = Cardinality(U(i - 1)) + (IF ms[i].role = "user" THEN 1 ELSE 0)
    <3>1. CASE ms[i].role = "user"
      BY <2>2, <2>3, <3>1, FS_AddElement
    <3>2. CASE ms[i].role # "user"
      <4>1. U(i) = U(i - 1)
        BY <2>2, <3>2
      <4> QED BY <2>4, <3>2, <4>1
    <3> QED BY <3>1, <3>2
  <2> QED BY <2>5, <2>6 DEF TurnOf, Users, T, U
<1>5. \A i \in 0..n : TurnOf(ms, i) \in Nat /\ Users(ms, i) \in Nat
  BY <1>3, FS_CardinalityType DEF TurnOf, Users
<1>6. TurnOf(ms, 0) = 0 /\ Users(ms, 0) = 0
  BY <1>2, FS_EmptySet DEF TurnOf, Users
<1> QED BY <1>4, <1>5, <1>6

\* When the turns alternate, every other turn is the user's.
LEMMA UsersAlternate ==
  ASSUME NEW M, NEW ms \in Seq(M), Alternates(ms)
  PROVE  \A i \in 0..Len(ms) : 2 * Users(ms, i) = TurnOf(ms, i) + (TurnOf(ms, i) % 2)
<1> DEFINE n == Len(ms)
           P(i) == 2 * Users(ms, i) = TurnOf(ms, i) + (TurnOf(ms, i) % 2)
           F == {i \in Nat : i <= n => P(i)}
<1>1. n \in Nat /\ DOMAIN ms = 1..n
  BY LenProperties
<1>2. P(0)
  BY TurnSteps
<1>3. ASSUME NEW i \in 1..n, P(i - 1) PROVE P(i)
  <2>1. /\ TurnOf(ms, i) = TurnOf(ms, i - 1) + (IF i \in Turns(ms) THEN 1 ELSE 0)
        /\ Users(ms, i) = Users(ms, i - 1) + (IF ms[i].role = "user" THEN 1 ELSE 0)
        /\ TurnOf(ms, i - 1) \in Nat /\ Users(ms, i - 1) \in Nat
    <3>1. i - 1 \in 0..n
      BY <1>1
    <3> QED BY <3>1, TurnSteps
  <2>2. CASE i \notin Turns(ms)
    <3>1. ms[i].role # "user"
      BY <1>1, <2>2 DEF Turns
    <3> QED BY <1>3, <2>1, <2>2, <3>1
  <2>3. CASE i \in Turns(ms)
    <3>1. ms[i].role = IF TurnOf(ms, i) % 2 = 1 THEN "user" ELSE "assistant"
      BY <2>3 DEF Alternates
    <3>2. ms[i].role = "user" <=> TurnOf(ms, i) % 2 = 1
      BY <3>1
    <3> QED BY <1>3, <2>1, <2>3, <3>2
  <2> QED BY <2>2, <2>3
<1>4. Nat \subseteq F
  <2> HIDE DEF P
  <2>1. 0 \in F
    BY <1>2
  <2>2. ASSUME NEW i \in Nat, i \in F PROVE i + 1 \in F
    <3> SUFFICES ASSUME i + 1 <= n PROVE P(i + 1)
      OBVIOUS
    <3>1. P(i) /\ i + 1 \in 1..n /\ (i + 1) - 1 = i
      BY <1>1, <2>2
    <3>2. P((i + 1) - 1)
      BY <3>1
    <3> QED BY <1>3, <3>1, <3>2
  <2> HIDE DEF F
  <2> QED BY <2>1, <2>2, NatSetInduction
<1>5. \A i \in 0..n : P(i)
  <2> HIDE DEF P
  <2> QED BY <1>1, <1>4
<1> QED BY <1>5

LEMMA NoMark ==
  ASSUME NEW s, NEW k, NEW x, \A j \in 1..k : s[j] # x
  PROVE  Marks(s, k, x) = 0
<1>1. {j \in 1..k : s[j] = x} = {}
  OBVIOUS
<1> QED BY <1>1, FS_EmptySet DEF Marks

LEMMA OneMark ==
  ASSUME NEW s, NEW k, NEW x, NEW m \in 1..k, \A j \in 1..k : s[j] = x <=> j = m
  PROVE  Marks(s, k, x) = 1
<1>1. {j \in 1..k : s[j] = x} = {m}
  OBVIOUS
<1> QED BY <1>1, FS_Singleton DEF Marks

\* What the code appends for one turn: texts, between a pair of marks (opens = 1) or
\* before an EOS (opens = 0).
TurnPiece(ms, p, texts, opens) ==
  /\ p \in Seq(Int) /\ Len(p) \in Nat /\ Len(p) >= 1
  /\ TextOf(p) = texts /\ InOrder(ms, p)
  /\ \A k \in TextAt(p) : /\ Marks(p, k - 1, InstOpen) = opens
                          /\ Marks(p, k - 1, InstClose) = 0 /\ Marks(p, k - 1, EOS) = 0
  /\ Marks(p, Len(p), InstOpen) = opens /\ Marks(p, Len(p), InstClose) = opens
  /\ Marks(p, Len(p), EOS) = 1 - opens
  /\ p[Len(p)] = IF opens = 1 THEN InstClose ELSE EOS
  /\ opens = 1 => p[1] = InstOpen

\* A user's turn: texts w between the two marks.
LEMMA PairIs ==
  ASSUME NEW ms, NEW w, AllText(w), InOrder(ms, w),
         NEW p, p = <<InstOpen>> \o w \o <<InstClose>>
  PROVE  TurnPiece(ms, p, TextOf(w), 1)
<1> DEFINE n == Len(w)
<1>1. w \in Seq(Int) /\ n \in Nat /\ DOMAIN w = 1..n /\ \A k \in 1..n : w[k] \in Int /\ w[k] > 0
  <2>1. w \in Seq(Int)
    BY DEF AllText
  <2>2. n \in Nat /\ DOMAIN w = 1..n
    BY <2>1, LenProperties
  <2>3. \A k \in 1..n : w[k] \in Int
    BY <2>1, ElementOfSeq
  <2> QED BY <2>1, <2>2, <2>3 DEF AllText
<1>2. /\ <<InstOpen>> \in Seq(Int) /\ <<InstClose>> \in Seq(Int)
      /\ Len(<<InstOpen>>) = 1 /\ Len(<<InstClose>>) = 1
      /\ <<InstOpen>>[1] = -1 /\ <<InstClose>>[1] = -2
  BY DEF InstOpen, InstClose
<1> DEFINE v == <<InstOpen>> \o w
<1>3. v \in Seq(Int) /\ Len(v) = n + 1 /\ v[1] = -1 /\ \A k \in 1..n : v[k + 1] = w[k]
  <2>1. v \in Seq(Int) /\ Len(v) = 1 + n
    BY <1>1, <1>2, ConcatProperties
  <2>2. \A k \in 1..(1 + n) : v[k] = IF k <= 1 THEN <<InstOpen>>[k] ELSE w[k - 1]
    BY <1>1, <1>2, ConcatProperties
  <2>3. \A k \in 1..n : k + 1 \in 1..(1 + n) /\ ~(k + 1 <= 1) /\ (k + 1) - 1 = k
    BY <1>1
  <2> HIDE DEF v
  <2>4. \A k \in 1..n : v[k + 1] = w[k]
    BY <1>1, <2>2, <2>3
  <2> QED BY <1>1, <1>2, <2>1, <2>2, <2>4
<1>4. p = v \o <<InstClose>>
  OBVIOUS
<1> HIDE DEF v
<1>5. p \in Seq(Int) /\ Len(p) = n + 2 /\ DOMAIN p = 1..(n + 2)
      /\ p[1] = -1 /\ p[n + 2] = -2 /\ \A k \in 1..n : p[k + 1] = w[k]
  <2>1. p \in Seq(Int) /\ Len(p) = n + 2
    BY <1>1, <1>2, <1>3, <1>4, ConcatProperties
  <2>2. \A k \in 1..((n + 1) + 1) : p[k] = IF k <= n + 1 THEN v[k] ELSE <<InstClose>>[k - (n + 1)]
    BY <1>1, <1>2, <1>3, <1>4, ConcatProperties
  <2>3. p[1] = -1 /\ p[n + 2] = -2
    <3>1. (n + 2) - (n + 1) = 1 /\ 1 <= n + 1 /\ ~(n + 2 <= n + 1) /\ n + 2 \in 1..((n + 1) + 1) /\ 1 \in 1..((n + 1) + 1)
      BY <1>1
    <3>2. p[1] = v[1]
      BY <2>2, <3>1
    <3>3. p[n + 2] = <<InstClose>>[(n + 2) - (n + 1)]
      BY <2>2, <3>1
    <3> QED BY <1>2, <1>3, <3>1, <3>2, <3>3
  <2>4. \A k \in 1..n : p[k + 1] = w[k]
    <3>1. \A k \in 1..n : k + 1 \in 1..((n + 1) + 1) /\ k + 1 <= n + 1
      BY <1>1
    <3> QED BY <1>3, <2>2, <3>1
  <2> QED BY <2>1, <2>3, <2>4, LenProperties
<1>6. /\ \A k \in TextAt(p) : k - 1 \in 1..n /\ p[k] = w[k - 1] /\ k \in Int
      /\ \A k \in 1..n : k + 1 \in TextAt(p) /\ p[k + 1] = w[k]
  <2>1. ASSUME NEW k \in TextAt(p) PROVE k - 1 \in 1..n /\ p[k] = w[k - 1] /\ k \in Int
    <3>1. k \in 1..(n + 2) /\ p[k] > 0
      BY <1>5 DEF TextAt
    <3>2. k # 1 /\ k # n + 2
      BY <1>5, <3>1
    <3>3. k - 1 \in 1..n /\ (k - 1) + 1 = k
      BY <1>1, <3>1, <3>2
    <3>4. p[(k - 1) + 1] = w[k - 1]
      BY <1>5, <3>3
    <3> QED BY <3>1, <3>3, <3>4
  <2>2. ASSUME NEW k \in 1..n PROVE k + 1 \in TextAt(p) /\ p[k + 1] = w[k]
    <3>1. k + 1 \in 1..(n + 2)
      BY <1>1
    <3> QED BY <1>1, <1>5, <3>1 DEF TextAt
  <2> QED BY <2>1, <2>2
<1>7. TextAt(w) = 1..n
  BY <1>1 DEF TextAt
<1>8. TextOf(p) = TextOf(w)
  <2>1. \A k \in TextAt(p) : p[k] \in TextOf(w)
    BY <1>6, <1>7 DEF TextOf
  <2>2. \A k \in TextAt(w) : w[k] \in TextOf(p)
    BY <1>6, <1>7 DEF TextOf
  <2> QED BY <2>1, <2>2 DEF TextOf
<1>9. InOrder(ms, p)
  <2> SUFFICES ASSUME NEW j \in TextAt(p), NEW k \in TextAt(p), j < k PROVE Goes(ms, p[j], p[k])
    BY DEF InOrder
  <2>1. j - 1 \in TextAt(w) /\ k - 1 \in TextAt(w) /\ j - 1 < k - 1
    BY <1>6, <1>7
  <2>2. Goes(ms, w[j - 1], w[k - 1])
    BY <2>1 DEF InOrder
  <2> QED BY <1>6, <2>2
<1>10. \A k \in 1..(n + 2) : /\ (p[k] = -1 <=> k = 1) /\ (p[k] = -2 <=> k = n + 2) /\ p[k] # -3
  <2> SUFFICES ASSUME NEW k \in 1..(n + 2)
               PROVE  (p[k] = -1 <=> k = 1) /\ (p[k] = -2 <=> k = n + 2) /\ p[k] # -3
    OBVIOUS
  <2>1. CASE k = 1
    BY <1>1, <1>5, <2>1
  <2>2. CASE k = n + 2
    BY <1>1, <1>5, <2>2
  <2>3. CASE k # 1 /\ k # n + 2
    <3>1. k - 1 \in 1..n /\ (k - 1) + 1 = k
      BY <1>1, <2>3
    <3>2. p[(k - 1) + 1] = w[k - 1]
      BY <1>5, <3>1
    <3>3. w[k - 1] > 0 /\ w[k - 1] \in Int
      BY <1>1, <3>1
    <3> QED BY <2>3, <3>1, <3>2, <3>3
  <2> QED BY <2>1, <2>2, <2>3
<1>11. \A k \in 1..(n + 1) : /\ Marks(p, k, InstOpen) = 1
                             /\ Marks(p, k, InstClose) = 0 /\ Marks(p, k, EOS) = 0
  <2> SUFFICES ASSUME NEW k \in 1..(n + 1)
               PROVE  /\ Marks(p, k, InstOpen) = 1
                      /\ Marks(p, k, InstClose) = 0 /\ Marks(p, k, EOS) = 0
    OBVIOUS
  <2>1. \A j \in 1..k : (p[j] = -1 <=> j = 1) /\ p[j] # -2 /\ p[j] # -3
    <3>1. \A j \in 1..k : j \in 1..(n + 2) /\ j # n + 2
      BY <1>1
    <3> QED BY <1>10, <3>1
  <2>2. k \in Nat /\ 1 \in 1..k
    BY <1>1
  <2>3. Marks(p, k, InstOpen) = 1
    <3>1. \A j \in 1..k : p[j] = InstOpen <=> j = 1
      BY <2>1 DEF InstOpen
    <3> QED BY <2>2, <3>1, OneMark
  <2>4. Marks(p, k, InstClose) = 0
    <3>1. \A j \in 1..k : p[j] # InstClose
      BY <2>1 DEF InstClose
    <3> QED BY <3>1, NoMark
  <2>5. Marks(p, k, EOS) = 0
    <3>1. \A j \in 1..k : p[j] # EOS
      BY <2>1 DEF EOS
    <3> QED BY <3>1, NoMark
  <2> QED BY <2>3, <2>4, <2>5
<1>12. /\ Marks(p, n + 2, InstOpen) = 1
       /\ Marks(p, n + 2, InstClose) = 1 /\ Marks(p, n + 2, EOS) = 0
  <2>1. n + 2 \in Nat /\ 1 \in 1..(n + 2) /\ n + 2 \in 1..(n + 2)
    BY <1>1
  <2>2. Marks(p, n + 2, InstOpen) = 1
    <3>1. \A j \in 1..(n + 2) : p[j] = InstOpen <=> j = 1
      BY <1>10 DEF InstOpen
    <3> QED BY <2>1, <3>1, OneMark
  <2>3. Marks(p, n + 2, InstClose) = 1
    <3>1. \A j \in 1..(n + 2) : p[j] = InstClose <=> j = n + 2
      BY <1>10 DEF InstClose
    <3> QED BY <2>1, <3>1, OneMark
  <2>4. Marks(p, n + 2, EOS) = 0
    <3>1. \A j \in 1..(n + 2) : p[j] # EOS
      BY <1>10 DEF EOS
    <3> QED BY <3>1, NoMark
  <2> QED BY <2>2, <2>3, <2>4
<1>13. \A k \in TextAt(p) : /\ Marks(p, k - 1, InstOpen) = 1
                            /\ Marks(p, k - 1, InstClose) = 0 /\ Marks(p, k - 1, EOS) = 0
  <2> SUFFICES ASSUME NEW k \in TextAt(p) PROVE k - 1 \in 1..(n + 1)
    BY <1>11
  <2> QED BY <1>1, <1>6
<1>14. p[1] = InstOpen /\ p[Len(p)] = InstClose /\ Len(p) \in Nat /\ Len(p) >= 1
  BY <1>1, <1>5 DEF InstOpen, InstClose
<1>15. /\ Marks(p, Len(p), InstOpen) = 1 /\ Marks(p, Len(p), InstClose) = 1
       /\ Marks(p, Len(p), EOS) = 1 - 1
  <2>1. Len(p) = n + 2
    BY <1>5
  <2>2. 1 - 1 = 0
    OBVIOUS
  <2> HIDE DEF n
  <2> QED BY <1>12, <2>1, <2>2
<1> QED BY <1>5, <1>8, <1>9, <1>13, <1>14, <1>15 DEF TurnPiece

\* An assistant's turn: at most one text, before the mark.
LEMMA ReplyIs ==
  ASSUME NEW ms, NEW i \in Nat \ {0}, NEW p, p = Said(ms, i) \o <<EOS>>
  PROVE  TurnPiece(ms, p, TextOf(Said(ms, i)), 0)
<1>1. CASE Says(ms, i)
  <2>1. Said(ms, i) = <<i>> /\ p = <<i>> \o <<-3>>
    BY <1>1 DEF Said, Says, EOS
  <2>2. /\ p \in Seq(Int) /\ Len(p) = 2 /\ p[1] = i /\ p[2] = -3 /\ DOMAIN p = 1..2
    <3>1. /\ <<i>> \in Seq(Int) /\ Len(<<i>>) = 1 /\ <<i>>[1] = i
          /\ <<-3>> \in Seq(Int) /\ Len(<<-3>>) = 1 /\ <<-3>>[1] = -3
      OBVIOUS
    <3>2. p \in Seq(Int) /\ Len(p) = 2
      BY <2>1, <3>1, ConcatProperties
    <3>3. \A k \in 1..(1 + 1) : p[k] = IF k <= 1 THEN <<i>>[k] ELSE <<-3>>[k - 1]
      BY <2>1, <3>1, ConcatProperties
    <3> QED BY <3>1, <3>2, <3>3, LenProperties
  <2>3. TextAt(p) = {1} /\ TextAt(<<i>>) = {1}
    BY <2>2 DEF TextAt
  <2>4. TextOf(p) = {i} /\ TextOf(<<i>>) = {i} /\ InOrder(ms, p)
    BY <2>2, <2>3 DEF TextOf, InOrder
  <2>5. /\ \A x : {j \in 1..0 : p[j] = x} = {}
        /\ {j \in 1..2 : p[j] = -1} = {} /\ {j \in 1..2 : p[j] = -2} = {} /\ {j \in 1..2 : p[j] = -3} = {2}
    <3>1. 1..2 = {1, 2} /\ i # -1 /\ i # -2 /\ i # -3
      OBVIOUS
    <3> QED BY <2>2, <3>1
  <2>6. \A x : Marks(p, 0, x) = 0
    BY <2>5, FS_EmptySet DEF Marks
  <2>7. Marks(p, 2, InstOpen) = 0 /\ Marks(p, 2, InstClose) = 0 /\ Marks(p, 2, EOS) = 1
    BY <2>5, FS_EmptySet, FS_Singleton DEF Marks, InstOpen, InstClose, EOS
  <2> HIDE DEF Marks
  <2>8. \A k \in TextAt(p) : k - 1 = 0
    BY <2>3
  <2>9. p[Len(p)] = EOS
    BY <2>2 DEF EOS
  <2>10. p \in Seq(Int) /\ Len(p) \in Nat /\ Len(p) >= 1
    BY <2>2
  <2>11. TextOf(p) = TextOf(Said(ms, i))
    BY <2>1, <2>4
  <2>12. \A k \in TextAt(p) : \A x : Marks(p, k - 1, x) = 0
    BY <2>6, <2>8
  <2>13. /\ Marks(p, Len(p), InstOpen) = 0
         /\ Marks(p, Len(p), InstClose) = 0 /\ Marks(p, Len(p), EOS) = 1 - 0
    BY <2>2, <2>7
  <2> QED BY <2>4, <2>9, <2>10, <2>11, <2>12, <2>13 DEF TurnPiece
<1>2. CASE ~Says(ms, i)
  <2>1. Said(ms, i) = <<>> /\ p = <<-3>>
    BY <1>2 DEF Said, Says, EOS
  <2>2. /\ p \in Seq(Int) /\ Len(p) = 1 /\ p[1] = -3 /\ DOMAIN p = 1..1
    BY <2>1
  <2>3. TextAt(p) = {} /\ TextAt(<<>>) = {}
    BY <2>2 DEF TextAt
  <2>4. TextOf(p) = {} /\ TextOf(<<>>) = {} /\ InOrder(ms, p)
    BY <2>2, <2>3 DEF TextOf, InOrder
  <2>5. {j \in 1..1 : p[j] = -1} = {} /\ {j \in 1..1 : p[j] = -2} = {} /\ {j \in 1..1 : p[j] = -3} = {1}
    <3>1. 1..1 = {1}
      OBVIOUS
    <3> QED BY <2>2, <3>1
  <2>6. Marks(p, 1, InstOpen) = 0 /\ Marks(p, 1, InstClose) = 0 /\ Marks(p, 1, EOS) = 1
    BY <2>5, FS_EmptySet, FS_Singleton DEF Marks, InstOpen, InstClose, EOS
  <2>7. p[Len(p)] = EOS
    BY <2>2 DEF EOS
  <2>8. \A k \in TextAt(p) : FALSE
    BY <2>3
  <2>9. p \in Seq(Int) /\ Len(p) \in Nat /\ Len(p) >= 1
    BY <2>2
  <2>10. TextOf(p) = TextOf(Said(ms, i))
    BY <2>1, <2>4
  <2>11. /\ Marks(p, Len(p), InstOpen) = 0
         /\ Marks(p, Len(p), InstClose) = 0 /\ Marks(p, Len(p), EOS) = 1 - 0
    BY <2>2, <2>6
  <2> QED BY <2>4, <2>7, <2>8, <2>9, <2>10, <2>11 DEF TurnPiece
<1> QED BY <1>1, <1>2

\* Each text of s is in the turn of its message, where m marks of each kind are before s.
PlacedAfter(ms, s, opened, closed, ended) ==
  \A k \in TextAt(s) :
    LET turn == IF ms[s[k]].role = "system" THEN 1 ELSE Users(ms, s[k])
    IN /\ opened + Marks(s, k - 1, InstOpen) = turn
       /\ ended + Marks(s, k - 1, EOS) = turn - 1
       /\ closed + Marks(s, k - 1, InstClose) = IF ms[s[k]].role = "assistant" THEN turn ELSE turn - 1

Placed(ms, s) == PlacedAfter(ms, s, 0, 0, 0)

LEMMA MarksType == \A s, x : \A k \in Nat : Marks(s, k, x) \in Nat
<1> SUFFICES ASSUME NEW s, NEW x, NEW k \in Nat PROVE Marks(s, k, x) \in Nat
  OBVIOUS
<1>1. IsFiniteSet(1..k)
  BY FS_Interval
<1>2. IsFiniteSet({j \in 1..k : s[j] = x})
  BY <1>1, FS_Subset
<1> QED BY <1>2, FS_CardinalityType DEF Marks

LEMMA PlacedAppend ==
  ASSUME NEW ms, NEW s \in Seq(Int), NEW t \in Seq(Int), Placed(ms, s),
         PlacedAfter(ms, t, Marks(s, Len(s), InstOpen), Marks(s, Len(s), InstClose),
                            Marks(s, Len(s), EOS))
  PROVE  Placed(ms, s \o t)
<1> DEFINE turn(i) == IF ms[i].role = "system" THEN 1 ELSE Users(ms, i)
           right(i, o, c, e) == /\ 0 + o = turn(i) /\ 0 + e = turn(i) - 1
                                /\ 0 + c = IF ms[i].role = "assistant" THEN turn(i) ELSE turn(i) - 1
<1> SUFFICES ASSUME NEW k \in TextAt(s \o t)
             PROVE  right((s \o t)[k], Marks(s \o t, k - 1, InstOpen),
                          Marks(s \o t, k - 1, InstClose), Marks(s \o t, k - 1, EOS))
  BY DEF Placed, PlacedAfter
<1>1. Len(s) \in Nat /\ Len(t) \in Nat /\ DOMAIN s = 1..Len(s) /\ DOMAIN t = 1..Len(t)
  BY LenProperties
<1>2. CASE k \in TextAt(s)
  <2>1. (s \o t)[k] = s[k] /\ k - 1 \in 0..Len(s)
    <3>1. k \in 1..Len(s)
      BY <1>1, <1>2 DEF TextAt
    <3> QED BY <1>1, <1>2, <3>1, TextAppend
  <2>2. \A x : Marks(s \o t, k - 1, x) = Marks(s, k - 1, x)
    BY <2>1, MarksAppend
  <2>3. right(s[k], Marks(s, k - 1, InstOpen), Marks(s, k - 1, InstClose), Marks(s, k - 1, EOS))
    BY <1>2 DEF Placed, PlacedAfter
  <2> HIDE DEF right
  <2> QED BY <2>1, <2>2, <2>3
<1>3. CASE k > Len(s) /\ k - Len(s) \in TextAt(t)
  <2> DEFINE l == k - Len(s)
  <2>1. k \in Int /\ l \in 1..Len(t) /\ Len(s) + l = k /\ l - 1 \in 0..Len(t) /\ Len(s) + (l - 1) = k - 1
    <3>1. s \o t \in Seq(Int)
      BY TextAppend
    <3>2. k \in Int
      <4>1. DOMAIN (s \o t) = 1..Len(s \o t) /\ Len(s \o t) \in Nat
        BY <3>1, LenProperties
      <4> QED BY <4>1 DEF TextAt
    <3>3. l \in 1..Len(t)
      BY <1>1, <1>3 DEF TextAt
    <3> QED BY <1>1, <3>2, <3>3
  <2>2. (s \o t)[k] = t[l]
    <3>1. (s \o t)[Len(s) + l] = t[l]
      BY <1>3, TextAppend
    <3> QED BY <2>1, <3>1
  <2>3. \A x : Marks(s \o t, Len(s) + (l - 1), x) = Marks(s, Len(s), x) + Marks(t, l - 1, x)
    BY <2>1, MarksAppend
  <2>4. \A x : Marks(s \o t, k - 1, x) = Marks(s, Len(s), x) + Marks(t, l - 1, x)
    BY <2>1, <2>3
  <2>5. \A x : Marks(s, Len(s), x) \in Nat /\ Marks(t, l - 1, x) \in Nat
    BY <1>1, <2>1, MarksType
  <2>6. /\ Marks(s, Len(s), InstOpen) + Marks(t, l - 1, InstOpen) = turn(t[l])
        /\ Marks(s, Len(s), EOS) + Marks(t, l - 1, EOS) = turn(t[l]) - 1
        /\ Marks(s, Len(s), InstClose) + Marks(t, l - 1, InstClose)
             = IF ms[t[l]].role = "assistant" THEN turn(t[l]) ELSE turn(t[l]) - 1
    BY <1>3 DEF PlacedAfter
  <2> HIDE DEF turn, l
  <2> QED BY <2>2, <2>4, <2>5, <2>6
<1> QED BY <1>2, <1>3, TextAppend

\* What stands in the prompt after the first i messages.
Rendered(ms, s, i) ==
  /\ s \in Seq(Int) /\ Len(s) >= 1
  /\ TextOf(s) = {j \in Turns(ms) : j <= i /\ Says(ms, j)}
                 \cup (IF TurnOf(ms, i) = 0 THEN {} ELSE System(ms))
  /\ InOrder(ms, s) /\ Placed(ms, s)
  /\ Marks(s, Len(s), InstOpen) = Users(ms, i) /\ Marks(s, Len(s), InstClose) = Users(ms, i)
  /\ Marks(s, Len(s), EOS) = TurnOf(ms, i) - Users(ms, i)
  /\ IF TurnOf(ms, i) = 0 THEN s = <<BOS>>
     ELSE /\ Len(s) >= 2 /\ s[2] = InstOpen
          /\ s[Len(s)] = IF TurnOf(ms, i) % 2 = 1 THEN InstClose ELSE EOS

\* What the code adds for a message.
Piece(ms, i) ==
  IF i \notin Turns(ms) THEN <<>>
  ELSE IF TurnOf(ms, i) % 2 = 0 THEN Said(ms, i) \o <<EOS>>
  ELSE <<InstOpen>> \o (IF TurnOf(ms, i) = 1 THEN SystemParts(ms) ELSE <<>>)
         \o Said(ms, i) \o <<InstClose>>

LEMMA UserPieceIs ==
  ASSUME NEW M, NEW ms \in Seq(M), NEW i \in Turns(ms), TurnOf(ms, i) % 2 = 1
  PROVE  \E w : /\ AllText(w) /\ InOrder(ms, w)
                /\ Piece(ms, i) = <<InstOpen>> \o w \o <<InstClose>>
                /\ TextOf(w) = (IF TurnOf(ms, i) = 1 THEN System(ms) ELSE {})
                               \cup (IF Says(ms, i) THEN {i} ELSE {})
<1> DEFINE q == IF TurnOf(ms, i) = 1 THEN SystemParts(ms) ELSE <<>>
           w == q \o Said(ms, i)
<1>1. i \in Nat \ {0} /\ ms[i].role # "system"
  BY LenProperties DEF Turns
<1>2. /\ AllText(q) /\ TextOf(q) = (IF TurnOf(ms, i) = 1 THEN System(ms) ELSE {}) /\ InOrder(ms, q)
  <2>1. CASE TurnOf(ms, i) = 1
    BY <2>1, SystemPartsAre
  <2>2. CASE TurnOf(ms, i) # 1
    <3>1. TextAt(<<>>) = {} /\ AllText(<<>>)
      BY DEF TextAt, AllText
    <3>2. TextOf(<<>>) = {} /\ InOrder(ms, <<>>)
      BY <3>1 DEF TextOf, InOrder
    <3> QED BY <2>2, <3>1, <3>2
  <2> QED BY <2>1, <2>2
<1>3. /\ AllText(Said(ms, i)) /\ TextOf(Said(ms, i)) = (IF Says(ms, i) THEN {i} ELSE {})
      /\ InOrder(ms, Said(ms, i))
  BY <1>1, SaidIs DEF AllText
<1>4. q \in Seq(Int) /\ Said(ms, i) \in Seq(Int)
  BY <1>2, <1>3 DEF AllText
<1> HIDE DEF q
<1>5. AllText(w)
  BY <1>2, <1>3, AllTextAppend
<1>6. \A a \in TextOf(q), b \in TextOf(Said(ms, i)) : Goes(ms, a, b)
  <2> SUFFICES ASSUME NEW a \in System(ms) PROVE Goes(ms, a, i)
    BY <1>2, <1>3
  <2> QED BY <1>1 DEF System, Goes
<1>7. InOrder(ms, w)
  BY <1>2, <1>3, <1>4, <1>6, InOrderAppend
<1>8. TextOf(w) = TextOf(q) \cup TextOf(Said(ms, i))
  BY <1>4, TextOfAppend
<1>9. Piece(ms, i) = ((<<InstOpen>> \o q) \o Said(ms, i)) \o <<InstClose>>
  <2>1. ~(TurnOf(ms, i) % 2 = 0)
    OBVIOUS
  <2> QED BY <2>1 DEF Piece, q
<1>10. (<<InstOpen>> \o q) \o Said(ms, i) = <<InstOpen>> \o w
  <2>1. <<InstOpen>> \in Seq(Int)
    BY DEF InstOpen
  <2> QED BY <1>4, <2>1, ConcatAssociative
<1>11. Piece(ms, i) = (<<InstOpen>> \o w) \o <<InstClose>>
  BY <1>9, <1>10
<1>12. TextOf(w) = (IF TurnOf(ms, i) = 1 THEN System(ms) ELSE {}) \cup (IF Says(ms, i) THEN {i} ELSE {})
  BY <1>2, <1>3, <1>8
<1> HIDE DEF w
<1> QED BY <1>5, <1>7, <1>11, <1>12

LEMMA TurnPieceIs ==
  ASSUME NEW M, NEW ms \in Seq(M), NEW i \in Turns(ms), Alternates(ms), TurnOf(ms, i) \in Nat \ {0}
  PROVE  TurnPiece(ms, Piece(ms, i),
                   (IF TurnOf(ms, i) = 1 THEN System(ms) ELSE {}) \cup (IF Says(ms, i) THEN {i} ELSE {}),
                   TurnOf(ms, i) % 2)
<1>1. TurnOf(ms, i) % 2 \in {0, 1} /\ i \in Nat \ {0}
  BY LenProperties DEF Turns
<1>2. CASE TurnOf(ms, i) % 2 = 1
  <2>1. PICK w : /\ AllText(w) /\ InOrder(ms, w)
                 /\ Piece(ms, i) = <<InstOpen>> \o w \o <<InstClose>>
                 /\ TextOf(w) = (IF TurnOf(ms, i) = 1 THEN System(ms) ELSE {})
                                \cup (IF Says(ms, i) THEN {i} ELSE {})
    BY <1>2, UserPieceIs
  <2>2. TurnPiece(ms, Piece(ms, i), TextOf(w), 1)
    BY <2>1, PairIs
  <2> QED BY <1>2, <2>1, <2>2
<1>3. CASE TurnOf(ms, i) % 2 = 0
  <2>1. Piece(ms, i) = Said(ms, i) \o <<EOS>> /\ TurnOf(ms, i) # 1
    BY <1>3 DEF Piece
  <2>2. TurnPiece(ms, Piece(ms, i), TextOf(Said(ms, i)), 0)
    BY <1>1, <2>1, ReplyIs
  <2>3. TextOf(Said(ms, i)) = IF Says(ms, i) THEN {i} ELSE {}
    BY <1>1, SaidIs
  <2>4. TextOf(Said(ms, i)) = (IF TurnOf(ms, i) = 1 THEN System(ms) ELSE {})
                              \cup (IF Says(ms, i) THEN {i} ELSE {})
    BY <2>1, <2>3
  <2> QED BY <1>3, <2>2, <2>4
<1> QED BY <1>1, <1>2, <1>3

LEMMA TurnNumbers ==
  ASSUME NEW t \in Nat, NEW u0 \in Nat, NEW u \in Nat,
         2 * u0 = t + (t % 2), 2 * u = (t + 1) + ((t + 1) % 2)
  PROVE  t - u0 = u - 1 /\ u = u0 + ((t + 1) % 2) /\ (t + 1) % 2 \in {0, 1}
OBVIOUS

LEMMA RenderedStep ==
  ASSUME NEW M, NEW ms \in Seq(M), Alternates(ms), NEW i \in 1..Len(ms),
         NEW s, Rendered(ms, s, i - 1)
  PROVE  Rendered(ms, s \o Piece(ms, i), i)
<1> DEFINE p == Piece(ms, i)
           r == s \o p
           t == TurnOf(ms, i)
           u == Users(ms, i)
           t0 == TurnOf(ms, i - 1)
           u0 == Users(ms, i - 1)
           T(l) == {j \in Turns(ms) : j <= l /\ Says(ms, j)}
           texts == (IF t = 1 THEN System(ms) ELSE {}) \cup (IF Says(ms, i) THEN {i} ELSE {})
<1>1. /\ Len(ms) \in Nat /\ i - 1 \in 0..Len(ms) /\ i \in 0..Len(ms) /\ Turns(ms) \subseteq 1..Len(ms)
      /\ i \in DOMAIN ms
  <2>1. Len(ms) \in Nat /\ DOMAIN ms = 1..Len(ms)
    BY LenProperties
  <2> QED BY <2>1 DEF Turns
<1>2. /\ t0 \in Nat /\ u0 \in Nat /\ t \in Nat /\ u \in Nat
      /\ t = t0 + (IF i \in Turns(ms) THEN 1 ELSE 0)
      /\ u = u0 + (IF ms[i].role = "user" THEN 1 ELSE 0)
  BY <1>1, TurnSteps
<1>3. 2 * u0 = t0 + (t0 % 2) /\ 2 * u = t + (t % 2)
  BY <1>1, UsersAlternate
<1>4. /\ s \in Seq(Int) /\ Len(s) \in Nat /\ Len(s) >= 1
      /\ TextOf(s) = T(i - 1) \cup (IF t0 = 0 THEN {} ELSE System(ms))
      /\ InOrder(ms, s) /\ Placed(ms, s)
      /\ Marks(s, Len(s), InstOpen) = u0 /\ Marks(s, Len(s), InstClose) = u0
      /\ Marks(s, Len(s), EOS) = t0 - u0
      /\ IF t0 = 0 THEN s = <<BOS>>
         ELSE /\ Len(s) >= 2 /\ s[2] = InstOpen
              /\ s[Len(s)] = IF t0 % 2 = 1 THEN InstClose ELSE EOS
  BY LenProperties DEF Rendered
<1>5. CASE i \notin Turns(ms)
  <2>1. r = s
    <3>1. p = <<>>
      BY <1>5 DEF Piece
    <3> QED BY <1>4, <3>1, ConcatEmptySeq
  <2>2. t = t0 /\ u = u0
    <3>1. ms[i].role # "user"
      BY <1>1, <1>5 DEF Turns
    <3> QED BY <1>2, <1>5, <3>1
  <2>3. T(i) = T(i - 1)
    BY <1>1, <1>5
  <2> HIDE DEF r, t, u, t0, u0, T
  <2> QED BY <1>4, <2>1, <2>2, <2>3 DEF Rendered, t, u, T, r
<1>6. CASE i \in Turns(ms)
  <2>1. t = t0 + 1 /\ t # 0 /\ (t = 1 <=> t0 = 0)
    BY <1>2, <1>6
  <2>2. TurnPiece(ms, p, texts, t % 2)
    BY <1>2, <1>6, <2>1, TurnPieceIs
  <2>3. t0 - u0 = u - 1 /\ u = u0 + (t % 2) /\ t % 2 \in {0, 1}
    <3> HIDE DEF t, u, t0, u0
    <3> QED BY <1>2, <1>3, <2>1, TurnNumbers
  <2>4. ms[i].role = (IF t % 2 = 1 THEN "user" ELSE "assistant") /\ ms[i].role # "system"
    BY <1>6 DEF Alternates, Turns
  <2> HIDE DEF p, texts
  <2>5. /\ p \in Seq(Int) /\ Len(p) \in Nat /\ Len(p) >= 1 /\ TextOf(p) = texts /\ InOrder(ms, p)
    BY <2>2 DEF TurnPiece
  <2>6. r \in Seq(Int) /\ Len(r) = Len(s) + Len(p)
    BY <1>4, <2>5, ConcatProperties
  <2>7. TextOf(r) = T(i) \cup (IF t = 0 THEN {} ELSE System(ms))
    <3>1. TextOf(r) = TextOf(s) \cup TextOf(p)
      BY <1>4, <2>5, TextOfAppend
    <3>2. T(i) = T(i - 1) \cup (IF Says(ms, i) THEN {i} ELSE {})
      BY <1>1, <1>6
    <3>3. TextOf(s) = T(i - 1) \cup (IF t = 1 THEN {} ELSE System(ms))
      BY <1>4, <2>1
    <3> HIDE DEF T, r, t, t0
    <3> QED BY <2>1, <2>5, <3>1, <3>2, <3>3 DEF texts
  <2>8. InOrder(ms, r)
    <3>1. ASSUME NEW a \in TextOf(s), NEW b \in TextOf(p) PROVE Goes(ms, a, b)
      <4>1. t0 # 0
        <5> SUFFICES ASSUME t0 = 0 PROVE FALSE
          OBVIOUS
        <5>1. s = <<0>>
          BY <1>4 DEF BOS
        <5>2. TextAt(s) = {}
          BY <5>1 DEF TextAt
        <5> QED BY <3>1, <5>2 DEF TextOf
      <4>2. b = i
        BY <2>1, <2>5, <3>1, <4>1 DEF texts
      <4>3. a \in T(i - 1) \/ a \in System(ms)
        BY <1>4
      <4>4. CASE a \in T(i - 1)
        <5>1. a < i /\ ms[a].role # "system"
          BY <1>1, <4>4 DEF Turns
        <5> QED BY <2>4, <4>2, <5>1 DEF Goes
      <4>5. CASE a \in System(ms)
        <5>1. ms[a].role = "system"
          BY <4>5 DEF System
        <5> QED BY <2>4, <4>2, <5>1 DEF Goes
      <4> QED BY <4>3, <4>4, <4>5
    <3> QED BY <1>4, <2>5, <3>1, InOrderAppend
  <2>9. PlacedAfter(ms, p, u0, u0, t0 - u0)
    <3> SUFFICES ASSUME NEW k \in TextAt(p)
                 PROVE  LET turn == IF ms[p[k]].role = "system" THEN 1 ELSE Users(ms, p[k])
                        IN /\ u0 + Marks(p, k - 1, InstOpen) = turn
                           /\ (t0 - u0) + Marks(p, k - 1, EOS) = turn - 1
                           /\ u0 + Marks(p, k - 1, InstClose)
                                = IF ms[p[k]].role = "assistant" THEN turn ELSE turn - 1
      BY DEF PlacedAfter
    <3>1. p[k] \in texts
      BY <2>5 DEF TextOf
    <3>2. /\ Marks(p, k - 1, InstOpen) = t % 2
          /\ Marks(p, k - 1, InstClose) = 0 /\ Marks(p, k - 1, EOS) = 0
      BY <2>2 DEF TurnPiece
    <3>3. CASE p[k] = i
      <4>1. ms[p[k]].role # "system" /\ Users(ms, p[k]) = u
            /\ (ms[p[k]].role = "assistant" <=> t % 2 = 0)
        BY <2>3, <2>4, <3>3
      <4> HIDE DEF t, u, t0, u0
      <4> QED BY <1>2, <2>3, <3>2, <4>1
    <3>4. CASE t = 1 /\ p[k] \in System(ms)
      <4>1. ms[p[k]].role = "system"
        BY <3>4 DEF System
      <4> HIDE DEF t, u, t0, u0
      <4>2. t0 = 0 /\ t % 2 = 1 /\ u0 = 0
        BY <1>2, <1>3, <2>1, <3>4
      <4> QED BY <3>2, <4>1, <4>2
    <3>5. p[k] = i \/ (t = 1 /\ p[k] \in System(ms))
      BY <3>1 DEF texts
    <3> QED BY <3>3, <3>4, <3>5
  <2>10. Placed(ms, r)
    BY <1>4, <2>5, <2>9, PlacedAppend
  <2>11. /\ Marks(r, Len(r), InstOpen) = u /\ Marks(r, Len(r), InstClose) = u
         /\ Marks(r, Len(r), EOS) = t - u
    <3>1. \A x : Marks(r, Len(s) + Len(p), x) = Marks(s, Len(s), x) + Marks(p, Len(p), x)
      <4>1. Len(p) \in 0..Len(p)
        BY <2>5
      <4> QED BY <1>4, <2>5, <4>1, MarksAppend
    <3>2. \A x : Marks(r, Len(r), x) = Marks(s, Len(s), x) + Marks(p, Len(p), x)
      BY <2>6, <3>1
    <3>3. /\ Marks(p, Len(p), InstOpen) = t % 2 /\ Marks(p, Len(p), InstClose) = t % 2
          /\ Marks(p, Len(p), EOS) = 1 - (t % 2)
      BY <2>2 DEF TurnPiece
    <3> HIDE DEF r, t, u, t0, u0
    <3>4. Marks(r, Len(r), InstOpen) = u0 + (t % 2) /\ Marks(r, Len(r), InstClose) = u0 + (t % 2)
      BY <1>4, <3>2, <3>3
    <3>5. Marks(r, Len(r), EOS) = (t0 - u0) + (1 - (t % 2))
      BY <1>4, <3>2, <3>3
    <3>6. t - u = (t0 - u0) + (1 - (t % 2))
      <4>1. t \in Nat /\ u \in Nat /\ t0 \in Nat /\ u0 \in Nat /\ t % 2 \in {0, 1}
        BY <1>2, <2>3
      <4>2. t = t0 + 1 /\ t0 - u0 = u - 1 /\ u = u0 + (t % 2)
        BY <2>1, <2>3
      <4> QED BY <4>1, <4>2
    <3>7. u = u0 + (t % 2)
      BY <2>3
    <3> QED BY <3>4, <3>5, <3>6, <3>7
  <2>12. Len(r) >= 2 /\ r[2] = InstOpen /\ r[Len(r)] = IF t % 2 = 1 THEN InstClose ELSE EOS
    <3>1. \A k \in 1..(Len(s) + Len(p)) : r[k] = IF k <= Len(s) THEN s[k] ELSE p[k - Len(s)]
      BY <1>4, <2>5, ConcatProperties
    <3>2. /\ Len(s) + Len(p) \in 1..(Len(s) + Len(p)) /\ ~(Len(s) + Len(p) <= Len(s))
          /\ (Len(s) + Len(p)) - Len(s) = Len(p) /\ 2 \in 1..(Len(s) + Len(p))
      BY <1>4, <2>5
    <3>3. r[Len(s) + Len(p)] = p[Len(p)]
      BY <3>1, <3>2
    <3>4. r[2] = InstOpen
      <4>1. CASE t0 = 0
        <5>1. Len(s) = 1
          BY <1>4, <4>1
        <5>2. r[2] = p[2 - Len(s)] /\ 2 - Len(s) = 1
          <6>1. ~(2 <= Len(s)) /\ 2 - Len(s) = 1
            BY <5>1
          <6> HIDE DEF r
          <6> QED BY <3>1, <3>2, <6>1
        <5>3. t % 2 = 1
          BY <2>1, <4>1
        <5>4. p[1] = InstOpen
          BY <2>2, <5>3 DEF TurnPiece
        <5> HIDE DEF r
        <5> QED BY <5>2, <5>4
      <4>2. CASE t0 # 0
        <5>1. r[2] = s[2]
          BY <1>4, <3>1, <3>2, <4>2
        <5> QED BY <1>4, <4>2, <5>1
      <4> QED BY <4>1, <4>2
    <3>5. p[Len(p)] = IF t % 2 = 1 THEN InstClose ELSE EOS
      BY <2>2 DEF TurnPiece
    <3>6. Len(r) >= 2
      BY <1>4, <2>5, <2>6
    <3> HIDE DEF r, t
    <3> QED BY <2>6, <3>3, <3>4, <3>5, <3>6
  <2>13. Len(r) >= 1
    BY <1>4, <2>5, <2>6
  <2> HIDE DEF r, t, u, T
  <2> QED BY <2>1, <2>6, <2>7, <2>8, <2>10, <2>11, <2>12, <2>13 DEF Rendered, t, u, T, r, p
<1> QED BY <1>5, <1>6

\* A chat the template accepts: the prompt is what Rendered says of all of it.
LEMMA RenderIs ==
  ASSUME NEW M, NEW ms \in Seq(M), Template(ms) = "ok"
  PROVE  /\ Rendered(ms, Render(ms), Len(ms)) /\ TurnOf(ms, Len(ms)) \in Nat
         /\ TurnOf(ms, Len(ms)) % 2 = 1
         /\ 2 * Users(ms, Len(ms)) = TurnOf(ms, Len(ms)) + 1 /\ Users(ms, Len(ms)) \in Nat
<1> DEFINE n == Len(ms)
           seqs == [i \in DOMAIN ms |-> Piece(ms, i)]
<1>1. n \in Nat /\ DOMAIN ms = 1..n /\ Turns(ms) \subseteq 1..n
  <2>1. n \in Nat /\ DOMAIN ms = 1..n
    BY LenProperties
  <2> QED BY <2>1 DEF Turns
<1>2. Turns(ms) # {} /\ Alternates(ms) /\ ms[Max(Turns(ms))].role = "user"
  BY DEF Template
<1>3. \A i \in 0..n : TurnOf(ms, i) \in Nat /\ Users(ms, i) \in Nat
  BY TurnSteps
<1>4. \A i \in 1..n : Piece(ms, i) \in Seq(Int)
  <2> SUFFICES ASSUME NEW i \in 1..n PROVE Piece(ms, i) \in Seq(Int)
    OBVIOUS
  <2>1. CASE i \notin Turns(ms)
    BY <2>1 DEF Piece
  <2>2. CASE i \in Turns(ms)
    <3>1. TurnOf(ms, i) \in Nat \ {0}
      <4>1. /\ i - 1 \in 0..n /\ i \in 0..n
            /\ TurnOf(ms, i) = TurnOf(ms, i - 1) + 1
        BY <1>1, <2>2, TurnSteps
      <4> QED BY <1>3, <4>1
    <3> QED BY <1>2, <2>2, <3>1, TurnPieceIs DEF TurnPiece
  <2> QED BY <2>1, <2>2
<1>5. seqs \in Seq(Seq(Int)) /\ Len(seqs) = n /\ \A i \in 1..n : seqs[i] = Piece(ms, i)
  <2>1. seqs \in [1..n -> Seq(Int)]
    BY <1>1, <1>4
  <2> QED BY <1>1, <2>1
<1>6. Render(ms) = <<BOS>> \o FlattenSeq(seqs)
  BY DEF Render, Piece
<1> HIDE DEF seqs
<1>7. PICK out : /\ out[0] = <<>> /\ FlattenSeq(seqs) = out[n]
                 /\ \A i \in 1..n : out[i] = out[i - 1] \o seqs[i]
                 /\ \A i \in 0..n : out[i] \in Seq(Int)
  BY <1>5, FlattenSteps
<1> DEFINE P(i) == Rendered(ms, <<BOS>> \o out[i], i)
           F == {i \in Nat : i <= n => P(i)}
<1>8. <<BOS>> \in Seq(Int)
  BY DEF BOS
<1>9. P(0)
  <2>1. <<BOS>> \o out[0] = <<BOS>>
    BY <1>7, <1>8, ConcatEmptySeq
  <2>2. TurnOf(ms, 0) = 0 /\ Users(ms, 0) = 0
    BY TurnSteps
  <2>3. TextAt(<<BOS>>) = {} /\ Len(<<BOS>>) = 1
    BY DEF TextAt, BOS
  <2>4. /\ InOrder(ms, <<BOS>>) /\ Placed(ms, <<BOS>>) /\ TextOf(<<BOS>>) = {}
    BY <2>3 DEF InOrder, Placed, PlacedAfter, TextOf
  <2>5. {j \in Turns(ms) : j <= 0 /\ Says(ms, j)} = {}
    BY <1>1
  <2>6. \A x \in {InstOpen, InstClose, EOS} : Marks(<<BOS>>, 1, x) = 0
    <3> SUFFICES ASSUME NEW x \in {InstOpen, InstClose, EOS} PROVE Marks(<<BOS>>, 1, x) = 0
      OBVIOUS
    <3>1. \A j \in 1..1 : <<BOS>>[j] # x
      BY DEF BOS, InstOpen, InstClose, EOS
    <3> QED BY <3>1, NoMark
  <2>7. /\ Marks(<<BOS>>, 1, InstOpen) = 0 /\ Marks(<<BOS>>, 1, InstClose) = 0
        /\ Marks(<<BOS>>, 1, EOS) = 0 - 0
    BY <2>6
  <2>8. Len(<<BOS>>) >= 1
    BY <2>3
  <2>9. TextOf(<<BOS>>) = {j \in Turns(ms) : j <= 0 /\ Says(ms, j)} \cup {}
    BY <2>4, <2>5
  <2>10. Rendered(ms, <<BOS>>, 0)
    BY <1>8, <2>2, <2>3, <2>4, <2>7, <2>8, <2>9 DEF Rendered
  <2> QED BY <2>1, <2>10
<1>10. ASSUME NEW i \in 1..n, P(i - 1) PROVE P(i)
  <2>1. <<BOS>> \o out[i] = (<<BOS>> \o out[i - 1]) \o Piece(ms, i)
    <3>1. out[i] = out[i - 1] \o Piece(ms, i) /\ out[i - 1] \in Seq(Int)
      <4>1. i - 1 \in 0..n
        BY <1>1
      <4> QED BY <1>5, <1>7, <4>1
    <3>2. Piece(ms, i) \in Seq(Int)
      BY <1>4
    <3>3. \A a, b, c \in Seq(Int) : (a \o b) \o c = a \o (b \o c)
      BY ConcatAssociative
    <3>4. (<<BOS>> \o out[i - 1]) \o Piece(ms, i) = <<BOS>> \o (out[i - 1] \o Piece(ms, i))
      BY <1>8, <3>1, <3>2, <3>3
    <3> QED BY <3>1, <3>4
  <2>2. Rendered(ms, (<<BOS>> \o out[i - 1]) \o Piece(ms, i), i)
    BY <1>2, <1>10, RenderedStep
  <2> QED BY <2>1, <2>2
<1>11. P(n)
  <2> HIDE DEF P
  <2>1. 0 \in F
    BY <1>9
  <2>2. ASSUME NEW i \in Nat, i \in F PROVE i + 1 \in F
    <3> SUFFICES ASSUME i + 1 <= n PROVE P(i + 1)
      OBVIOUS
    <3>1. P(i) /\ i + 1 \in 1..n /\ (i + 1) - 1 = i
      BY <1>1, <2>2
    <3>2. P((i + 1) - 1)
      BY <3>1
    <3> QED BY <1>10, <3>1, <3>2
  <2> HIDE DEF F
  <2>3. n \in F
    BY <1>1, <2>1, <2>2, NatSetInduction
  <2> QED BY <1>1, <2>3 DEF F
<1>12. Rendered(ms, Render(ms), n)
  BY <1>6, <1>7, <1>11
<1>13. TurnOf(ms, n) % 2 = 1
  <2>1. PICK m \in Turns(ms) : \A y \in Turns(ms) : m >= y
    <3>1. IsFiniteSet(1..n)
      BY <1>1, FS_Interval
    <3>2. IsFiniteSet(Turns(ms)) /\ Turns(ms) \subseteq Int
      BY <1>1, <3>1, FS_Subset
    <3>3. PICK e \in Turns(ms) : TRUE
      BY <1>2
    <3> QED BY <3>2, <3>3, FiniteHasMax
  <2>2. Max(Turns(ms)) = m
    <3>1. Turns(ms) \subseteq Int
      BY <1>1
    <3> QED BY <2>1, <3>1, MaxIs
  <2>3. TurnOf(ms, m) % 2 = 1
    <3>1. ms[m].role = "user"
      BY <1>2, <2>2
    <3>2. ms[m].role = IF TurnOf(ms, m) % 2 = 1 THEN "user" ELSE "assistant"
      BY <1>2, <2>1 DEF Alternates
    <3> QED BY <3>1, <3>2
  <2>4. {j \in Turns(ms) : j <= m} = {j \in Turns(ms) : j <= n}
    BY <1>1, <2>1
  <2> QED BY <2>3, <2>4 DEF TurnOf
<1>14. 2 * Users(ms, n) = TurnOf(ms, n) + (TurnOf(ms, n) % 2) /\ n \in 0..n
  BY <1>1, <1>2, UsersAlternate
<1>15. TurnOf(ms, n) \in Nat /\ Users(ms, n) \in Nat
  BY <1>3, <1>14
<1> QED BY <1>12, <1>13, <1>14, <1>15

\* Nothing is raised only if no check raises.
LEMMA NothingRaised ==
  ASSUME NEW R, NEW results \in Seq(R), FirstRaised(results) = "ok"
  PROVE  \A k \in 1..Len(results) : results[k] = "ok"
<1> DEFINE raised == {k \in DOMAIN results : results[k] # "ok"}
<1>1. Len(results) \in Nat /\ DOMAIN results = 1..Len(results)
  BY LenProperties
<1>2. raised = {}
  <2> SUFFICES ASSUME raised # {} PROVE FALSE
    OBVIOUS
  <2>1. IsFiniteSet(1..Len(results))
    BY <1>1, FS_Interval
  <2>2. IsFiniteSet(raised) /\ raised \subseteq Int
    BY <1>1, <2>1, FS_Subset
  <2>3. PICK e \in raised : TRUE
    OBVIOUS
  <2> HIDE DEF raised
  <2>4. PICK m \in raised : \A y \in raised : m <= y
    BY <2>2, <2>3, FiniteHasMin
  <2>5. Min(raised) = m
    BY <2>2, <2>4, MinIs
  <2>6. FirstRaised(results) = results[m]
    BY <2>5 DEF FirstRaised, raised
  <2> QED BY <2>4, <2>6 DEF raised
<1> QED BY <1>1, <1>2

\* One result, those of the messages, two more.
LEMMA ThreeParts ==
  ASSUME NEW S, NEW a \in Seq(S), NEW b \in Seq(S), NEW c \in Seq(S), Len(a) = 1, Len(c) = 2
  PROVE  /\ (a \o b) \o c \in Seq(S) /\ Len((a \o b) \o c) = Len(b) + 3
         /\ ((a \o b) \o c)[1] = a[1] /\ ((a \o b) \o c)[Len(b) + 2] = c[1]
<1> SUFFICES ASSUME NEW d, d = a \o b, NEW e, e = d \o c
             PROVE  /\ e \in Seq(S) /\ Len(e) = Len(b) + 3
                    /\ e[1] = a[1] /\ e[Len(b) + 2] = c[1]
  OBVIOUS
<1>1. Len(b) \in Nat
  BY LenProperties
<1>2. d \in Seq(S) /\ Len(d) = Len(b) + 1 /\ d[1] = a[1]
  <2>1. d \in Seq(S) /\ Len(d) = 1 + Len(b)
    <3>1. a \o b \in Seq(S) /\ Len(a \o b) = Len(a) + Len(b)
      BY ConcatProperties
    <3> QED BY <3>1
  <2>2. 1 \in 1..(Len(a) + Len(b)) /\ 1 <= Len(a)
    BY <1>1
  <2>3. d[1] = a[1]
    BY <2>2, ConcatProperties
  <2> QED BY <1>1, <2>1, <2>3
<1>3. e \in Seq(S) /\ Len(e) = (Len(b) + 1) + 2
  <2>1. d \in Seq(S)
    BY <1>2
  <2>2. d \o c \in Seq(S) /\ Len(d \o c) = Len(d) + Len(c)
    BY <2>1, ConcatProperties
  <2> QED BY <1>2, <2>2
<1>4. \A k \in 1..((Len(b) + 1) + 2) : e[k] = IF k <= Len(b) + 1 THEN d[k] ELSE c[k - (Len(b) + 1)]
  BY <1>2, ConcatProperties
<1>5. /\ 1 \in 1..((Len(b) + 1) + 2) /\ 1 <= Len(b) + 1
      /\ Len(b) + 2 \in 1..((Len(b) + 1) + 2) /\ ~(Len(b) + 2 <= Len(b) + 1)
      /\ (Len(b) + 2) - (Len(b) + 1) = 1
  BY <1>1
<1>6. e[1] = d[1]
  BY <1>4, <1>5
<1>7. e[Len(b) + 2] = c[(Len(b) + 2) - (Len(b) + 1)]
  BY <1>4, <1>5
<1>8. Len(e) = Len(b) + 3
  BY <1>1, <1>3
<1> QED BY <1>2, <1>3, <1>5, <1>6, <1>7, <1>8

LEMMA ChatAccepted ==
  ASSUME NEW f, NEW M, NEW ms \in Seq(M), f.endpoint = "chat", Raised(f, ms) = "ok"
  PROVE  Template(ms) = "ok"
<1> DEFINE each   == [i \in DOMAIN ms |-> Message(ms[i])]
           last   == <<IF ms = <<>> THEN "ok" ELSE Template(ms), Sampling(f)>>
           first  == <<Check(ms # <<>>)>>
           Codes == {Message(ms[i]) : i \in DOMAIN ms} \cup {Check(ms # <<>>), "ok", Template(ms), Sampling(f)}
<1>1. Len(ms) \in Nat /\ DOMAIN ms = 1..Len(ms)
  BY LenProperties
<1>2. /\ each \in Seq(Codes) /\ Len(each) = Len(ms)
      /\ first \in Seq(Codes) /\ Len(first) = 1 /\ first[1] = Check(ms # <<>>)
      /\ last \in Seq(Codes) /\ Len(last) = 2
      /\ last[1] = IF ms = <<>> THEN "ok" ELSE Template(ms)
  <2>1. each \in [1..Len(ms) -> Codes]
    BY <1>1
  <2>2. each \in Seq(Codes) /\ Len(each) = Len(ms)
    BY <1>1, <2>1
  <2>3. Check(ms # <<>>) \in Codes /\ (IF ms = <<>> THEN "ok" ELSE Template(ms)) \in Codes /\ Sampling(f) \in Codes
    OBVIOUS
  <2> HIDE DEF Codes
  <2> QED BY <2>2, <2>3
<1> HIDE DEF each, last, first, Codes
<1> DEFINE results == (first \o each) \o last
<1>4. /\ results \in Seq(Codes) /\ Len(results) = Len(ms) + 3
      /\ results[1] = first[1] /\ results[Len(ms) + 2] = last[1]
  <2>1. Len(first) = 1 /\ Len(last) = 2 /\ Len(each) = Len(ms)
    BY <1>2
  <2>2. first \in Seq(Codes) /\ each \in Seq(Codes) /\ last \in Seq(Codes)
    BY <1>2
  <2>3. /\ results \in Seq(Codes) /\ Len(results) = Len(each) + 3
        /\ results[1] = first[1] /\ results[Len(each) + 2] = last[1]
    <3>1. \A a, b, c \in Seq(Codes) : Len(a) = 1 /\ Len(c) = 2 =>
            /\ (a \o b) \o c \in Seq(Codes) /\ Len((a \o b) \o c) = Len(b) + 3
            /\ ((a \o b) \o c)[1] = a[1] /\ ((a \o b) \o c)[Len(b) + 2] = c[1]
      BY ThreeParts
    <3> QED BY <2>1, <2>2, <3>1
  <2> QED BY <2>1, <2>3
<1>5. FirstRaised(results) = "ok"
  BY DEF Raised, results, first, each, last
<1> HIDE DEF results
<1>6. \A k \in 1..Len(results) : results[k] = "ok"
  BY <1>4, <1>5, NothingRaised
<1>7. results[1] = "ok" /\ results[Len(ms) + 2] = "ok"
  <2>1. 1 \in 1..Len(results) /\ Len(ms) + 2 \in 1..Len(results)
    BY <1>1, <1>4
  <2> QED BY <1>6, <2>1
<1>8. ms # <<>>
  BY <1>2, <1>4, <1>7 DEF Check
<1> QED BY <1>2, <1>4, <1>7, <1>8

\* The messages of a body, and what a 200 says of them.
ChatInv ==
  /\ messages \in Seq([role : Roles, content : Contents])
  /\ answer = 200 => Raised(field, messages) = "ok"

LEMMA ChatInvHolds == Spec => []ChatInv
<1>1. Init => ChatInv
  BY DEF Init, RequestInit, ChatInv
<1>2. ChatInv /\ [Next]_vars => ChatInv'
  <2> SUFFICES ASSUME ChatInv, [Next]_vars PROVE ChatInv'
    OBVIOUS
  <2>1. CASE \E role \in Roles, content \in Contents : Say(role, content)
    <3>1. PICK role \in Roles, content \in Contents : Say(role, content)
      BY <2>1
    <3>2. [role |-> role, content |-> content] \in [role : Roles, content : Contents]
      OBVIOUS
    <3>3. answer' = 0 /\ messages' = Append(messages, [role |-> role, content |-> content])
      BY <3>1 DEF Say
    <3>4. messages' \in Seq([role : Roles, content : Contents])
      BY <3>2, <3>3, AppendProperties DEF ChatInv
    <3> QED BY <3>3, <3>4 DEF ChatInv
  <2>2. CASE Post
    <3>1. messages' = messages /\ field' = field /\ answer' = Status(Raised(field, messages))
      BY <2>2 DEF Post
    <3>2. answer' = 200 => Raised(field, messages) = "ok"
      BY <3>1 DEF Status
    <3>3. Raised(field, messages)' = Raised(field, messages)
      BY <3>1
    <3> QED BY <3>1, <3>2, <3>3 DEF ChatInv
  <2>3. CASE UNCHANGED requestVars
    <3>1. messages' = messages /\ field' = field /\ answer' = answer
      BY <2>3 DEF requestVars
    <3>2. Raised(field, messages)' = Raised(field, messages)
      BY <3>1
    <3> QED BY <3>1, <3>2 DEF ChatInv
  <2> QED BY <2>1, <2>2, <2>3 DEF Next, RequestNext, vars
<1> QED BY <1>1, <1>2, PTL DEF Spec

LEMMA ChatInvKeeps == ChatInv => PromptKeepsConversation
<1> SUFFICES ASSUME ChatInv, answer = 200, field.endpoint = "chat"
             PROVE  PromptKeepsConversation
  BY DEF PromptKeepsConversation
<1> DEFINE ms == messages
           prompt == Render(messages)
           n == Len(messages)
           u == Users(ms, n)
<1>1. Template(ms) = "ok" /\ ms \in Seq([role : Roles, content : Contents])
  BY ChatAccepted DEF ChatInv
<1>2. /\ Rendered(ms, prompt, n) /\ TurnOf(ms, n) \in Nat /\ TurnOf(ms, n) % 2 = 1
      /\ 2 * u = TurnOf(ms, n) + 1 /\ u \in Nat
  BY <1>1, RenderIs
<1>3. n \in Nat /\ DOMAIN ms = 1..n
  BY <1>1, LenProperties
<1>4. prompt \in Seq(Int) /\ Len(prompt) \in Nat
  BY <1>2, LenProperties DEF Rendered
<1>5. TextOf(prompt) = {i \in DOMAIN ms : ms[i].content = "text"}
  <2>1. TurnOf(ms, n) # 0
    BY <1>2
  <2>2. TextOf(prompt) = {j \in Turns(ms) : j <= n /\ Says(ms, j)} \cup System(ms)
    BY <1>2, <2>1 DEF Rendered
  <2> QED BY <1>3, <2>2 DEF Turns, System, Says
<1>6. InOrder(ms, prompt) /\ Placed(ms, prompt)
  BY <1>2 DEF Rendered
<1>7. /\ Marks(prompt, Len(prompt), InstOpen) = u /\ Marks(prompt, Len(prompt), InstClose) = u
      /\ Marks(prompt, Len(prompt), EOS) = u - 1
      /\ prompt[2] = InstOpen /\ prompt[Len(prompt)] = InstClose
  <2>1. TurnOf(ms, n) # 0
    BY <1>2
  <2>2. TurnOf(ms, n) - u = u - 1
    BY <1>2
  <2> QED BY <1>2, <2>1, <2>2 DEF Rendered
<1> HIDE DEF u, n
<1> DEFINE texts == {k \in DOMAIN prompt : prompt[k] > 0}
           is(i, role)  == messages[i].role = role
           users(i)     == Cardinality({j \in 1..i : is(j, "user")})
           before(k, x) == Cardinality({j \in 1..(k - 1) : prompt[j] = x})
           end == Len(prompt) + 1
<1>8. {prompt[k] : k \in texts} = {i \in DOMAIN messages : messages[i].content = "text"}
  BY <1>5 DEF TextOf, TextAt
<1>9. \A j, k \in texts : j < k =>
        \/ is(prompt[j], "system") /\ ~is(prompt[k], "system")
        \/ (is(prompt[j], "system") <=> is(prompt[k], "system")) /\ prompt[j] < prompt[k]
  BY <1>6 DEF InOrder, TextAt, Goes
<1>10. \A k \in texts :
         LET turn == IF is(prompt[k], "system") THEN 1 ELSE users(prompt[k])
         IN /\ before(k, InstOpen) = turn /\ before(k, EOS) = turn - 1
            /\ before(k, InstClose) = IF is(prompt[k], "assistant") THEN turn ELSE turn - 1
  <2> SUFFICES ASSUME NEW k \in texts
               PROVE  LET turn == IF is(prompt[k], "system") THEN 1 ELSE users(prompt[k])
                      IN /\ before(k, InstOpen) = turn /\ before(k, EOS) = turn - 1
                         /\ before(k, InstClose) = IF is(prompt[k], "assistant") THEN turn ELSE turn - 1
    OBVIOUS
  <2>1. k - 1 \in Nat
    <3>1. DOMAIN prompt = 1..Len(prompt)
      BY <1>4, LenProperties
    <3> QED BY <1>4, <3>1
  <2>2. \A x : before(k, x) = Marks(prompt, k - 1, x)
    BY DEF Marks
  <2>3. \A x : Marks(prompt, k - 1, x) \in Nat
    BY <2>1, MarksType
  <2>4. users(prompt[k]) = Users(ms, prompt[k])
    BY DEF Users
  <2> DEFINE turn == IF is(prompt[k], "system") THEN 1 ELSE Users(ms, prompt[k])
  <2>5. /\ 0 + Marks(prompt, k - 1, InstOpen) = turn /\ 0 + Marks(prompt, k - 1, EOS) = turn - 1
        /\ 0 + Marks(prompt, k - 1, InstClose) = IF is(prompt[k], "assistant") THEN turn ELSE turn - 1
    BY <1>6 DEF Placed, PlacedAfter, TextAt
  <2> HIDE DEF before, users, is, prompt
  <2> QED BY <2>2, <2>3, <2>4, <2>5
<1>11. \A x : before(end, x) = Marks(prompt, Len(prompt), x)
  <2>1. end - 1 = Len(prompt)
    BY <1>4
  <2> QED BY <2>1 DEF Marks
<1>12. users(Len(messages)) = u
  BY DEF Users, u, n
<1>13. /\ before(end, InstOpen) = users(Len(messages)) /\ before(end, InstClose) = users(Len(messages))
       /\ before(end, EOS) = users(Len(messages)) - 1
  <2> HIDE DEF before, users, end, prompt
  <2> QED BY <1>7, <1>11, <1>12
<1>14. prompt[2] = InstOpen /\ Last(prompt) = InstClose
  BY <1>7 DEF Last
<1> QED BY <1>8, <1>9, <1>10, <1>13, <1>14 DEF PromptKeepsConversation

\* Whatever chat is accepted, with any number of messages: the prompt has each text
\* once, the system's first, each in the turn of its message, and ends in an open turn.
THEOREM PromptAlwaysKeepsConversation == Spec => []PromptKeepsConversation
BY ChatInvHolds, ChatInvKeeps, PTL

=============================================================================
