------------------------- MODULE TestHarness_proofs -------------------------
(***************************************************************************)
(* Proofs about the test harness: what the loaders cut out of the files    *)
(* and what the tables keep of it (SamplesAreSound), and what a score      *)
(* rests on (ScoresAreSound), for all plans, files, features and options.  *)
(*                                                                         *)
(* The loaders and the tables are lists of lists that FlattenSeq() joins,  *)
(* so most of the module is about lists: SetInduction, over a set of       *)
(* numbers, takes the place of an induction over their length, and         *)
(* ChainCounts says which place an element has among those that are before *)
(* it, which both the order of a loop and the ranking of map() rest on.    *)
(***************************************************************************)
EXTENDS TestHarness, FiniteSetTheorems, WellFoundedInduction, TLAPS

-----------------------------------------------------------------------------
(* Lists. *)

\* Induction over the naturals, for a set rather than a predicate.
LEMMA SetInduction ==
    ASSUME NEW S, 0 \in S, \A n \in Nat : n \in S => n + 1 \in S
    PROVE  Nat \subseteq S
<1>. DEFINE T == Nat \ S
<1>. SUFFICES ASSUME T # {} PROVE FALSE
  OBVIOUS
<1>1. PICK x \in T : \A y \in T : ~ (<<y, x>> \in OpToRel(<, Nat))
  BY WFMin, NatLessThanWellFounded
<1>2. \A y \in T : ~ (y < x)
  BY <1>1 DEF OpToRel
<1>3. x # 0 /\ x - 1 \in Nat /\ x - 1 < x
  OBVIOUS
<1>. QED
  BY <1>2, <1>3

\* What FlattenSeq() computes step by step: f[i] is the first i parts.
Flattens(f, seqs, n) == f = [i \in 1..n |-> IF i = 1 THEN seqs[i] ELSE f[i - 1] \o seqs[i]]

LEMMA FlattenExists ==
    ASSUME NEW seqs, NEW n \in Nat
    PROVE  \E f : Flattens(f, seqs, n)
<1>. DEFINE S == {m \in Nat : \E f : Flattens(f, seqs, m)}
<1>1. 0 \in S
  <2>1. Flattens([i \in 1..0 |-> 0], seqs, 0)
    BY DEF Flattens
  <2>. QED
    BY <2>1
<1>2. ASSUME NEW m \in Nat, m \in S PROVE m + 1 \in S
  <2>1. PICK f : Flattens(f, seqs, m)
    BY <1>2
  <2>. DEFINE g == [i \in 1..(m + 1) |-> IF i = 1 THEN seqs[i] ELSE f[i - 1] \o seqs[i]]
  <2>2. \A i \in 1..(m + 1) : i # 1 => i - 1 \in 1..m /\ g[i - 1] = f[i - 1]
    <3>. SUFFICES ASSUME NEW i \in 1..(m + 1), i # 1 PROVE i - 1 \in 1..m /\ g[i - 1] = f[i - 1]
      OBVIOUS
    <3>1. i - 1 \in 1..m /\ i - 1 \in 1..(m + 1)
      OBVIOUS
    <3>2. f[i - 1] = IF i - 1 = 1 THEN seqs[i - 1] ELSE f[i - 1 - 1] \o seqs[i - 1]
      BY <2>1, <3>1 DEF Flattens
    <3>. QED
      BY <3>1, <3>2
  <2>3. g = [i \in 1..(m + 1) |-> IF i = 1 THEN seqs[i] ELSE g[i - 1] \o seqs[i]]
    BY <2>2
  <2>4. Flattens(g, seqs, m + 1)
    BY <2>3 DEF Flattens
  <2>. QED
    BY <2>4
<1>3. Nat \subseteq S
  <2>. HIDE DEF S
  <2>. QED
    BY <1>1, <1>2, SetInduction
<1>. QED
  BY <1>3

LEMMA FlattenStep ==
    ASSUME NEW f, NEW seqs, NEW n \in Nat, Flattens(f, seqs, n), NEW i \in 1..n
    PROVE  f[i] = IF i = 1 THEN seqs[i] ELSE f[i - 1] \o seqs[i]
<1>. DEFINE e(k) == IF k = 1 THEN seqs[k] ELSE f[k - 1] \o seqs[k]
<1>1. f = [k \in 1..n |-> e(k)]
  BY DEF Flattens
<1>2. f[i] = e(i)
  <2>. HIDE DEF e
  <2>. QED
    BY <1>1
<1>. QED
  BY <1>2

\* The last step is the result.
LEMMA FlattenLast ==
    ASSUME NEW seqs, Len(seqs) \in Nat, Len(seqs) # 0
    PROVE  \E f : Flattens(f, seqs, Len(seqs)) /\ FlattenSeq(seqs) = f[Len(seqs)]
<1>. DEFINE f == CHOOSE f : f = [i \in 1..Len(seqs) |-> IF i = 1 THEN seqs[i] ELSE f[i - 1] \o seqs[i]]
<1>1. f = [i \in 1..Len(seqs) |-> IF i = 1 THEN seqs[i] ELSE f[i - 1] \o seqs[i]]
  BY FlattenExists DEF Flattens
<1>2. FlattenSeq(seqs) = f[Len(seqs)]
  BY DEF FlattenSeq
<1>. QED
  BY <1>1, <1>2 DEF Flattens

\* The first steps only depend on the first parts.
LEMMA FlattenAgrees ==
    ASSUME NEW s, NEW t, NEW f, NEW g, NEW n \in Nat, NEW m \in Nat, n <= m,
           Flattens(f, s, n), Flattens(g, t, m), \A i \in 1..n : s[i] = t[i]
    PROVE  \A i \in 1..n : f[i] = g[i]
<1>. DEFINE S == {k \in Nat : k \in 1..n => f[k] = g[k]}
<1>1. 0 \in S
  OBVIOUS
<1>2. ASSUME NEW k \in Nat, k \in S PROVE k + 1 \in S
  <2>. SUFFICES ASSUME k + 1 \in 1..n PROVE f[k + 1] = g[k + 1]
    OBVIOUS
  <2>0. k + 1 \in 1..m /\ k + 1 - 1 = k /\ (k + 1 = 1 <=> k = 0)
    OBVIOUS
  <2>1. f[k + 1] = IF k + 1 = 1 THEN s[k + 1] ELSE f[k + 1 - 1] \o s[k + 1]
    BY FlattenStep
  <2>2. g[k + 1] = IF k + 1 = 1 THEN t[k + 1] ELSE g[k + 1 - 1] \o t[k + 1]
    BY <2>0, FlattenStep
  <2>3. s[k + 1] = t[k + 1]
    OBVIOUS
  <2>4. CASE k = 0
    BY <2>0, <2>1, <2>2, <2>3, <2>4
  <2>5. CASE k # 0
    <3>1. f[k] = g[k]
      BY <1>2, <2>5
    <3>. QED
      BY <2>0, <2>1, <2>2, <2>3, <2>5, <3>1
  <2>. QED
    BY <2>4, <2>5
<1>3. Nat \subseteq S
  <2>. HIDE DEF S
  <2>. QED
    BY <1>1, <1>2, SetInduction
<1>. QED
  BY <1>3

\* Flattening an extended list appends the new part.
LEMMA FlattenAppend ==
    ASSUME NEW s, NEW t, Len(s) \in Nat, Len(t) = Len(s) + 1, Len(s) # 0,
           \A i \in 1..Len(s) : s[i] = t[i]
    PROVE  FlattenSeq(t) = FlattenSeq(s) \o t[Len(t)]
<1>0. /\ Len(t) \in Nat /\ Len(t) # 0 /\ Len(t) # 1 /\ Len(s) <= Len(t)
      /\ Len(t) \in 1..Len(t) /\ Len(s) \in 1..Len(s) /\ Len(t) - 1 = Len(s)
  OBVIOUS
<1>1. PICK f : Flattens(f, s, Len(s)) /\ FlattenSeq(s) = f[Len(s)]
  BY FlattenLast, Zenon
<1>2. PICK g : Flattens(g, t, Len(t)) /\ FlattenSeq(t) = g[Len(t)]
  BY <1>0, FlattenLast, Zenon
<1>3. f[Len(s)] = g[Len(s)]
  <2>1. \A i \in 1..Len(s) : f[i] = g[i]
    BY <1>0, <1>1, <1>2, FlattenAgrees
  <2>. QED
    BY <1>0, <2>1
<1>4. g[Len(t)] = IF Len(t) = 1 THEN t[Len(t)] ELSE g[Len(t) - 1] \o t[Len(t)]
  <2>1. Flattens(g, t, Len(t)) /\ Len(t) \in Nat /\ Len(t) \in 1..Len(t)
    BY <1>0, <1>2
  <2>. QED
    BY <2>1, FlattenStep
<1>. QED
  BY <1>0, <1>1, <1>2, <1>3, <1>4

LEMMA FlattenSingle ==
    ASSUME NEW t, Len(t) = 1
    PROVE  FlattenSeq(t) = t[1]
<1>0. Len(t) \in Nat /\ Len(t) # 0 /\ Len(t) \in 1..Len(t)
  OBVIOUS
<1>1. PICK g : Flattens(g, t, Len(t)) /\ FlattenSeq(t) = g[Len(t)]
  BY <1>0, FlattenLast, Zenon
<1>. QED
  <2>1. g[Len(t)] = IF Len(t) = 1 THEN t[Len(t)] ELSE g[Len(t) - 1] \o t[Len(t)]
    BY <1>0, <1>1, FlattenStep
  <2>. QED
    BY <1>0, <1>1, <2>1

LEMMA FlattenNone == FlattenSeq(<<>>) = <<>>
  BY DEF FlattenSeq

\* A list of lists, flattened: nothing for none, and each list behind the others.
LEMMA FlattenBySteps ==
    ASSUME NEW S, NEW s \in Seq(Seq(S)), NEW part \in Seq(S), FlattenSeq(s) \in Seq(S)
    PROVE  FlattenSeq(Append(s, part)) = FlattenSeq(s) \o part
<1>1. /\ Len(s) \in Nat /\ Len(Append(s, part)) = Len(s) + 1
      /\ Append(s, part)[Len(s) + 1] = part
      /\ \A i \in 1..Len(s) : s[i] = Append(s, part)[i]
  OBVIOUS
<1>2. CASE Len(s) = 0
  <2>1. s = <<>> /\ FlattenSeq(s) = <<>>
    BY <1>2, FlattenNone
  <2>2. FlattenSeq(Append(s, part)) = part
    BY <1>1, <1>2, FlattenSingle
  <2>. QED
    BY <2>1, <2>2
<1>3. CASE Len(s) # 0
  BY <1>1, <1>3, FlattenAppend
<1>. QED
  BY <1>2, <1>3
-----------------------------------------------------------------------------
(* Order. *)

\* A chain of subsets of a finite set, one for each element, which has it: the
\* numbers of their elements are the places of the elements in the chain.
Chain(S, up) ==
    /\ up \in [S -> SUBSET S]
    /\ \A l \in S : l \in up[l]
    /\ \A l, m \in S : l # m => (up[l] \subseteq up[m] /\ m \notin up[l])
                              \/ (up[m] \subseteq up[l] /\ l \notin up[m])

LEMMA ChainCounts ==
    ASSUME NEW S, IsFiniteSet(S), NEW up, Chain(S, up)
    PROVE  /\ \A l \in S : Cardinality(up[l]) \in 1..Cardinality(S)
           /\ \A l, m \in S : Cardinality(up[l]) <= Cardinality(up[m]) => l \in up[m]
           /\ \A l, m \in S : Cardinality(up[l]) = Cardinality(up[m]) => l = m
           /\ \A k \in 1..Cardinality(S) : \E l \in S : Cardinality(up[l]) = k
<1>. DEFINE n == Cardinality(S)
            f == [l \in S |-> Cardinality(up[l])]
<1>1. n \in Nat
  BY FS_CardinalityType
<1>2. \A l \in S : IsFiniteSet(up[l]) /\ Cardinality(up[l]) \in Nat /\ Cardinality(up[l]) <= n
  <2>. SUFFICES ASSUME NEW l \in S
                PROVE  IsFiniteSet(up[l]) /\ Cardinality(up[l]) \in Nat /\ Cardinality(up[l]) <= n
    OBVIOUS
  <2>1. up[l] \in SUBSET S
    BY DEF Chain
  <2>. QED
    BY <2>1, FS_Subset, FS_CardinalityType
<1>3. \A l \in S : Cardinality(up[l]) \in 1..n
  <2>. SUFFICES ASSUME NEW l \in S PROVE Cardinality(up[l]) \in 1..n
    OBVIOUS
  <2>1. Cardinality(up[l]) # 0
    BY <1>2, FS_EmptySet DEF Chain
  <2>. QED
    BY <1>1, <1>2, <2>1
<1>4. ASSUME NEW l \in S, NEW m \in S, up[l] \subseteq up[m], m \notin up[l]
      PROVE  Cardinality(up[l]) < Cardinality(up[m])
  <2>1. up[l] # up[m] /\ up[l] \in SUBSET up[m] /\ IsFiniteSet(up[m])
    BY <1>2, <1>4 DEF Chain
  <2>2. Cardinality(up[l]) <= Cardinality(up[m]) /\ Cardinality(up[l]) # Cardinality(up[m])
    BY <2>1, FS_Subset
  <2>. QED
    BY <1>2, <2>2
<1>5. \A l, m \in S : Cardinality(up[l]) <= Cardinality(up[m]) => l \in up[m]
  <2>. SUFFICES ASSUME NEW l \in S, NEW m \in S, l \notin up[m]
                PROVE  ~ (Cardinality(up[l]) <= Cardinality(up[m]))
    OBVIOUS
  <2>1. up[m] \subseteq up[l]
    BY DEF Chain
  <2>2. Cardinality(up[m]) < Cardinality(up[l])
    BY <1>4, <2>1
  <2>. QED
    BY <1>2, <2>2
<1>6. \A l, m \in S : Cardinality(up[l]) = Cardinality(up[m]) => l = m
  <2>. SUFFICES ASSUME NEW l \in S, NEW m \in S, l # m, Cardinality(up[l]) = Cardinality(up[m])
                PROVE  FALSE
    OBVIOUS
  <2>1. l \in up[m] /\ m \in up[l]
    BY <1>2, <1>5
  <2>. QED
    BY <2>1 DEF Chain
<1>. HIDE DEF n
<1>7. f \in Injection(S, 1..n)
  BY <1>3, <1>6 DEF Injection, IsInjective
<1>8. IsFiniteSet(1..n) /\ Cardinality(1..n) = n
  BY <1>1, FS_Interval
<1>9. f \in Surjection(S, 1..n)
  BY <1>7, <1>8, FS_Injection DEF n
<1>10. \A k \in 1..n : \E l \in S : Cardinality(up[l]) = k
  BY <1>9 DEF Surjection
<1>. QED
  BY <1>3, <1>5, <1>6, <1>10 DEF n

\* Some element has every place.
Placed(S, up) == \A k \in 1..Cardinality(S) : \E l \in S : Cardinality(up[l]) = k

LEMMA ChainPlaced ==
    ASSUME NEW S, IsFiniteSet(S), NEW up, Chain(S, up)
    PROVE  Placed(S, up)
<1>. SUFFICES ASSUME NEW k \in 1..Cardinality(S) PROVE \E l \in S : Cardinality(up[l]) = k
  BY DEF Placed
<1>. QED
  BY ChainCounts

\* What a list of the elements of a set in their order is.
Sorts(s, S) ==
    /\ DOMAIN s = 1..Len(s) /\ Len(s) \in Nat /\ Len(s) = Cardinality(S)
    /\ \A k \in 1..Len(s) : s[k] \in S
    /\ \A j, k \in 1..Len(s) : j < k => s[j] < s[k]
    /\ \A n \in S : \E k \in 1..Len(s) : s[k] = n

LEMMA InOrderSorts ==
    ASSUME NEW S \in SUBSET Int, IsFiniteSet(S)
    PROVE  Sorts(InOrder(S), S)
<1>. DEFINE up == [l \in S |-> {m \in S : m <= l}]
            s == InOrder(S)
<1>0. /\ up \in [S -> SUBSET S]
      /\ \A l, m \in S : m \in up[l] <=> m <= l
      /\ \A n \in S : up[n] = {m \in S : m <= n}
  OBVIOUS
<1>. HIDE DEF up
<1>1. Chain(S, up)
  <2>1. ASSUME NEW l \in S, NEW m \in S, l # m, l <= m PROVE up[l] \subseteq up[m] /\ m \notin up[l]
    <3>1. l \in Int /\ m \in Int /\ ~ (m <= l)
      BY <2>1
    <3>2. ASSUME NEW x \in up[l] PROVE x \in up[m]
      <4>1. x \in S /\ x \in Int /\ x <= l
        BY <1>0, <3>2
      <4>. QED
        BY <1>0, <2>1, <3>1, <4>1
    <3>. QED
      BY <1>0, <3>1, <3>2
  <2>2. \A l, m \in S : l <= m \/ m <= l
    OBVIOUS
  <2>. QED
    BY <1>0, <2>1, <2>2 DEF Chain
<1>2. Cardinality(S) \in Nat
  BY FS_CardinalityType
<1>3. s = [k \in 1..Cardinality(S) |-> CHOOSE n \in S : Cardinality({m \in S : m <= n}) = k]
  BY DEF InOrder
<1>4. DOMAIN s = 1..Cardinality(S) /\ Len(s) = Cardinality(S)
  BY <1>2, <1>3
<1>. HIDE DEF s
<1>6. ASSUME NEW k \in 1..Cardinality(S) PROVE s[k] \in S /\ Cardinality(up[s[k]]) = k
  <2>1. PICK n \in S : Cardinality(up[n]) = k
    BY <1>1, ChainCounts
  <2>2. Cardinality({m \in S : m <= n}) = k
    BY <1>0, <2>1
  <2>3. s[k] \in S /\ Cardinality({m \in S : m <= s[k]}) = k
    BY <1>3, <2>2
  <2>. QED
    BY <1>0, <2>3
<1>7. ASSUME NEW j \in 1..Cardinality(S), NEW k \in 1..Cardinality(S), j < k PROVE s[j] < s[k]
  <2>1. s[j] \in S /\ s[k] \in S /\ Cardinality(up[s[j]]) = j /\ Cardinality(up[s[k]]) = k
    BY <1>6
  <2>2. s[j] \in up[s[k]] /\ s[j] # s[k]
    BY <1>1, <1>2, <1>7, <2>1, ChainCounts
  <2>3. s[j] <= s[k] /\ s[j] \in Int /\ s[k] \in Int
    BY <1>0, <2>1, <2>2
  <2>. QED
    BY <2>2, <2>3
<1>8. ASSUME NEW n \in S PROVE \E k \in 1..Cardinality(S) : s[k] = n
  <2>1. Cardinality(up[n]) \in 1..Cardinality(S)
    BY <1>1, ChainCounts
  <2>2. s[Cardinality(up[n])] \in S /\ Cardinality(up[s[Cardinality(up[n])]]) = Cardinality(up[n])
    BY <1>6, <2>1
  <2>3. s[Cardinality(up[n])] = n
    BY <1>1, <2>2, ChainCounts
  <2>. QED
    BY <2>1, <2>3
<1>. QED
  BY <1>2, <1>4, <1>6, <1>7, <1>8 DEF s, Sorts

-----------------------------------------------------------------------------
(* What the loaders cut out of the files. *)

\* A sample of job.
SampleLike(s) ==
    /\ s.gt \in Labels
    /\ s.len \in {128, 1024, SegmentLen}
    /\ s.from \in Nat

\* A loaded batch: samples of known labels, none too noisy, and those of one
\* label and SNR one behind the other.
Apart(b) ==
    \A j, k \in 1..Len(b) :
        j < k /\ b[j].gt = b[k].gt /\ b[j].snr = b[k].snr => b[j].from + b[j].len <= b[k].from

GoodBatch(b) ==
    /\ DOMAIN b = 1..Len(b) /\ Len(b) \in Nat
    /\ b \in Seq({b[k] : k \in DOMAIN b})
    /\ \A k \in 1..Len(b) : SampleLike(b[k]) /\ ~TooNoisy(b[k].snr, SnrMin)
    /\ Apart(b)

LEMMA LesserIs ==
    ASSUME NEW a \in Nat, NEW b \in Nat
    PROVE  Lesser(a, b) \in Nat /\ Lesser(a, b) <= a /\ Lesser(a, b) <= b
  BY DEF Lesser

\* The segments of a recording have no SNR and lie one behind the other.
LEMMA SegmentsGood ==
    ASSUME NEW recording, recording.gt \in Labels, recording.len \in Nat
    PROVE  GoodBatch(Segments(recording))
<1>. DEFINE n == Lesser(MaxSegments, recording.len \div SegmentLen)
            b == Segments(recording)
            e(k) == [gt |-> recording.gt, snr |-> NaN, len |-> SegmentLen,
                     from |-> SegmentLen * (k - 1), seg |-> k - 1]
<1>1. n \in Nat
  <2>1. recording.len \div SegmentLen \in Nat /\ MaxSegments \in Nat
    BY DEF SegmentLen, MaxSegments
  <2>. QED
    BY <2>1, LesserIs
<1>2. b = [k \in 1..n |-> e(k)]
  BY DEF Segments
<1>. HIDE DEF n, b
<1>3. DOMAIN b = 1..n /\ Len(b) = n /\ b \in Seq({b[k] : k \in DOMAIN b})
  <2>. HIDE DEF e
  <2>1. DOMAIN b = 1..n /\ Len(b) = n
    BY <1>1, <1>2
  <2>2. b = [k \in 1..n |-> b[k]] /\ \A k \in 1..n : b[k] \in {b[i] : i \in DOMAIN b}
    BY <1>2, <2>1
  <2>. QED
    BY <1>1, <2>1, <2>2
<1>4. \A k \in 1..n : b[k] = e(k)
  <2>. HIDE DEF e
  <2>. QED
    BY <1>2
<1>5. \A k \in 1..n : /\ b[k].gt = recording.gt /\ b[k].snr = NaN /\ b[k].len = 65536
                       /\ b[k].from = 65536 * (k - 1)
  <2>1. \A k \in 1..n : /\ b[k].gt = recording.gt /\ b[k].snr = NaN /\ b[k].len = SegmentLen
                         /\ b[k].from = SegmentLen * (k - 1)
    <3>. SUFFICES ASSUME NEW k \in 1..n
                  PROVE  /\ b[k].gt = recording.gt /\ b[k].snr = NaN /\ b[k].len = SegmentLen
                         /\ b[k].from = SegmentLen * (k - 1)
      OBVIOUS
    <3>1. b[k] = e(k)
      BY <1>4
    <3>. QED
      BY <3>1
  <2>. QED
    BY <2>1 DEF SegmentLen
<1>6. \A k \in 1..n : SampleLike(b[k]) /\ ~TooNoisy(b[k].snr, SnrMin)
  BY <1>1, <1>5 DEF SampleLike, TooNoisy, SegmentLen
<1>7. Apart(b)
  BY <1>1, <1>3, <1>5 DEF Apart
<1>. QED
  BY <1>1, <1>3, <1>6, <1>7 DEF GoodBatch, b

\* The rows of RadioML 2018 that are kept come in the order of the file, and
\* there are at most 24 classes of them.
LEMMA ModsCounted == Cardinality(RADIOML_2018_MODS) \in Nat /\ Cardinality(RADIOML_2018_MODS) <= 24
<1>. DEFINE f == [i \in 1..24 |->
        CASE i = 1 -> "OOK" [] i = 2 -> "4ASK" [] i = 3 -> "8ASK" [] i = 4 -> "BPSK"
          [] i = 5 -> "QPSK" [] i = 6 -> "8PSK" [] i = 7 -> "16PSK" [] i = 8 -> "32PSK"
          [] i = 9 -> "16APSK" [] i = 10 -> "32APSK" [] i = 11 -> "64APSK" [] i = 12 -> "128APSK"
          [] i = 13 -> "16QAM" [] i = 14 -> "32QAM" [] i = 15 -> "64QAM" [] i = 16 -> "128QAM"
          [] i = 17 -> "256QAM" [] i = 18 -> "AM-SSB-WC" [] i = 19 -> "AM-SSB-SC"
          [] i = 20 -> "AM-DSB-WC" [] i = 21 -> "AM-DSB-SC" [] i = 22 -> "FM" [] i = 23 -> "GMSK"
          [] OTHER -> "OQPSK"]
<1>1. /\ f[1] = "OOK" /\ f[2] = "4ASK" /\ f[3] = "8ASK" /\ f[4] = "BPSK"
      /\ f[5] = "QPSK" /\ f[6] = "8PSK" /\ f[7] = "16PSK" /\ f[8] = "32PSK"
      /\ f[9] = "16APSK" /\ f[10] = "32APSK" /\ f[11] = "64APSK" /\ f[12] = "128APSK"
      /\ f[13] = "16QAM" /\ f[14] = "32QAM" /\ f[15] = "64QAM" /\ f[16] = "128QAM"
      /\ f[17] = "256QAM" /\ f[18] = "AM-SSB-WC" /\ f[19] = "AM-SSB-SC"
      /\ f[20] = "AM-DSB-WC" /\ f[21] = "AM-DSB-SC" /\ f[22] = "FM" /\ f[23] = "GMSK"
      /\ f[24] = "OQPSK"
  OBVIOUS
<1>2. \A m \in RADIOML_2018_MODS : \E i \in 1..24 : f[i] = m
  <2>. HIDE DEF f
  <2>. QED
    BY <1>1 DEF RADIOML_2018_MODS
<1>3. \A i \in 1..24 : f[i] \in RADIOML_2018_MODS
  BY DEF RADIOML_2018_MODS
<1>4. f \in [1..24 -> RADIOML_2018_MODS]
  BY <1>3
<1>. HIDE DEF f
<1>5. f \in Surjection(1..24, RADIOML_2018_MODS)
  BY <1>2, <1>4 DEF Surjection
<1>6. IsFiniteSet(1..24) /\ Cardinality(1..24) = 24
  <2>1. \A n \in Nat : IsFiniteSet(1..n) /\ Cardinality(1..n) = n
    BY FS_Interval
  <2>2. 24 \in Nat
    OBVIOUS
  <2>. QED
    BY <2>1, <2>2, Zenon
<1>7. IsFiniteSet(RADIOML_2018_MODS) /\ Cardinality(RADIOML_2018_MODS) <= 24
  BY <1>5, <1>6, FS_Surjection
<1>. QED
  BY <1>7, FS_CardinalityType

LEMMA LoadRadioml2018Good ==
    ASSUME NEW table_, table_ \in Seq(Range(table_)), \A k \in DOMAIN table_ : table_[k].mod \in Labels
    PROVE  /\ GoodBatch(LoadRadioml2018(table_, SnrMin, MaxPerClass))
           /\ Len(LoadRadioml2018(table_, SnrMin, MaxPerClass)) <= 24 * MaxPerClass
<1>. DEFINE c == Cardinality(RADIOML_2018_MODS)
            n == Lesser(Len(table_), MaxPerClass * c)
            K == {k \in 1..n : ~TooNoisy(table_[k].snr, SnrMin)}
            kept == InOrder(K)
            b == LoadRadioml2018(table_, SnrMin, MaxPerClass)
            e(j) == [gt |-> table_[kept[j]].mod, snr |-> table_[kept[j]].snr, len |-> 1024,
                     from |-> 1024 * (kept[j] - 1), seg |-> kept[j] - 1]
<1>1. n \in Nat /\ n <= Len(table_) /\ n <= 24 * MaxPerClass
  <2>1. Len(table_) \in Nat /\ c \in Nat /\ c <= 24 /\ MaxPerClass \in Nat
    BY ModsCounted, OptionsGiven
  <2>2. MaxPerClass * c \in Nat /\ MaxPerClass * c <= 24 * MaxPerClass
    <3>. HIDE DEF c
    <3>. QED
      BY <2>1
  <2>. HIDE DEF c
  <2>3. n \in Nat /\ n <= Len(table_) /\ n <= MaxPerClass * c
    BY <2>1, <2>2, LesserIs
  <2>. QED
    BY <2>1, <2>2, <2>3
<1>2. b = [j \in 1..Len(kept) |-> e(j)]
  BY DEF LoadRadioml2018
<1>. HIDE DEF n, b
<1>3. K \in SUBSET Int /\ IsFiniteSet(K) /\ Cardinality(K) \in Nat /\ Cardinality(K) <= n
  <2>1. IsFiniteSet(1..n) /\ Cardinality(1..n) = n
    BY <1>1, FS_Interval
  <2>2. K \in SUBSET (1..n)
    OBVIOUS
  <2>3. K \in SUBSET Int
    OBVIOUS
  <2>. HIDE DEF K
  <2>. QED
    BY <1>1, <2>1, <2>2, <2>3, FS_Subset, FS_CardinalityType
<1>4. Sorts(kept, K)
  <2>. HIDE DEF K
  <2>. QED
    BY <1>3, InOrderSorts
<1>5. /\ Len(kept) \in Nat /\ Len(kept) <= n
      /\ \A j \in 1..Len(kept) : kept[j] \in 1..n /\ ~TooNoisy(table_[kept[j]].snr, SnrMin)
      /\ \A j, k \in 1..Len(kept) : j < k => kept[j] < kept[k]
  <2>. HIDE DEF kept
  <2>. QED
    BY <1>3, <1>4 DEF Sorts
<1>. HIDE DEF kept, K
<1>6. DOMAIN b = 1..Len(kept) /\ Len(b) = Len(kept) /\ b \in Seq({b[k] : k \in DOMAIN b})
  <2>. HIDE DEF e
  <2>1. DOMAIN b = 1..Len(kept) /\ Len(b) = Len(kept)
    BY <1>2, <1>5
  <2>2. b = [k \in 1..Len(kept) |-> b[k]] /\ \A k \in 1..Len(kept) : b[k] \in {b[i] : i \in DOMAIN b}
    BY <1>2, <2>1
  <2>. QED
    BY <1>5, <2>1, <2>2
<1>7. \A j \in 1..Len(kept) : /\ b[j].gt = table_[kept[j]].mod /\ b[j].snr = table_[kept[j]].snr
                               /\ b[j].len = 1024 /\ b[j].from = 1024 * (kept[j] - 1)
  <2>1. \A j \in 1..Len(kept) : b[j] = e(j)
    <3>. HIDE DEF e
    <3>. QED
      BY <1>2
  <2>. SUFFICES ASSUME NEW j \in 1..Len(kept)
                PROVE  /\ b[j].gt = table_[kept[j]].mod /\ b[j].snr = table_[kept[j]].snr
                       /\ b[j].len = 1024 /\ b[j].from = 1024 * (kept[j] - 1)
    OBVIOUS
  <2>2. b[j] = e(j)
    BY <2>1
  <2>. QED
    BY <2>2
<1>8. \A j \in 1..Len(kept) : SampleLike(b[j]) /\ ~TooNoisy(b[j].snr, SnrMin)
  <2>. SUFFICES ASSUME NEW j \in 1..Len(kept) PROVE SampleLike(b[j]) /\ ~TooNoisy(b[j].snr, SnrMin)
    OBVIOUS
  <2>1. kept[j] \in 1..Len(table_) /\ table_[kept[j]].mod \in Labels
    BY <1>1, <1>5
  <2>2. b[j].from \in Nat
    BY <1>7, <2>1
  <2>. QED
    <3>1. b[j].gt \in Labels /\ b[j].len = 1024
      BY <1>7, <2>1
    <3>2. b[j].snr = table_[kept[j]].snr /\ ~TooNoisy(table_[kept[j]].snr, SnrMin)
      BY <1>5, <1>7
    <3>. QED
      BY <2>2, <3>1, <3>2 DEF SampleLike
<1>9. Apart(b)
  <2>. SUFFICES ASSUME NEW j \in 1..Len(b), NEW k \in 1..Len(b), j < k
                PROVE  b[j].from + b[j].len <= b[k].from
    BY Zenon DEF Apart
  <2>1. kept[j] < kept[k] /\ kept[j] \in Int /\ kept[k] \in Int
    BY <1>1, <1>5, <1>6
  <2>2. b[j].len = 1024 /\ b[j].from = 1024 * (kept[j] - 1) /\ b[k].from = 1024 * (kept[k] - 1)
    BY <1>6, <1>7
  <2>. QED
    BY <2>1, <2>2
<1>10. GoodBatch(b)
  BY <1>5, <1>6, <1>8, <1>9 DEF GoodBatch
<1>11. Len(b) <= 24 * MaxPerClass
  BY <1>1, <1>5, <1>6, OptionsGiven
<1>. QED
  BY <1>10, <1>11 DEF b

\* The samples of the first n keys of a RadioML 2016 file, and of the n-th.
KeyCount(keys, i) == Lesser(keys[i].n, MaxPerClass)
KeySample(keys, i, e) ==
    [gt |-> keys[i].mod, snr |-> keys[i].snr, len |-> 128, from |-> 128 * (e - 1), seg |-> e - 1]
KeyPart(keys, i) ==
    IF TooNoisy(keys[i].snr, SnrMin) THEN <<>>
    ELSE [e \in 1..KeyCount(keys, i) |-> KeySample(keys, i, e)]
KeyParts(keys, n) == [i \in 1..n |-> KeyPart(keys, i)]

\* Sample s is the e-th of key i.
OfKey(keys, s, i, e) ==
    /\ e \in 1..KeyCount(keys, i)
    /\ s = KeySample(keys, i, e)
    /\ ~TooNoisy(keys[i].snr, SnrMin)

\* The samples of the first n keys: those of one key in the order of the file.
KeysLoaded(keys, n, b) ==
    /\ \A k \in 1..Len(b) : \E i \in 1..n : \E e \in Nat : OfKey(keys, b[k], i, e)
    /\ \A j, k \in 1..Len(b) :
          j < k /\ b[j].gt = b[k].gt /\ b[j].snr = b[k].snr => b[j].seg < b[k].seg

Rml2016File(keys) ==
    /\ keys \in Seq(Range(keys))
    /\ \A k \in DOMAIN keys : keys[k].mod \in Labels /\ keys[k].n \in Nat
    /\ \A j, k \in DOMAIN keys :
          keys[j].mod = keys[k].mod /\ keys[j].snr = keys[k].snr => j = k

KeySamples(keys) == {KeySample(keys, i, e) : i \in 1..Len(keys), e \in Nat}

LEMMA KeyPartIs ==
    ASSUME NEW keys, Rml2016File(keys), NEW i \in 1..Len(keys)
    PROVE  /\ KeyPart(keys, i) \in Seq(KeySamples(keys))
           /\ \A e \in 1..Len(KeyPart(keys, i)) : OfKey(keys, KeyPart(keys, i)[e], i, e)
<1>. DEFINE c == KeyCount(keys, i)
            p == [e \in 1..c |-> KeySample(keys, i, e)]
<1>1. c \in Nat
  <2>1. keys \in Seq(Range(keys)) /\ \A k \in DOMAIN keys : keys[k].n \in Nat
    BY DEF Rml2016File
  <2>2. keys[i].n \in Nat
    BY <2>1
  <2>. QED
    BY <2>2, LesserIs, OptionsGiven DEF KeyCount
<1>2. CASE TooNoisy(keys[i].snr, SnrMin)
  <2>1. KeyPart(keys, i) = <<>>
    BY <1>2 DEF KeyPart
  <2>. QED
    BY <2>1
<1>3. CASE ~TooNoisy(keys[i].snr, SnrMin)
  <2>1. KeyPart(keys, i) = p
    BY <1>3, Zenon DEF KeyPart
  <2>2. \A e \in 1..c : KeySample(keys, i, e) \in KeySamples(keys) /\ e \in Nat
    BY <1>1 DEF KeySamples
  <2>3. p \in Seq(KeySamples(keys)) /\ Len(p) = c
    <3>. HIDE DEF c
    <3>. QED
      BY <1>1, <2>2
  <2>4. \A e \in 1..c : p[e] = KeySample(keys, i, e)
    OBVIOUS
  <2>. HIDE DEF p
  <2>. QED
    BY <1>3, <2>1, <2>3, <2>4 DEF OfKey
<1>. QED
  BY <1>2, <1>3

\* One key more adds its part, whose samples have a key of their own.
LEMMA KeyStep ==
    ASSUME NEW keys, Rml2016File(keys), NEW n \in Nat, n + 1 <= Len(keys),
           NEW b \in Seq(KeySamples(keys)), KeysLoaded(keys, n, b)
    PROVE  KeysLoaded(keys, n + 1, b \o KeyPart(keys, n + 1))
<1>. DEFINE p == KeyPart(keys, n + 1)
            t == b \o p
<1>0. n + 1 \in 1..Len(keys) /\ Len(b) \in Nat /\ keys \in Seq(Range(keys))
  BY DEF Rml2016File
<1>1. /\ p \in Seq(KeySamples(keys)) /\ Len(p) \in Nat
      /\ \A e \in 1..Len(p) : OfKey(keys, p[e], n + 1, e)
  BY <1>0, KeyPartIs
<1>. HIDE DEF p
<1>2. /\ Len(t) = Len(b) + Len(p)
      /\ \A k \in 1..Len(b) : t[k] = b[k]
      /\ \A k \in 1..Len(t) : ~ (k \in 1..Len(b)) => k - Len(b) \in 1..Len(p) /\ t[k] = p[k - Len(b)]
  BY <1>0, <1>1
<1>. HIDE DEF t
<1>3. ASSUME NEW k \in 1..Len(t)
      PROVE  IF k \in 1..Len(b) THEN \E i \in 1..n : \E e \in Nat : OfKey(keys, t[k], i, e)
             ELSE OfKey(keys, t[k], n + 1, k - Len(b))
  <2>1. CASE k \in 1..Len(b)
    BY <1>2, <2>1 DEF KeysLoaded
  <2>2. CASE ~ (k \in 1..Len(b))
    BY <1>1, <1>2, <2>2
  <2>. QED
    BY <2>1, <2>2
<1>4. ASSUME NEW k \in 1..Len(t)
      PROVE  \E i \in 1..(n + 1) : \E e \in Nat : OfKey(keys, t[k], i, e)
  <2>1. CASE k \in 1..Len(b)
    <3>1. PICK i \in 1..n : \E e \in Nat : OfKey(keys, t[k], i, e)
      BY <1>3, <2>1
    <3>2. i \in 1..(n + 1)
      OBVIOUS
    <3>. QED
      BY <3>1, <3>2
  <2>2. CASE ~ (k \in 1..Len(b))
    <3>1. OfKey(keys, t[k], n + 1, k - Len(b))
      BY <1>3, <2>2
    <3>2. k - Len(b) \in Nat /\ n + 1 \in 1..(n + 1)
      BY <1>0, <1>2, <2>2
    <3>. QED
      BY <3>1, <3>2
  <2>. QED
    BY <2>1, <2>2
<1>5. ASSUME NEW j \in 1..Len(t), NEW k \in 1..Len(t), j < k, t[j].gt = t[k].gt, t[j].snr = t[k].snr
      PROVE  t[j].seg < t[k].seg
  <2>1. CASE k \in 1..Len(b)
    <3>1. j \in 1..Len(b)
      BY <1>0, <1>1, <1>2, <1>5, <2>1
    <3>. QED
      BY <1>2, <1>5, <2>1, <3>1 DEF KeysLoaded
  <2>2. CASE ~ (k \in 1..Len(b)) /\ ~ (j \in 1..Len(b))
    <3>1. OfKey(keys, t[k], n + 1, k - Len(b)) /\ OfKey(keys, t[j], n + 1, j - Len(b))
      BY <1>3, <2>2
    <3>2. t[k].seg = k - Len(b) - 1 /\ t[j].seg = j - Len(b) - 1
      BY <3>1 DEF OfKey, KeySample
    <3>. QED
      BY <1>0, <1>1, <1>2, <1>5, <3>2
  <2>3. CASE ~ (k \in 1..Len(b)) /\ j \in 1..Len(b)
    <3>1. PICK i \in 1..n : \E e \in Nat : OfKey(keys, t[j], i, e)
      BY <1>3, <2>3
    <3>2. t[j].gt = keys[i].mod /\ t[j].snr = keys[i].snr
      BY <3>1 DEF OfKey, KeySample
    <3>3. OfKey(keys, t[k], n + 1, k - Len(b))
      BY <1>3, <2>3
    <3>4. t[k].gt = keys[n + 1].mod /\ t[k].snr = keys[n + 1].snr
      BY <3>3 DEF OfKey, KeySample
    <3>5. i \in DOMAIN keys /\ n + 1 \in DOMAIN keys /\ i # n + 1
      BY <1>0
    <3>6. keys[i].mod = keys[n + 1].mod /\ keys[i].snr = keys[n + 1].snr
      BY <1>5, <3>2, <3>4
    <3>. QED
      BY <3>5, <3>6 DEF Rml2016File
  <2>. QED
    BY <2>1, <2>2, <2>3
<1>. QED
  BY <1>4, <1>5 DEF KeysLoaded, t, p

LEMMA KeysFlattened ==
    ASSUME NEW keys, Rml2016File(keys)
    PROVE  LET b == FlattenSeq(KeyParts(keys, Len(keys)))
           IN  b \in Seq(KeySamples(keys)) /\ KeysLoaded(keys, Len(keys), b)
<1>. DEFINE b(n) == FlattenSeq(KeyParts(keys, n))
            S == {n \in Nat : n <= Len(keys) =>
                     b(n) \in Seq(KeySamples(keys)) /\ KeysLoaded(keys, n, b(n))}
<1>0. Len(keys) \in Nat
  BY DEF Rml2016File
<1>1. 0 \in S
  <2>1. KeyParts(keys, 0) = <<>>
    BY DEF KeyParts
  <2>2. b(0) = <<>>
    BY <2>1, FlattenNone
  <2>3. KeysLoaded(keys, 0, <<>>) /\ <<>> \in Seq(KeySamples(keys))
    <3>1. Len(<<>>) = 0 /\ 1..0 = {} /\ <<>> \in Seq(KeySamples(keys))
      OBVIOUS
    <3>. QED
      BY <3>1, Zenon DEF KeysLoaded
  <2>. HIDE DEF b
  <2>. QED
    BY <2>2, <2>3
<1>2. ASSUME NEW n \in Nat, n \in S PROVE n + 1 \in S
  <2>. SUFFICES ASSUME n + 1 <= Len(keys)
                PROVE  b(n + 1) \in Seq(KeySamples(keys)) /\ KeysLoaded(keys, n + 1, b(n + 1))
    <3>. HIDE DEF b
    <3>. QED
      BY <1>0
  <2>. DEFINE parts == KeyParts(keys, n)
              p == KeyPart(keys, n + 1)
  <2>0. n <= Len(keys) /\ n + 1 \in 1..Len(keys)
    BY <1>0
  <2>1. b(n) \in Seq(KeySamples(keys)) /\ KeysLoaded(keys, n, b(n))
    <3>. HIDE DEF b
    <3>. QED
      BY <1>2, <2>0
  <2>2. \A i \in 1..(n + 1) : KeyPart(keys, i) \in Seq(KeySamples(keys))
    <3>1. \A i \in 1..(n + 1) : i \in 1..Len(keys)
      BY <1>0, <2>0
    <3>. QED
      BY <3>1, KeyPartIs
  <2>3. /\ parts \in Seq(Seq(KeySamples(keys))) /\ p \in Seq(KeySamples(keys))
        /\ KeyParts(keys, n + 1) = Append(parts, p)
    <3>. HIDE DEF b
    <3>1. parts = [i \in 1..n |-> KeyPart(keys, i)] /\ KeyParts(keys, n + 1) = [i \in 1..(n + 1) |-> KeyPart(keys, i)]
      BY DEF KeyParts
    <3>2. parts \in Seq(Seq(KeySamples(keys))) /\ Len(parts) = n
      <4>. HIDE DEF parts
      <4>. QED
        BY <2>2, <3>1
    <3>3. p \in Seq(KeySamples(keys))
      BY <2>2
    <3>4. Append(parts, p) = [i \in 1..(n + 1) |-> IF i = n + 1 THEN p ELSE parts[i]]
      <4>. DEFINE A == Append(parts, p)
      <4>. HIDE DEF parts, p
      <4>1. A \in Seq(Seq(KeySamples(keys))) /\ Len(A) = n + 1
        BY <3>2, <3>3
      <4>2. \A i \in 1..(n + 1) : A[i] = IF i = n + 1 THEN p ELSE parts[i]
        BY <3>2, <3>3
      <4>. HIDE DEF A
      <4>3. A = [i \in 1..(n + 1) |-> A[i]]
        BY <4>1
      <4>4. A = [i \in 1..(n + 1) |-> IF i = n + 1 THEN p ELSE parts[i]]
        BY <4>2, <4>3
      <4>. QED
        BY <4>4 DEF A
    <3>5. \A i \in 1..(n + 1) : KeyPart(keys, i) = IF i = n + 1 THEN p ELSE parts[i]
      <4>. SUFFICES ASSUME NEW i \in 1..(n + 1), i # n + 1 PROVE KeyPart(keys, i) = parts[i]
        OBVIOUS
      <4>1. i \in 1..n
        OBVIOUS
      <4>. HIDE DEF parts
      <4>. QED
        BY <3>1, <4>1
    <3>. HIDE DEF parts, p
    <3>. QED
      BY <3>1, <3>2, <3>3, <3>4, <3>5
  <2>4. b(n + 1) = b(n) \o p
    <3>1. FlattenSeq(parts) \in Seq(KeySamples(keys))
      BY <2>1
    <3>2. FlattenSeq(Append(parts, p)) = FlattenSeq(parts) \o p
      <4>. HIDE DEF parts, p
      <4>. QED
        BY <2>3, <3>1, FlattenBySteps
    <3>. QED
      BY <2>3, <3>2
  <2>5. KeysLoaded(keys, n + 1, b(n) \o p)
    <3>. HIDE DEF b
    <3>. QED
      BY <2>1, KeyStep
  <2>6. b(n) \o p \in Seq(KeySamples(keys))
    <3>. HIDE DEF b, p
    <3>. QED
      BY <2>1, <2>3
  <2>. HIDE DEF b, p
  <2>. QED
    BY <2>4, <2>5, <2>6, Zenon
<1>3. Nat \subseteq S
  <2>. HIDE DEF S
  <2>. QED
    BY <1>1, <1>2, SetInduction
<1>4. Len(keys) \in S
  BY <1>0, <1>3
<1>. HIDE DEF b
<1>5. b(Len(keys)) \in Seq(KeySamples(keys)) /\ KeysLoaded(keys, Len(keys), b(Len(keys)))
  BY <1>0, <1>4
<1>. QED
  BY <1>5 DEF b

LEMMA LoadRadioml2016Good ==
    ASSUME NEW keys, Rml2016File(keys)
    PROVE  LET b == LoadRadioml2016(keys, SnrMin, MaxPerClass)
           IN  /\ GoodBatch(b)
               /\ \A a \in 1..Len(b) :
                    Cardinality({k \in 1..Len(b) : <<b[k].gt, b[k].snr>> = <<b[a].gt, b[a].snr>>})
                      <= MaxPerClass
<1>. DEFINE b == LoadRadioml2016(keys, SnrMin, MaxPerClass)
<1>1. b = FlattenSeq(KeyParts(keys, Len(keys)))
  BY DEF LoadRadioml2016, KeyParts, KeyPart, KeySample, KeyCount
<1>2. b \in Seq(KeySamples(keys)) /\ KeysLoaded(keys, Len(keys), b)
  <2>. HIDE DEF b
  <2>. QED
    BY <1>1, KeysFlattened
<1>. HIDE DEF b
<1>3. Len(keys) \in Nat /\ Len(b) \in Nat /\ DOMAIN b = 1..Len(b) /\ DOMAIN keys = 1..Len(keys)
  BY <1>2 DEF Rml2016File
<1>4. b \in Seq({b[k] : k \in DOMAIN b})
  BY <1>2
<1>5. ASSUME NEW k \in 1..Len(b)
      PROVE  /\ b[k].gt \in Labels /\ ~TooNoisy(b[k].snr, SnrMin) /\ b[k].len = 128
             /\ b[k].seg \in 0..(MaxPerClass - 1) /\ b[k].from = 128 * b[k].seg
  <2>1. PICK i \in 1..Len(keys) : \E e \in Nat : OfKey(keys, b[k], i, e)
    BY <1>2 DEF KeysLoaded
  <2>2. PICK e \in Nat : OfKey(keys, b[k], i, e)
    BY <2>1
  <2>3. keys[i].mod \in Labels /\ keys[i].n \in Nat
    BY <1>3 DEF Rml2016File
  <2>4. KeyCount(keys, i) \in Nat /\ KeyCount(keys, i) <= MaxPerClass
    BY <2>3, LesserIs, OptionsGiven DEF KeyCount
  <2>5. /\ b[k].gt = keys[i].mod /\ b[k].snr = keys[i].snr /\ b[k].len = 128
        /\ b[k].seg = e - 1 /\ b[k].from = 128 * (e - 1)
        /\ e \in 1..KeyCount(keys, i) /\ ~TooNoisy(keys[i].snr, SnrMin)
    BY <2>2 DEF OfKey, KeySample
  <2>6. b[k].seg \in 0..(MaxPerClass - 1) /\ b[k].from = 128 * b[k].seg
    BY <2>4, <2>5, OptionsGiven
  <2>. QED
    BY <2>3, <2>5, <2>6
<1>6. GoodBatch(b)
  <2>1. ASSUME NEW k \in 1..Len(b) PROVE SampleLike(b[k]) /\ ~TooNoisy(b[k].snr, SnrMin)
    BY <1>5, OptionsGiven DEF SampleLike
  <2>2. ASSUME NEW j \in 1..Len(b), NEW k \in 1..Len(b), j < k, b[j].gt = b[k].gt, b[j].snr = b[k].snr
        PROVE  b[j].from + b[j].len <= b[k].from
    <3>1. b[j].seg < b[k].seg
      BY <1>2, <2>2 DEF KeysLoaded
    <3>. QED
      BY <1>5, <3>1, OptionsGiven
  <2>. QED
    BY <1>3, <1>4, <2>1, <2>2 DEF GoodBatch, Apart
<1>7. ASSUME NEW a \in 1..Len(b)
      PROVE  Cardinality({k \in 1..Len(b) : <<b[k].gt, b[k].snr>> = <<b[a].gt, b[a].snr>>}) <= MaxPerClass
  <2>. DEFINE A == {k \in 1..Len(b) : <<b[k].gt, b[k].snr>> = <<b[a].gt, b[a].snr>>}
              f == [k \in A |-> b[k].seg]
              T == 0..(MaxPerClass - 1)
  <2>1. \A k \in A : k \in 1..Len(b) /\ b[k].gt = b[a].gt /\ b[k].snr = b[a].snr
    OBVIOUS
  <2>. HIDE DEF A
  <2>2. f \in [A -> T]
    BY <1>5, <2>1
  <2>3. ASSUME NEW j \in A, NEW k \in A, f[j] = f[k] PROVE j = k
    <3>1. b[j].gt = b[k].gt /\ b[j].snr = b[k].snr /\ j \in 1..Len(b) /\ k \in 1..Len(b)
      BY <2>1
    <3>2. b[j].seg = b[k].seg /\ b[j].seg \in Int /\ b[k].seg \in Int
      BY <1>5, <2>3, <3>1
    <3>3. ASSUME NEW l \in 1..Len(b), NEW m \in 1..Len(b), l < m, b[l].gt = b[m].gt, b[l].snr = b[m].snr
          PROVE  b[l].seg < b[m].seg
      BY <1>2, <3>3 DEF KeysLoaded
    <3>4. ~ (j < k) /\ ~ (k < j)
      BY <3>1, <3>2, <3>3
    <3>. QED
      BY <1>3, <3>1, <3>4
  <2>. HIDE DEF f
  <2>4. f \in Injection(A, T)
    BY <2>2, <2>3 DEF Injection, IsInjective
  <2>5. IsFiniteSet(T) /\ Cardinality(T) = MaxPerClass
    BY OptionsGiven, FS_Interval
  <2>6. Cardinality(A) <= MaxPerClass
    <3>. HIDE DEF T
    <3>. QED
      BY <2>4, <2>5, FS_Injection
  <2>. QED
    BY <2>6 DEF A
<1>. QED
  BY <1>6, <1>7 DEF b

\* What LoadersSound says of a batch that was loaded for a job.
BatchSound(job, b) ==
    LET of(a) == {k \in DOMAIN b : <<b[k].gt, b[k].snr>> = <<b[a].gt, b[a].snr>>}
    IN  /\ \A k \in DOMAIN b : ~TooNoisy(b[k].snr, SnrMin)
        /\ job.kind = "rml2016" => \A k \in DOMAIN b : Cardinality(of(k)) <= MaxPerClass
        /\ job.kind = "rml2018" => Len(b) <= 24 * MaxPerClass
        /\ \A a, c \in DOMAIN b : a < c /\ c \in of(a) => b[a].from + b[a].len <= b[c].from

LEMMA GoodBatchSound ==
    ASSUME NEW job, NEW b, GoodBatch(b),
           job.kind = "rml2016" =>
               \A a \in 1..Len(b) :
                    Cardinality({k \in 1..Len(b) : <<b[k].gt, b[k].snr>> = <<b[a].gt, b[a].snr>>})
                      <= MaxPerClass,
           job.kind = "rml2018" => Len(b) <= 24 * MaxPerClass
    PROVE  BatchSound(job, b)
<1>1. DOMAIN b = 1..Len(b)
  BY DEF GoodBatch
<1>2. \A k \in DOMAIN b : ~TooNoisy(b[k].snr, SnrMin)
  BY <1>1 DEF GoodBatch
<1>3. ASSUME NEW a \in DOMAIN b, NEW c \in DOMAIN b, a < c,
             c \in {k \in DOMAIN b : <<b[k].gt, b[k].snr>> = <<b[a].gt, b[a].snr>>}
      PROVE  b[a].from + b[a].len <= b[c].from
  <2>1. b[a].gt = b[c].gt /\ b[a].snr = b[c].snr
    BY <1>3
  <2>. QED
    BY <1>1, <1>3, <2>1 DEF GoodBatch, Apart
<1>4. job.kind = "rml2016" =>
        \A a \in DOMAIN b :
            Cardinality({k \in DOMAIN b : <<b[k].gt, b[k].snr>> = <<b[a].gt, b[a].snr>>}) <= MaxPerClass
  BY <1>1, Zenon
<1>. QED
  BY <1>2, <1>3, <1>4, Zenon DEF BatchSound

LEMMA LoadedByGood ==
    ASSUME NEW job \in Jobs, job.ok
    PROVE  GoodBatch(LoadedBy(job)) /\ BatchSound(job, LoadedBy(job))
<1>1. job.kind \in Kinds /\ Readable(job)
  BY PlansGiven
<1>2. CASE job.kind = "rml2016"
  <2>1. Rml2016File(job.file)
    BY <1>1, <1>2 DEF Readable, Rml2016File
  <2>2. LoadedBy(job) = LoadRadioml2016(job.file, SnrMin, MaxPerClass)
    BY <1>2 DEF LoadedBy
  <2>. DEFINE b == LoadRadioml2016(job.file, SnrMin, MaxPerClass)
  <2>3. GoodBatch(b) /\ \A a \in 1..Len(b) :
           Cardinality({k \in 1..Len(b) : <<b[k].gt, b[k].snr>> = <<b[a].gt, b[a].snr>>}) <= MaxPerClass
    BY <2>1, LoadRadioml2016Good
  <2>. HIDE DEF b
  <2>4. job.kind # "rml2018"
    BY <1>2
  <2>5. BatchSound(job, b)
    BY <2>3, <2>4, GoodBatchSound, Zenon
  <2>. QED
    BY <2>2, <2>3, <2>5 DEF b
<1>3. CASE job.kind = "rml2018"
  <2>1. job.file \in Seq(Range(job.file)) /\ \A k \in DOMAIN job.file : job.file[k].mod \in Labels
    BY <1>1, <1>3 DEF Readable
  <2>2. LoadedBy(job) = LoadRadioml2018(job.file, SnrMin, MaxPerClass)
    BY <1>3 DEF LoadedBy
  <2>. DEFINE b == LoadRadioml2018(job.file, SnrMin, MaxPerClass)
  <2>3. GoodBatch(b) /\ Len(b) <= 24 * MaxPerClass
    BY <2>1, LoadRadioml2018Good
  <2>. HIDE DEF b
  <2>4. job.kind # "rml2016"
    BY <1>3
  <2>5. BatchSound(job, b)
    BY <2>3, <2>4, GoodBatchSound, Zenon
  <2>. QED
    BY <2>2, <2>3, <2>5 DEF b
<1>4. CASE job.kind # "rml2016" /\ job.kind # "rml2018"
  <2>1. job.file.gt \in Labels /\ job.file.len \in Nat
    BY <1>1, <1>4 DEF Readable
  <2>2. LoadedBy(job) = Segments(job.file)
    BY <1>4 DEF LoadedBy
  <2>3. GoodBatch(Segments(job.file))
    BY <2>1, SegmentsGood
  <2>4. BatchSound(job, Segments(job.file))
    BY <1>4, <2>3, GoodBatchSound, Zenon
  <2>. QED
    BY <2>2, <2>3, <2>4
<1>. QED
  BY <1>2, <1>3, <1>4

-----------------------------------------------------------------------------
(* The slices of the feature extractor. *)

LEMMA TilesInside ==
    ASSUME NEW count \in Nat, NEW len \in Nat, len > 0, NEW n \in Nat, count * len <= n,
           NEW w \in Tiles(count, len)
    PROVE  Inside(w, n)
<1>1. PICK k \in 0..(count - 1) : w = <<k * len, (k + 1) * len>>
  BY DEF Tiles
<1>2. k \in Nat /\ k + 1 <= count
  OBVIOUS
<1>3. 0 <= k * len /\ k * len < (k + 1) * len /\ (k + 1) * len <= count * len
  BY <1>2
<1>. QED
  BY <1>1, <1>3 DEF Inside

\* A candidate's prefix is a part of its symbol.
LEMMA CandidateIs ==
    ASSUME NEW cand \in OfdmCandidates
    PROVE  cand[1] \in Nat /\ cand[2] \in Nat /\ 0 < cand[2] /\ cand[2] <= cand[1]
<1>1. PICK nfft \in {64, 128, 256, 512, 1024, 2048}, cp \in {4, 8, 16, 32} : cand = <<nfft, nfft \div cp>>
  BY DEF OfdmCandidates
<1>2. nfft \in Nat /\ nfft >= 64
  OBVIOUS
<1>3. nfft \div cp \in Nat /\ 0 < nfft \div cp /\ nfft \div cp <= nfft
  <2>1. CASE cp = 4
    BY <1>2, <2>1
  <2>2. CASE cp = 8
    BY <1>2, <2>2
  <2>3. CASE cp = 16
    BY <1>2, <2>3
  <2>4. CASE cp = 32
    BY <1>2, <2>4
  <2>. QED
    BY <2>1, <2>2, <2>3, <2>4
<1>. QED
  BY <1>1, <1>2, <1>3

\* The prefixes and tails lie in the symbols, and these in the samples.
LEMMA SymbolsInside ==
    ASSUME NEW n \in Nat, NEW cand \in OfdmCandidates, NEW start \in OfdmSymbols(n, cand)
    PROVE  LET p == CyclicPrefix(start, cand)
               t == SymbolTail(start, cand)
           IN  /\ Inside(p, n) /\ Inside(t, n)
               /\ t[2] - t[1] = p[2] - p[1]
               /\ t[2] = start + cand[1] + cand[2]
<1>. DEFINE len == AtMost(n, 32768)
            m == cand[1] + cand[2]
            count == len \div m
<1>1. /\ cand[1] \in Nat /\ cand[2] \in Nat /\ 0 < cand[2] /\ cand[2] <= cand[1]
      /\ m \in Nat /\ m > 0
  BY CandidateIs
<1>2. len \in Nat /\ len <= n
  BY DEF AtMost
<1>3. \E k \in 0..(count - 1) : start = k * m
  <2>. HIDE DEF m, len
  <2>1. OfdmSymbols(n, cand) = IF count < 2 THEN {} ELSE {k * m : k \in 0..(count - 1)}
    BY DEF OfdmSymbols, m, len
  <2>. HIDE DEF count
  <2>. QED
    BY <2>1
<1>. HIDE DEF m, len
<1>4. count \in Nat /\ count * m <= len
  BY <1>1, <1>2
<1>5. PICK k \in 0..(count - 1) : start = k * m
  BY <1>3
<1>. HIDE DEF count
<1>6. start \in Nat /\ start + m <= n
  <2>1. k \in Nat /\ k + 1 <= count
    BY <1>4
  <2>2. (k + 1) * m <= count * m /\ k * m \in Nat /\ (k + 1) * m = k * m + m
    BY <1>1, <1>4, <2>1
  <2>. QED
    BY <1>1, <1>2, <1>4, <1>5, <2>2
<1>7. /\ CyclicPrefix(start, cand) = <<start, start + cand[2]>>
      /\ SymbolTail(start, cand) = <<start + cand[1], start + cand[2] + cand[1]>>
  BY <1>1, <1>6 DEF CyclicPrefix, SymbolTail
<1>. QED
  BY <1>1, <1>6, <1>7 DEF Inside, m

\* Whatever the sample's length is, as soon as it has features.
LEMMA SlicesAreSound ==
    ASSUME NEW n \in Nat, Extracts(n)
    PROVE  SlicesSound(n, FftSize)
<1>. DEFINE bins == Nperseg(n, FftSize)
<1>0. n >= 256 /\ FftSize \in Nat /\ FftSize >= 4
  BY OptionsGiven DEF Extracts, MinSamples
<1>1. bins \in Nat /\ bins >= 4
  BY <1>0 DEF Nperseg, AtMost
<1>. HIDE DEF bins
<1>2. Inside(PsdLeft(bins), bins) /\ Inside(PsdRight(bins), bins)
  BY <1>1 DEF Inside, PsdLeft, PsdRight
<1>3. CumulantWindows(n) # {} /\ \A w \in CumulantWindows(n) : Inside(w, n)
  <2>1. n \div 256 \in Nat /\ 1 <= n \div 256 /\ (n \div 256) * 256 <= n
    BY <1>0
  <2>2. <<0 * 256, (0 + 1) * 256>> \in Tiles(n \div 256, 256)
    <3>. DEFINE c == n \div 256
    <3>1. 0 \in 0..(c - 1)
      <4>. HIDE DEF c
      <4>. QED
        BY <2>1 DEF c
    <3>. HIDE DEF c
    <3>2. <<0 * 256, (0 + 1) * 256>> \in Tiles(c, 256)
      BY <3>1, Zenon DEF Tiles
    <3>. QED
      BY <3>2 DEF c
  <2>. QED
    BY <2>1, <2>2, TilesInside DEF CumulantWindows
<1>4. \A w \in FhssSegments(n) : Inside(w, n)
  <2>1. CASE n \div 32 < 64
    BY <2>1 DEF FhssSegments
  <2>2. CASE ~ (n \div 32 < 64)
    <3>1. n \div 32 \in Nat /\ n \div 32 > 0 /\ 32 * (n \div 32) <= n
      BY <1>0, <2>2
    <3>. QED
      BY <2>2, <3>1, TilesInside DEF FhssSegments
  <2>. QED
    BY <2>1, <2>2
<1>5. \A w \in BurstWindows(n) : Inside(w, n)
  <2>1. AtLeast(1, n \div 100) \in Nat /\ AtLeast(1, n \div 100) > 0 /\ 100 * AtLeast(1, n \div 100) <= n
    BY <1>0 DEF AtLeast
  <2>. QED
    BY <2>1, TilesInside DEF BurstWindows
<1>6. Inside(ChirpWindow(n), n)
  BY <1>0 DEF Inside, ChirpWindow, AtMost
<1>7. \A w \in CumulantWindows(n) \union FhssSegments(n) \union BurstWindows(n)
                    \union {ChirpWindow(n)} : Inside(w, n)
  BY <1>3, <1>4, <1>5, <1>6
<1>. QED
  BY <1>2, <1>3, <1>7, SymbolsInside, Zenon DEF SlicesSound, bins

-----------------------------------------------------------------------------
(* The tables. *)

\* The samples of what can be loaded, and the rows run_batch() has for them.
Cut == UNION {{LoadedBy(job)[k] : k \in DOMAIN LoadedBy(job)} : job \in {j \in Jobs : j.ok}}
RowsOf == {Row(s) : s \in Cut} \union {ErrorRow(s) : s \in Cut}

LEMMA CutIs == \A s \in Cut : SampleLike(s)
<1>1. ASSUME NEW job \in Jobs, job.ok, NEW k \in DOMAIN LoadedBy(job)
      PROVE  SampleLike(LoadedBy(job)[k])
  BY <1>1, LoadedByGood DEF GoodBatch
<1>. QED
  BY <1>1 DEF Cut

LEMMA LoadedByCut ==
    ASSUME NEW job \in Jobs, job.ok
    PROVE  LoadedBy(job) \in Seq(Cut)
<1>. DEFINE b == LoadedBy(job)
            R == {b[k] : k \in DOMAIN b}
<1>1. b \in Seq(R)
  BY LoadedByGood DEF GoodBatch
<1>2. R \subseteq Cut
  BY DEF Cut
<1>. HIDE DEF b, R
<1>3. b \in Seq(Cut)
  BY <1>1, <1>2
<1>. QED
  BY <1>3 DEF b

LEMMA RowsKeepSamples == \A r \in RowsOf : r.sample \in Cut
  BY DEF RowsOf, Row, ErrorRow

\* The samples of a table, part by part.
LEMMA SamplesOfTable ==
    ASSUME NEW t \in Seq(RowsOf)
    PROVE  /\ SampleOf(t) \in Seq(Cut) /\ Len(SampleOf(t)) = Len(t)
           /\ \A k \in 1..Len(t) : SampleOf(t)[k] = t[k].sample
<1>1. SampleOf(t) = [k \in 1..Len(t) |-> t[k].sample]
  BY DEF SampleOf
<1>2. \A k \in 1..Len(t) : t[k].sample \in Cut
  BY RowsKeepSamples
<1>. QED
  BY <1>1, <1>2

LEMMA SamplesOfNext ==
    ASSUME NEW t \in Seq(RowsOf), NEW r \in RowsOf
    PROVE  SampleOf(Append(t, r)) = Append(SampleOf(t), r.sample)
<1>. DEFINE u == Append(t, r)
<1>1. u \in Seq(RowsOf) /\ Len(u) = Len(t) + 1 /\ u[Len(t) + 1] = r /\ \A k \in 1..Len(t) : u[k] = t[k]
  OBVIOUS
<1>. HIDE DEF u
<1>2. /\ SampleOf(u) \in Seq(Cut) /\ Len(SampleOf(u)) = Len(t) + 1
      /\ \A k \in 1..(Len(t) + 1) : SampleOf(u)[k] = u[k].sample
  BY <1>1, SamplesOfTable
<1>3. /\ SampleOf(t) \in Seq(Cut) /\ Len(SampleOf(t)) = Len(t)
      /\ \A k \in 1..Len(t) : SampleOf(t)[k] = t[k].sample
  BY SamplesOfTable
<1>4. r.sample \in Cut
  BY RowsKeepSamples
<1>. DEFINE x == r.sample
            a == SampleOf(u)
            c == Append(SampleOf(t), x)
<1>5. c \in Seq(Cut) /\ Len(c) = Len(t) + 1 /\ c[Len(t) + 1] = x /\ \A k \in 1..Len(t) : c[k] = SampleOf(t)[k]
  <2>. HIDE DEF x
  <2>. QED
    BY <1>3, <1>4 DEF x
<1>6. \A k \in 1..(Len(t) + 1) : a[k] = c[k]
  <2>. SUFFICES ASSUME NEW k \in 1..(Len(t) + 1) PROVE a[k] = c[k]
    OBVIOUS
  <2>. HIDE DEF a, c
  <2>1. CASE k = Len(t) + 1
    BY <1>1, <1>2, <1>5, <2>1 DEF a
  <2>2. CASE k # Len(t) + 1
    <3>1. k \in 1..Len(t)
      BY <2>2
    <3>. QED
      BY <1>1, <1>2, <1>3, <1>5, <3>1 DEF a
  <2>. QED
    BY <2>1, <2>2
<1>. HIDE DEF c
<1>7. a = c
  BY <1>2, <1>5, <1>6
<1>. QED
  BY <1>7 DEF u, c

\* A list behind another.
Joins(S, s, t, u) ==
    /\ u \in Seq(S) /\ Len(u) = Len(s) + Len(t)
    /\ \A k \in 1..Len(s) : u[k] = s[k]
    /\ \A k \in 1..Len(t) : u[Len(s) + k] = t[k]

LEMMA Behind ==
    ASSUME NEW S, NEW s \in Seq(S), NEW t \in Seq(S)
    PROVE  Joins(S, s, t, s \o t)
<1>1. s \o t \in Seq(S) /\ Len(s \o t) = Len(s) + Len(t)
  OBVIOUS
<1>2. \A k \in 1..Len(s) : (s \o t)[k] = s[k]
  OBVIOUS
<1>3. ASSUME NEW k \in 1..Len(t) PROVE (s \o t)[Len(s) + k] = t[k]
  <2>1. Len(s) + k \in 1..(Len(s) + Len(t)) /\ ~ (Len(s) + k \in 1..Len(s)) /\ Len(s) + k - Len(s) = k
    OBVIOUS
  <2>. QED
    BY <2>1
<1>. DEFINE u == s \o t
<1>. HIDE DEF u
<1>4. Joins(S, s, t, u)
  BY <1>1, <1>2, <1>3 DEF Joins, u
<1>. QED
  BY <1>4 DEF u

\* Lists of one length with the same elements.
LEMMA SameList ==
    ASSUME NEW S, NEW s \in Seq(S), NEW t \in Seq(S), Len(s) = Len(t),
           \A k \in 1..Len(s) : s[k] = t[k]
    PROVE  s = t
  OBVIOUS

\* The samples still to come move behind those that have a row.
LEMMA NextOfBatch ==
    ASSUME NEW S, NEW b \in Seq(S), NEW done \in Seq(S), NEW n \in Nat, n < Len(b)
    PROVE  Append(done, b[n + 1]) \o SubSeq(b, n + 2, Len(b)) = done \o SubSeq(b, n + 1, Len(b))
<1>. DEFINE x == b[n + 1]
            tail == SubSeq(b, n + 2, Len(b))
            both == SubSeq(b, n + 1, Len(b))
<1>1. Len(b) \in Nat /\ x \in S /\ n + 1 \in 1..(Len(b) + 1) /\ n + 2 \in 1..(Len(b) + 1)
  OBVIOUS
<1>2. /\ tail \in Seq(S) /\ Len(tail) = Len(b) - n - 1
      /\ \A k \in 1..Len(tail) : tail[k] = b[n + 1 + k]
  BY <1>1
<1>3. /\ both \in Seq(S) /\ Len(both) = Len(b) - n
      /\ \A k \in 1..Len(both) : both[k] = b[n + k]
  BY <1>1
<1>. HIDE DEF x, tail, both
<1>4. /\ Append(done, x) \in Seq(S) /\ Len(Append(done, x)) = Len(done) + 1
      /\ Append(done, x)[Len(done) + 1] = x /\ \A k \in 1..Len(done) : Append(done, x)[k] = done[k]
  BY <1>1
<1>. DEFINE a == Append(done, x) \o tail
            c == done \o both
<1>5. /\ a \in Seq(S) /\ Len(a) = Len(done) + 1 + Len(tail)
      /\ \A k \in 1..(Len(done) + 1) : a[k] = Append(done, x)[k]
      /\ \A k \in 1..Len(tail) : a[Len(done) + 1 + k] = tail[k]
  <2>. DEFINE d == Append(done, x)
  <2>1. d \in Seq(S) /\ Len(d) = Len(done) + 1
    BY <1>4
  <2>. HIDE DEF d
  <2>2. Joins(S, d, tail, d \o tail)
    BY <1>2, <2>1, Behind
  <2>3. Joins(S, d, tail, a)
    BY <2>2 DEF d
  <2>. HIDE DEF a
  <2>4. \A k \in 1..(Len(done) + 1) : a[k] = d[k]
    BY <2>1, <2>3 DEF Joins
  <2>. QED
    BY <2>1, <2>3, <2>4 DEF d, Joins
<1>6. /\ c \in Seq(S) /\ Len(c) = Len(done) + Len(both)
      /\ \A k \in 1..Len(done) : c[k] = done[k]
      /\ \A k \in 1..Len(both) : c[Len(done) + k] = both[k]
  <2>1. Joins(S, done, both, done \o both)
    BY <1>3, Behind
  <2>. QED
    BY <2>1, Zenon DEF Joins
<1>. HIDE DEF a, c
<1>7. Len(a) = Len(c) /\ Len(done) \in Nat /\ Len(c) \in Nat
  BY <1>1, <1>2, <1>3, <1>5, <1>6
<1>8. ASSUME NEW k \in 1..Len(c) PROVE a[k] = c[k]
  <2>1. CASE k <= Len(done)
    <3>1. k \in 1..Len(done) /\ k \in 1..(Len(done) + 1)
      BY <1>7, <2>1
    <3>. QED
      BY <1>4, <1>5, <1>6, <3>1, Zenon
  <2>2. CASE k = Len(done) + 1
    <3>1. a[k] = x
      BY <1>4, <1>5, <1>7, <2>2
    <3>2. 1 \in 1..Len(both) /\ both[1] = b[n + 1]
      BY <1>1, <1>3
    <3>3. c[k] = both[1]
      BY <1>6, <2>2, <3>2
    <3>. QED
      BY <3>1, <3>2, <3>3 DEF x
  <2>3. CASE k > Len(done) + 1
    <3>. DEFINE i == k - Len(done) - 1
    <3>1. i \in 1..Len(tail) /\ k = Len(done) + 1 + i /\ i + 1 \in 1..Len(both) /\ k = Len(done) + (i + 1)
      BY <1>1, <1>2, <1>3, <1>6, <1>7, <2>3
    <3>. HIDE DEF i
    <3>2. a[k] = tail[i] /\ c[k] = both[i + 1]
      BY <1>5, <1>6, <3>1
    <3>3. tail[i] = b[n + 1 + i] /\ both[i + 1] = b[n + (i + 1)] /\ n + 1 + i = n + (i + 1)
      BY <1>2, <1>3, <3>1
    <3>. QED
      BY <3>2, <3>3
  <2>. QED
    BY <1>7, <2>1, <2>2, <2>3
<1>9. a = c
  BY <1>5, <1>6, <1>7, <1>8, SameList
<1>. QED
  BY <1>9 DEF a, c, x, tail, both

LEMMA NextBehind ==
    ASSUME NEW S, NEW s \in Seq(S), NEW t \in Seq(S), NEW x \in S
    PROVE  s \o Append(t, x) = Append(s \o t, x)
<1>. DEFINE u == Append(t, x)
            st == s \o t
            a == s \o u
            c == Append(st, x)
<1>1. /\ u \in Seq(S) /\ Len(u) = Len(t) + 1 /\ u[Len(t) + 1] = x
      /\ \A k \in 1..Len(t) : u[k] = t[k]
  OBVIOUS
<1>. HIDE DEF u
<1>2. Joins(S, s, u, a)
  BY <1>1, Behind
<1>3. Joins(S, s, t, st)
  BY Behind
<1>. HIDE DEF st, a
<1>4. /\ c \in Seq(S) /\ Len(c) = Len(st) + 1 /\ c[Len(st) + 1] = x
      /\ \A k \in 1..Len(st) : c[k] = st[k]
  <2>1. st \in Seq(S)
    BY <1>3 DEF Joins
  <2>. QED
    BY <2>1
<1>. HIDE DEF c
<1>5. Len(a) = Len(c) /\ Len(c) = Len(s) + Len(t) + 1 /\ Len(s) \in Nat /\ Len(t) \in Nat
  BY <1>1, <1>2, <1>3, <1>4 DEF Joins
<1>6. ASSUME NEW k \in 1..Len(c) PROVE a[k] = c[k]
  <2>1. CASE k <= Len(s)
    <3>1. k \in 1..Len(s) /\ k \in 1..Len(st)
      BY <1>3, <1>5, <2>1 DEF Joins
    <3>. QED
      BY <1>2, <1>3, <1>4, <3>1 DEF Joins
  <2>2. CASE ~ (k <= Len(s)) /\ k <= Len(s) + Len(t)
    <3>. DEFINE i == k - Len(s)
    <3>1. i \in 1..Len(t) /\ i \in 1..Len(u) /\ k = Len(s) + i /\ k \in 1..Len(st)
      BY <1>1, <1>3, <1>5, <2>2 DEF Joins
    <3>. HIDE DEF i
    <3>2. a[k] = u[i] /\ u[i] = t[i] /\ st[k] = t[i] /\ c[k] = st[k]
      BY <1>1, <1>2, <1>3, <1>4, <3>1 DEF Joins
    <3>. QED
      BY <3>2
  <2>3. CASE k = Len(s) + Len(t) + 1
    <3>1. Len(t) + 1 \in 1..Len(u) /\ k = Len(s) + (Len(t) + 1) /\ k = Len(st) + 1
      BY <1>1, <1>3, <1>5, <2>3 DEF Joins
    <3>2. a[Len(s) + (Len(t) + 1)] = u[Len(t) + 1]
      BY <1>2, <3>1 DEF Joins
    <3>. QED
      BY <1>1, <1>4, <3>1, <3>2
  <2>4. k <= Len(s) \/ (~ (k <= Len(s)) /\ k <= Len(s) + Len(t)) \/ k = Len(s) + Len(t) + 1
    BY <1>5
  <2>. QED
    BY <2>1, <2>2, <2>3, <2>4, Zenon
<1>7. a = c
  <2>1. a \in Seq(S)
    BY <1>2 DEF Joins
  <2>. QED
    BY <1>4, <1>5, <1>6, <2>1, SameList
<1>. QED
  BY <1>7 DEF a, c, u, st

-----------------------------------------------------------------------------
(* The invariant. *)

\* RowsMatchSamples with the types it needs, and where the batch comes from.
HarnessInv ==
    /\ pc \in {"load", "classify", "stress", "export", "done", "exit", "raised"}
    /\ jobs \in Seq(Jobs)
    /\ batch \in Seq(Cut)
    /\ samples \in Seq(Cut)
    /\ rows \in Seq(RowsOf)
    /\ Len(rows) <= Len(batch)
    /\ dfs \in Seq(Seq(RowsOf))
    /\ FlattenSeq(dfs) \in Seq(RowsOf)
    /\ pc = "classify" => jobs # <<>> /\ Head(jobs).ok /\ batch = LoadedBy(Head(jobs))
    /\ pc \in {"stress", "export", "done", "exit"} => jobs = <<>>
    /\ RowsMatchSamples

LEMMA InvInit == Init => HarnessInv
<1>. SUFFICES ASSUME Init PROVE HarnessInv
  OBVIOUS
<1>1. FlattenSeq(dfs) = <<>>
  BY FlattenNone DEF Init
<1>2. SampleOf(<<>>) = <<>>
  BY DEF SampleOf
<1>3. RowsMatchSamples
  BY <1>1, <1>2 DEF Init, RowsMatchSamples
<1>4. jobs \in Seq(Jobs)
  BY PlansGiven DEF Init
<1>5. batch \in Seq(Cut) /\ samples \in Seq(Cut) /\ rows \in Seq(RowsOf) /\ dfs \in Seq(Seq(RowsOf))
  BY DEF Init
<1>6. /\ Len(rows) <= Len(batch) /\ FlattenSeq(dfs) \in Seq(RowsOf) /\ pc = "load"
  <2>1. rows = <<>> /\ batch = <<>> /\ pc = "load"
    BY DEF Init
  <2>2. Len(<<>>) <= Len(<<>>) /\ <<>> \in Seq(RowsOf)
    OBVIOUS
  <2>. QED
    BY <1>1, <2>1, <2>2, Zenon
<1>. QED
  BY <1>3, <1>4, <1>5, <1>6 DEF HarnessInv

LEMMA LoadInv == HarnessInv /\ Load => HarnessInv'
<1>. SUFFICES ASSUME HarnessInv, Load PROVE HarnessInv'
  OBVIOUS
<1>. DEFINE job == Head(jobs)
            b == LoadedBy(job)
            F == FlattenSeq(dfs)
<1>1. job \in Jobs /\ job.ok
  BY DEF HarnessInv, Load
<1>2. b \in Seq(Cut)
  BY <1>1, LoadedByCut
<1>3. /\ pc' = "classify" /\ jobs' = jobs /\ batch' = b /\ samples' = samples \o b /\ rows' = <<>>
      /\ dfs' = dfs /\ jobs # <<>>
  BY DEF Load
<1>4. SampleOf(F) = samples /\ F \in Seq(RowsOf) /\ samples \in Seq(Cut)
  BY DEF HarnessInv, RowsMatchSamples, Load
<1>. HIDE DEF b, F
<1>5. F \o <<>> = F /\ SubSeq(b, 1, Len(b)) = b /\ Len(<<>>) + 1 = 1 /\ Len(b) \in Nat
  BY <1>2, <1>4
<1>6. SampleOf(F \o <<>>) \o SubSeq(b, Len(<<>>) + 1, Len(b)) = samples \o b
  BY <1>4, <1>5
<1>7. RowsMatchSamples'
  BY <1>3, <1>6 DEF RowsMatchSamples, F
<1>8. samples \o b \in Seq(Cut)
  BY <1>2, <1>4
<1>9. rows' \in Seq(RowsOf) /\ Len(rows') <= Len(b)
  BY <1>3, <1>5
<1>. QED
  BY <1>1, <1>2, <1>3, <1>7, <1>8, <1>9 DEF HarnessInv, b

LEMMA LoadFailsInv == HarnessInv /\ LoadFails => HarnessInv'
<1>. SUFFICES ASSUME HarnessInv, LoadFails PROVE HarnessInv'
  OBVIOUS
<1>0. jobs \in Seq(Jobs) /\ jobs # <<>> /\ Tail(jobs) \in Seq(Jobs)
  <2>1. jobs \in Seq(Jobs) /\ jobs # <<>>
    BY DEF HarnessInv, LoadFails
  <2>. QED
    BY <2>1
<1>1. pc' \in {"load", "raised"} /\ pc = "load" /\ jobs' \in Seq(Jobs)
  <2>1. pc = "load" /\ (jobs' = jobs \/ jobs' = Tail(jobs)) /\ (pc' = pc \/ pc' = "raised")
    BY Zenon DEF LoadFails
  <2>. QED
    BY <1>0, <2>1
<1>2. UNCHANGED <<batch, rows, samples, dfs, table>>
  BY DEF LoadFails
<1>3. RowsMatchSamples'
  BY <1>1, <1>2 DEF HarnessInv, RowsMatchSamples
<1>. QED
  BY <1>1, <1>2, <1>3 DEF HarnessInv

LEMMA ClassifyNextInv == HarnessInv /\ ClassifyNext => HarnessInv'
<1>. SUFFICES ASSUME HarnessInv, ClassifyNext PROVE HarnessInv'
  OBVIOUS
<1>. DEFINE n == Len(rows)
            s == batch[n + 1]
            F == FlattenSeq(dfs)
<1>0. /\ pc = "classify" /\ n \in Nat /\ n < Len(batch) /\ Len(batch) \in Nat
      /\ UNCHANGED <<pc, jobs, batch, samples, dfs, table>>
      /\ rows \in Seq(RowsOf) /\ batch \in Seq(Cut) /\ F \in Seq(RowsOf)
      /\ SampleOf(F \o rows) \o SubSeq(batch, n + 1, Len(batch)) = samples
  <2>1. pc = "classify" /\ n < Len(batch) /\ UNCHANGED <<pc, jobs, batch, samples, dfs, table>>
    BY Zenon DEF ClassifyNext
  <2>2. rows \in Seq(RowsOf) /\ batch \in Seq(Cut) /\ F \in Seq(RowsOf) /\ RowsMatchSamples
    BY Zenon DEF HarnessInv
  <2>3. SampleOf(F \o rows) \o SubSeq(batch, n + 1, Len(batch)) = samples
    BY <2>1, <2>2, Zenon DEF RowsMatchSamples
  <2>4. n \in Nat /\ Len(batch) \in Nat
    BY <2>2
  <2>. QED
    BY <2>1, <2>2, <2>3, <2>4, Zenon
<1>1. s \in Cut
  BY <1>0
<1>2. PICK r \in {Row(s), ErrorRow(s)} : rows' = Append(rows, r)
  BY DEF ClassifyNext
<1>3. r \in RowsOf /\ r.sample = s
  BY <1>1, <1>2 DEF RowsOf, Row, ErrorRow
<1>4. rows' \in Seq(RowsOf) /\ Len(rows') = n + 1
  BY <1>0, <1>2, <1>3
<1>. HIDE DEF F, n, s
<1>5. F \o rows' = Append(F \o rows, r) /\ F \o rows \in Seq(RowsOf)
  <2>1. F \o Append(rows, r) = Append(F \o rows, r)
    BY <1>0, <1>3, NextBehind
  <2>. QED
    BY <1>0, <1>2, <2>1
<1>6. SampleOf(F \o rows') = Append(SampleOf(F \o rows), s)
  BY <1>3, <1>5, SamplesOfNext
<1>7. SampleOf(F \o rows) \in Seq(Cut)
  BY <1>5, SamplesOfTable
<1>8. Append(SampleOf(F \o rows), s) \o SubSeq(batch, n + 2, Len(batch))
        = SampleOf(F \o rows) \o SubSeq(batch, n + 1, Len(batch))
  BY <1>0, <1>7, NextOfBatch DEF s
<1>9. SampleOf(F \o rows') \o SubSeq(batch, Len(rows') + 1, Len(batch)) = samples
  <2>1. Len(rows') + 1 = n + 2
    BY <1>0, <1>4
  <2>. QED
    BY <1>0, <1>6, <1>8, <2>1
<1>10. RowsMatchSamples'
  BY <1>0, <1>9 DEF RowsMatchSamples, F
<1>11. Len(rows') <= Len(batch)
  BY <1>0, <1>4
<1>. QED
  BY <1>0, <1>4, <1>10, <1>11 DEF HarnessInv

LEMMA EndBatchInv == HarnessInv /\ EndBatch => HarnessInv'
<1>. SUFFICES ASSUME HarnessInv, EndBatch PROVE HarnessInv'
  OBVIOUS
<1>. DEFINE F == FlattenSeq(dfs)
<1>0. /\ pc = "classify" /\ Len(rows) = Len(batch) /\ dfs' = Append(dfs, rows)
      /\ UNCHANGED <<batch, rows, samples, table>> /\ jobs' = Tail(jobs) /\ pc' \in {"load", "raised"}
      /\ jobs \in Seq(Jobs) /\ jobs # <<>> /\ dfs \in Seq(Seq(RowsOf))
      /\ rows \in Seq(RowsOf) /\ batch \in Seq(Cut) /\ F \in Seq(RowsOf)
      /\ SampleOf(F \o rows) \o SubSeq(batch, Len(rows) + 1, Len(batch)) = samples
  BY DEF HarnessInv, RowsMatchSamples, EndBatch
<1>1. FlattenSeq(dfs') = F \o rows
  BY <1>0, FlattenBySteps
<1>. HIDE DEF F
<1>2. F \o rows \in Seq(RowsOf) /\ dfs' \in Seq(Seq(RowsOf)) /\ jobs' \in Seq(Jobs)
  BY <1>0
<1>3. SampleOf(F \o rows) \in Seq(Cut)
  BY <1>2, SamplesOfTable
<1>4. SubSeq(batch, Len(rows) + 1, Len(batch)) = <<>>
  BY <1>0
<1>5. SampleOf(F \o rows) = samples
  BY <1>0, <1>3, <1>4
<1>6. RowsMatchSamples'
  BY <1>0, <1>1, <1>5 DEF RowsMatchSamples
<1>. QED
  BY <1>0, <1>1, <1>2, <1>6 DEF HarnessInv

LEMMA FinishInv == HarnessInv /\ (Combine \/ Stress \/ Export) => HarnessInv'
<1>. SUFFICES ASSUME HarnessInv, Combine \/ Stress \/ Export PROVE HarnessInv'
  OBVIOUS
<1>1. /\ UNCHANGED <<jobs, batch, rows, samples, dfs>> /\ jobs = <<>> /\ pc # "classify"
      /\ pc' \in {"exit", "raised", "stress", "export", "done"}
      /\ pc' = "done" => table' = FlattenSeq(dfs)
  BY DEF HarnessInv, Combine, Stress, Export
<1>2. RowsMatchSamples'
  BY <1>1 DEF HarnessInv, RowsMatchSamples
<1>. QED
  BY <1>1, <1>2 DEF HarnessInv

LEMMA InvNext == HarnessInv /\ [Next]_vars => HarnessInv'
<1>1. ASSUME HarnessInv, UNCHANGED vars PROVE HarnessInv'
  BY <1>1 DEF HarnessInv, RowsMatchSamples, vars
<1>. QED
  BY <1>1, LoadInv, LoadFailsInv, ClassifyNextInv, EndBatchInv, FinishInv DEF Next

LEMMA HarnessInvHolds == Spec => []HarnessInv
  BY InvInit, InvNext, PTL DEF Spec

LEMMA InvSamples == HarnessInv => SamplesSound
<1>. SUFFICES ASSUME HarnessInv PROVE SamplesSound
  OBVIOUS
<1>1. \A k \in DOMAIN samples : SampleLike(samples[k])
  BY CutIs DEF HarnessInv
<1>2. TypeOK
  BY <1>1 DEF HarnessInv, TypeOK, SampleLike
<1>3. RowsMatchSamples
  BY DEF HarnessInv
<1>4. ASSUME pc = "classify" PROVE BatchSound(Head(jobs), batch)
  <2>1. Head(jobs) \in Jobs /\ Head(jobs).ok /\ batch = LoadedBy(Head(jobs))
    BY <1>4 DEF HarnessInv
  <2>. QED
    BY <2>1, LoadedByGood
<1>5. LoadersSound
  BY <1>4, Zenon DEF LoadersSound, BatchSound
<1>6. SlicesInside
  <2>. SUFFICES ASSUME NEW k \in DOMAIN samples, Extracts(samples[k].len)
                PROVE  SlicesSoundFor[samples[k].len]
    BY DEF SlicesInside
  <2>1. samples[k].len \in {1024, SegmentLen}
    BY <1>1 DEF SampleLike, Extracts, MinSamples
  <2>2. samples[k].len \in Nat
    BY <2>1 DEF SegmentLen
  <2>3. SlicesSound(samples[k].len, FftSize)
    BY <2>2, SlicesAreSound
  <2>. QED
    BY <2>1, <2>3 DEF SlicesSoundFor
<1>. QED
  BY <1>2, <1>3, <1>5, <1>6 DEF SamplesSound

\* Whatever is loaded and whatever raises, the samples are cut out of the files
\* soundly and every one of them has its row (run_batch(), main() and the
\* loaders of datasets.py).
THEOREM SamplesAreSound == Spec => []SamplesSound
  BY HarnessInvHolds, InvSamples, PTL

-----------------------------------------------------------------------------
(* The scores. *)

\* The tables only hold rows of run_batch().
LEMMA RowsAreOf ==
    ASSUME HarnessInv, NEW d \in DOMAIN dfs, NEW k \in DOMAIN dfs[d]
    PROVE  dfs[d][k] \in RowsOf
<1>1. dfs \in Seq(Seq(RowsOf))
  BY DEF HarnessInv
<1>2. dfs[d] \in Seq(RowsOf)
  BY <1>1
<1>. QED
  BY <1>2

LEMMA NotBelow == \A x \in Int : ~ (x < 5) => x >= 5
  OBVIOUS

LEMMA AnalogOutside ==
    \A d \in {"FM_WB", "FM_NB", "PM", "SSB_USB", "SSB_LSB", "AM_DSB_SC", "CW", "AM_DSB_LC"} :
        d \notin {"OFDM", "CSS", "FHSS", "UNCLASSIFIED", ""}
  BY Zenon

LEMMA DigitalOutside ==
    \A d \in {"BPSK", "QPSK", "8PSK", "PSK", "FM_WB", "FM_NB", "MSK/GMSK", "FSK", "QAM16", "QAM64", "QAM32",
             "QAM256", "M-ASK/OOK", "UNKNOWN"} :
        d \notin {"OFDM", "CSS", "FHSS", "UNCLASSIFIED", ""}
  BY Zenon

\* What MirrorClassify() counts as classified, the gate and the structural tests
\* have let through.
LEMMA ClassifiedIsGated ==
    ASSUME NEW f, f.snr \in Int, MirrorClassify(f).classified
    PROVE  /\ f.snr >= 5
           /\ Detected(MirrorClassify(f)) \notin {"OFDM", "CSS", "FHSS", "UNCLASSIFIED", ""}
<1>. DEFINE r == MirrorBlank(f)
<1>1. /\ r.classified = FALSE /\ r.analog = "" /\ r.digital = ""
      /\ [r EXCEPT !.digital = Structural(f), !.isOfdm = Structural(f) = "OFDM"].classified = FALSE
  BY DEF MirrorBlank
<1>. DEFINE x == [r EXCEPT !.digital = Structural(f), !.isOfdm = Structural(f) = "OFDM"]
<1>. HIDE DEF r, x
<1>2. Structural(f) = "" /\ ~ (f.snr < 5)
  <2>1. ASSUME Structural(f) # "" PROVE FALSE
    <3>1. MirrorClassify(f) = x
      BY <2>1, Zenon DEF MirrorClassify, r, x
    <3>2. x.classified = FALSE
      BY <1>1, Zenon DEF x
    <3>. QED
      BY <3>1, <3>2, Zenon
  <2>2. ASSUME Structural(f) = "", f.snr < 5 PROVE FALSE
    <3>1. MirrorClassify(f) = r
      BY <2>2, Zenon DEF MirrorClassify, r
    <3>. QED
      BY <1>1, <3>1, Zenon
  <2>. QED
    BY <2>1, <2>2, Zenon
<1>3. CASE MirrorIsAnalog(f)
  <2>1. MirrorClassify(f) = [r EXCEPT !.classified = TRUE, !.analog = MirrorAnalog(f)]
    BY <1>2, <1>3, Zenon DEF MirrorClassify, r
  <2>2. MirrorClassify(f).analog = MirrorAnalog(f)
    BY <2>1 DEF MirrorBlank, r
  <2>3. MirrorAnalog(f) \in {"FM_WB", "FM_NB", "PM", "SSB_USB", "SSB_LSB", "AM_DSB_SC", "CW", "AM_DSB_LC"}
    BY DEF MirrorAnalog
  <2>. HIDE DEF r
  <2>4. Detected(MirrorClassify(f)) = MirrorAnalog(f)
    BY <2>2, <2>3, Zenon DEF Detected
  <2>5. f.snr >= 5
    BY <1>2, NotBelow, Zenon
  <2>. QED
    BY <2>3, <2>4, <2>5, AnalogOutside, Zenon
<1>4. CASE ~MirrorIsAnalog(f)
  <2>1. MirrorClassify(f) = [r EXCEPT !.classified = TRUE, !.digital = MirrorDigital(f), !.sr = f.sr]
    BY <1>2, <1>4, Zenon DEF MirrorClassify, r
  <2>2. MirrorClassify(f).digital = MirrorDigital(f) /\ MirrorClassify(f).analog = ""
    BY <2>1 DEF MirrorBlank, r
  <2>3. MirrorDigital(f) \in {"BPSK", "QPSK", "8PSK", "PSK", "FM_WB", "FM_NB", "MSK/GMSK", "FSK", "QAM16",
                               "QAM64", "QAM32", "QAM256", "M-ASK/OOK", "UNKNOWN"}
    <3>1. MirrorFrequency(f) \in {"8PSK", "FM_WB", "FM_NB", "MSK/GMSK", "FSK"}
      BY DEF MirrorFrequency, FmByDeviation
    <3>2. MirrorConstantEnvelope(f) \in {"BPSK", "QPSK", "PSK"} \union {MirrorFrequency(f)}
      BY DEF MirrorConstantEnvelope
    <3>3. MirrorVariableAmplitude(f) \in {"BPSK", "QPSK", "QAM16", "QAM64", "QAM32", "QAM256", "M-ASK/OOK", "UNKNOWN"}
      BY DEF MirrorVariableAmplitude
    <3>. QED
      BY <3>1, <3>2, <3>3 DEF MirrorDigital
  <2>4. Detected(MirrorClassify(f)) = MirrorDigital(f)
    BY <2>2, Zenon DEF Detected
  <2>5. f.snr >= 5
    BY <1>2, NotBelow, Zenon
  <2>. QED
    BY <2>3, <2>4, <2>5, DigitalOutside, Zenon
<1>. QED
  BY <1>3, <1>4, Zenon

\* A row that counts as classified is one of a sample with features, and shows
\* what they gave.
LEMMA ClassifiedRow ==
    ASSUME NEW row \in RowsOf, row.classified
    PROVE  LET f == FeaturesOf[row.sample.gt]
           IN  /\ Extracts(row.sample.len) /\ row.sample.gt \in Labels
               /\ Features(row.sample) = f
               /\ MirrorClassify(f).classified
               /\ row.detected = Detected(MirrorClassify(f))
               /\ row.hypotheses = MirrorHypotheses(f, MirrorClassify(f))
<1>1. PICK s \in Cut : row = Row(s) \/ row = ErrorRow(s)
  BY DEF RowsOf
<1>2. ErrorRow(s).classified = FALSE
  BY DEF ErrorRow
<1>3. row = Row(s)
  BY <1>1, <1>2
<1>4. s.gt \in Labels
  BY CutIs DEF SampleLike
<1>. DEFINE x == IF Extracts(s.len) THEN LongScores[s.gt] ELSE ShortScores[s.gt]
<1>5. /\ row.sample = s /\ row.classified = x.classified /\ row.detected = x.detected
      /\ row.hypotheses = x.hypotheses
  BY <1>3 DEF Row
<1>6. LongScores[s.gt] = ScoresOf(s.gt, FeaturesOf[s.gt]) /\ ShortScores[s.gt] = ScoresOf(s.gt, BlankFeatures)
  <2>. DEFINE long(gt) == ScoresOf(gt, FeaturesOf[gt])
              short(gt) == ScoresOf(gt, BlankFeatures)
  <2>1. LongScores = [gt \in Labels |-> long(gt)] /\ ShortScores = [gt \in Labels |-> short(gt)]
    BY DEF LongScores, ShortScores
  <2>. HIDE DEF long, short
  <2>2. LongScores[s.gt] = long(s.gt) /\ ShortScores[s.gt] = short(s.gt)
    BY <1>4, <2>1
  <2>. QED
    BY <2>2 DEF long, short
<1>7. ASSUME NEW gt, NEW f
      PROVE  /\ ScoresOf(gt, f).classified = MirrorClassify(f).classified
             /\ ScoresOf(gt, f).detected = IF Detected(MirrorClassify(f)) = "" THEN "UNCLASSIFIED"
                                           ELSE Detected(MirrorClassify(f))
             /\ ScoresOf(gt, f).hypotheses = IF MirrorClassify(f).classified
                                             THEN MirrorHypotheses(f, MirrorClassify(f)) ELSE <<>>
  BY DEF ScoresOf
<1>8. Extracts(s.len)
  <2>. SUFFICES ASSUME ~Extracts(s.len) PROVE FALSE
    OBVIOUS
  <2>1. MirrorClassify(BlankFeatures).classified
    <3>1. x = ScoresOf(s.gt, BlankFeatures)
      BY <1>6
    <3>. HIDE DEF x
    <3>2. x.classified
      BY <1>5, <1>3, Zenon
    <3>. QED
      BY <1>7, <3>1, <3>2, Zenon
  <2>2. BlankFeatures.snr = 0
    BY DEF BlankFeatures
  <2>3. BlankFeatures.snr \in Int /\ BlankFeatures.snr < 5 /\ ~ (BlankFeatures.snr >= 5)
    BY <2>2
  <2>. HIDE DEF x
  <2>4. BlankFeatures.snr >= 5
    BY <2>1, <2>3, ClassifiedIsGated, Zenon
  <2>. QED
    BY <2>3, <2>4
<1>. DEFINE f == FeaturesOf[s.gt]
<1>14. x = ScoresOf(s.gt, f)
  BY <1>6, <1>8
<1>. HIDE DEF x, f
<1>15. x.classified
  BY <1>5, Zenon
<1>9. MirrorClassify(f).classified
  BY <1>7, <1>14, <1>15, Zenon
<1>10. f.snr \in Int
  BY <1>4, FeaturesGiven DEF f
<1>11. Detected(MirrorClassify(f)) # ""
  BY <1>9, <1>10, ClassifiedIsGated, Zenon
<1>12. row.detected = Detected(MirrorClassify(f)) /\ row.hypotheses = MirrorHypotheses(f, MirrorClassify(f))
  BY <1>5, <1>7, <1>14, <1>9, <1>11, Zenon
<1>13. Features(s) = f
  BY <1>8 DEF Features, f
<1>. QED
  BY <1>4, <1>5, <1>8, <1>9, <1>12, <1>13, Zenon DEF f

LEMMA InvGated == HarnessInv => OnlyGatedRowsScore
<1>. SUFFICES ASSUME HarnessInv, NEW d \in DOMAIN dfs, NEW k \in DOMAIN dfs[d], dfs[d][k].classified
              PROVE  LET row == dfs[d][k]
                     IN  /\ row.sample.len >= 256
                         /\ Features(row.sample).snr >= 5
                         /\ row.detected \notin {"OFDM", "CSS", "FHSS", "UNCLASSIFIED"}
  BY Zenon DEF OnlyGatedRowsScore
<1>. DEFINE row == dfs[d][k]
            f == FeaturesOf[row.sample.gt]
<1>1. row \in RowsOf
  BY RowsAreOf
<1>. HIDE DEF row
<1>2. /\ Extracts(row.sample.len) /\ row.sample.gt \in Labels
      /\ Features(row.sample) = f
      /\ MirrorClassify(f).classified
      /\ row.detected = Detected(MirrorClassify(f))
  <2>1. row.classified
    BY DEF row
  <2>. QED
    BY <1>1, <2>1, ClassifiedRow
<1>3. f.snr \in Int
  BY <1>2, FeaturesGiven
<1>. HIDE DEF f
<1>4. f.snr >= 5 /\ Detected(MirrorClassify(f)) \notin {"OFDM", "CSS", "FHSS", "UNCLASSIFIED", ""}
  BY <1>2, <1>3, ClassifiedIsGated, Zenon
<1>5. row.sample.len >= 256
  BY <1>2 DEF Extracts, MinSamples
<1>6. row.detected \notin {"OFDM", "CSS", "FHSS", "UNCLASSIFIED"} /\ Features(row.sample).snr >= 5
  <2>1. Features(row.sample) = f /\ row.detected = Detected(MirrorClassify(f))
    BY <1>2
  <2>2. row.detected \notin {"OFDM", "CSS", "FHSS", "UNCLASSIFIED"}
    <3>. DEFINE e == Detected(MirrorClassify(f))
    <3>1. e \notin {"OFDM", "CSS", "FHSS", "UNCLASSIFIED"} /\ row.detected = e
      BY <1>4, <2>1, Zenon
    <3>. HIDE DEF e
    <3>. QED
      BY <3>1
  <2>. QED
    BY <1>4, <2>1, <2>2, Zenon
<1>. QED
  BY <1>5, <1>6, Zenon DEF row

\* The labels of the two RadioML sets, one by one.
LEMMA LabelHasFamily ==
    ASSUME NEW gt \in (RADIOML_2016_MODS \union RADIOML_2018_MODS) \ {"64QAM"}
    PROVE  family(canonical(gt)) \in Families
<1>1. canonical(gt) \in {"8PSK", "AM_DSB_LC", "SSB", "BPSK", "FSK", "M-ASK/OOK", "QAM16", "QAM64", "QPSK", "FM_WB",
                         "PSK", "QAM32", "QAM256", "AM_DSB_SC", "MSK/GMSK"}
  BY DEF RADIOML_2016_MODS, RADIOML_2018_MODS, canonical
<1>2. \A m \in {"8PSK", "AM_DSB_LC", "SSB", "BPSK", "FSK", "M-ASK/OOK", "QAM16", "QAM64", "QPSK", "FM_WB",
               "PSK", "QAM32", "QAM256", "AM_DSB_SC", "MSK/GMSK"} : family(m) \in Families
  BY DEF family, Families
<1>. QED
  BY <1>1, <1>2

LEMMA InvLabels == HarnessInv => LabelsScorable
  BY LabelHasFamily, Zenon DEF LabelsScorable

-----------------------------------------------------------------------------
(* The ranking. *)

LEMMA BellIsInt == \A q \in Nat : Cpp!Bell(q) \in Int
<1>. SUFFICES ASSUME NEW q \in Nat PROVE Cpp!Bell(q) \in Int
  OBVIOUS
<1>1. CASE q >= 15
  BY <1>1 DEF Cpp!Bell
<1>2. CASE ~ (q >= 15)
  <2>. DEFINE bell == <<1000, 970, 883, 755, 607, 458, 325, 217, 136, 80, 44, 23, 12, 6, 3>>
  <2>1. bell \in [1..15 -> Int]
    OBVIOUS
  <2>2. Cpp!Bell(q) = bell[q + 1]
    BY <1>2 DEF Cpp!Bell
  <2>. HIDE DEF bell
  <2>3. \A i \in 1..15 : bell[i] \in Int
    BY <2>1
  <2>4. q + 1 \in 1..15
    BY <1>2
  <2>. QED
    BY <2>2, <2>3, <2>4
<1>. QED
  BY <1>1, <1>2

LEMMA RangeIsInt ==
    ASSUME NEW range, range[1] \in Nat, range[2] \in Nat, range[1] <= range[2], NEW x \in Nat, NEW unit \in Nat \ {0}
    PROVE  MirrorRange(range, x, unit) \in Int
<1>. DEFINE lo == range[1]
            hi == range[2]
            twice == IF 2 * x < lo + hi THEN lo + hi - 2 * x ELSE 2 * x - lo - hi
            bell == Cpp!Bell((4 * twice) \div (hi - lo + 2 * unit))
<1>. HIDE DEF lo, hi
<1>1. lo \in Nat /\ hi \in Nat /\ lo <= hi
  BY DEF lo, hi
<1>2. twice \in Nat /\ hi - lo + 2 * unit \in Nat /\ hi - lo + 2 * unit > 0
  BY <1>1
<1>3. (4 * twice) \div (hi - lo + 2 * unit) \in Nat
  <2>. DEFINE a == 4 * twice
              b == hi - lo + 2 * unit
  <2>1. a \in Nat /\ b \in Nat /\ b > 0
    BY <1>2
  <2>. HIDE DEF a, b
  <2>2. a \div b \in Nat
    BY <2>1
  <2>. QED
    BY <2>2 DEF a, b
<1>4. bell \in Int
  <2>. HIDE DEF twice
  <2>. QED
    BY <1>3, BellIsInt
<1>. DEFINE none == range = <<0, 0>> \/ x = 0
            inside == lo <= x /\ x <= hi
<1>5. MirrorRange(range, x, unit) = CASE none -> 400 [] inside -> 1000 [] OTHER -> bell
  BY DEF MirrorRange, lo, hi
<1>. HIDE DEF bell, none, inside
<1>. QED
  BY <1>4, <1>5

-----------------------------------------------------------------------------
(* The data base. *)

RangesOrdered(e) ==
    \A range \in {e.bw, e.sr} : range[1] \in Nat /\ range[2] \in Nat /\ range[1] <= range[2]

\* A list of n entries that bear different names, all of the set names.
Part(list, n, names) ==
    /\ list = [k \in 1..n |-> list[k]]
    /\ \A k \in 1..n : list[k].name \in names /\ RangesOrdered(list[k])
    /\ \A j, k \in 1..n : list[j].name = list[k].name => j = k

LEMMA PartsJoin ==
    ASSUME NEW a, NEW b, NEW m \in Nat, NEW n \in Nat, NEW M, NEW N,
           Part(a, m, M), Part(b, n, N), M \cap N = {}
    PROVE  Part(a \o b, m + n, M \cup N)
<1>. DEFINE S == {a[k] : k \in 1..m} \cup {b[k] : k \in 1..n}
            c == a \o b
<1>1. a \in Seq(S) /\ b \in Seq(S) /\ Len(a) = m /\ Len(b) = n
  <2>1. a = [k \in 1..m |-> a[k]] /\ b = [k \in 1..n |-> b[k]]
    BY Zenon DEF Part
  <2>2. (\A k \in 1..m : a[k] \in S) /\ (\A k \in 1..n : b[k] \in S)
    OBVIOUS
  <2>. HIDE DEF S
  <2>3. a \in Seq(S) /\ Len(a) = m
    BY ONLY m \in Nat, <2>1, <2>2
  <2>4. b \in Seq(S) /\ Len(b) = n
    BY ONLY n \in Nat, <2>1, <2>2
  <2>. QED
    BY <2>3, <2>4
<1>. HIDE DEF S
<1>2. /\ c = [k \in 1..(m + n) |-> c[k]]
      /\ \A k \in 1..m : c[k] = a[k]
      /\ \A k \in 1..(m + n) : k \notin 1..m => k - m \in 1..n /\ c[k] = b[k - m]
  <2>1. c \in Seq(S) /\ Len(c) = m + n
    BY <1>1
  <2>2. c = [k \in 1..(m + n) |-> c[k]]
    <3>. HIDE DEF c
    <3>. QED
      BY <2>1
  <2>3. \A k \in 1..m : c[k] = a[k]
    BY <1>1
  <2>4. \A k \in 1..(m + n) : k \notin 1..m => k - m \in 1..n /\ c[k] = b[k - m]
    BY <1>1
  <2>. QED
    BY <2>2, <2>3, <2>4, Zenon
<1>. HIDE DEF c
<1>3. ASSUME NEW k \in 1..(m + n)
      PROVE  \/ k \in 1..m /\ c[k] = a[k] /\ c[k].name \in M
             \/ k \notin 1..m /\ k - m \in 1..n /\ c[k] = b[k - m] /\ c[k].name \in N
  BY <1>2 DEF Part
<1>4. ASSUME NEW k \in 1..(m + n) PROVE c[k].name \in M \cup N /\ RangesOrdered(c[k])
  <2>1. RangesOrdered(c[k])
    BY <1>3, Zenon DEF Part
  <2>. QED
    BY <1>3, <2>1
<1>5. ASSUME NEW j \in 1..(m + n), NEW k \in 1..(m + n), c[j].name = c[k].name PROVE j = k
  <2>1. CASE j \in 1..m /\ k \in 1..m
    BY <1>2, <1>5, <2>1, Zenon DEF Part
  <2>2. CASE j \notin 1..m /\ k \notin 1..m
    <3>1. b[j - m].name = b[k - m].name /\ j - m \in 1..n /\ k - m \in 1..n
      BY <1>2, <1>5, <2>2
    <3>2. j - m = k - m
      BY <3>1, Zenon DEF Part
    <3>. QED
      BY <3>2
  <2>3. c[j].name \in M \/ c[k].name \in M => j \in 1..m /\ k \in 1..m
    BY <1>3, <1>5
  <2>. QED
    BY <1>3, <2>1, <2>2, <2>3
<1>. QED
  BY <1>2, <1>4, <1>5, Zenon DEF Part, c

BroadcastNames ==
    {"AM_Broadcast", "FM_Broadcast", "HD_Radio", "DAB/DAB+", "DRM"}
AviationNames ==
    {"VHF_Airband_AM", "ADS-B", "ACARS", "VOR/ILS"}
MarineNames ==
    {"AIS", "Marine_VHF_FM", "DSC"}
AmateurNames ==
    {"APRS", "FT8", "WSPR", "PSK31", "RTTY", "D-STAR"}
PublicSafetyNames ==
    {"P25_Phase_I", "TETRA", "DMR", "MPT1327"}
CellularNames ==
    {"GSM", "UMTS/WCDMA", "LTE", "5G_NR"}
IsmNames ==
    {"Wi-Fi_2.4_GHz", "Wi-Fi_5_GHz", "Bluetooth_Classic", "Bluetooth_LE", "Zigbee_802.15.4",
     "LoRa", "Z-Wave", "TPMS", "Key_Fob_Remote", "ANT+"}
SatelliteNames ==
    {"GPS_L1_C/A", "NOAA_APT", "Meteor_LRPT", "Iridium", "Inmarsat_AERO"}
RadarNames ==
    {"FMCW_Radar", "Pulse_Radar", "Weather_Radar_WSR-88D"}

LEMMA BroadcastPart == Part(MirrorBroadcast, 5, BroadcastNames)
<1>. DEFINE P == MirrorBroadcast
<1>1. \A k \in 1..5 : k = 1 \/ k = 2 \/ k = 3 \/ k = 4 \/ k = 5
  OBVIOUS
<1>2. /\ P[1].name = "AM_Broadcast"
      /\ P[2].name = "FM_Broadcast"
      /\ P[3].name = "HD_Radio"
      /\ P[4].name = "DAB/DAB+"
      /\ P[5].name = "DRM"
  BY SMT DEF MirrorBroadcast, MirrorSig
<1>3. \A e \in {P[1], P[2], P[3], P[4], P[5]} : RangesOrdered(e)
  BY SMT DEF MirrorBroadcast, MirrorSig, RangesOrdered
<1>4. P = [k \in 1..5 |-> P[k]]
  BY SMT DEF MirrorBroadcast
<1>. HIDE DEF P
<1>5. \A k \in 1..5 : P[k].name \in BroadcastNames /\ RangesOrdered(P[k])
  BY <1>1, <1>2, <1>3, SMT DEF BroadcastNames
<1>6. \A j, k \in 1..5 : P[j].name = P[k].name => j = k
  BY <1>1, <1>2, SMT
<1>. QED
  BY <1>4, <1>5, <1>6, Zenon DEF Part, P

LEMMA AviationPart == Part(MirrorAviation, 4, AviationNames)
<1>. DEFINE P == MirrorAviation
<1>1. \A k \in 1..4 : k = 1 \/ k = 2 \/ k = 3 \/ k = 4
  OBVIOUS
<1>2. /\ P[1].name = "VHF_Airband_AM"
      /\ P[2].name = "ADS-B"
      /\ P[3].name = "ACARS"
      /\ P[4].name = "VOR/ILS"
  BY SMT DEF MirrorAviation, MirrorSig
<1>3. \A e \in {P[1], P[2], P[3], P[4]} : RangesOrdered(e)
  BY SMT DEF MirrorAviation, MirrorSig, RangesOrdered
<1>4. P = [k \in 1..4 |-> P[k]]
  BY SMT DEF MirrorAviation
<1>. HIDE DEF P
<1>5. \A k \in 1..4 : P[k].name \in AviationNames /\ RangesOrdered(P[k])
  BY <1>1, <1>2, <1>3, SMT DEF AviationNames
<1>6. \A j, k \in 1..4 : P[j].name = P[k].name => j = k
  BY <1>1, <1>2, SMT
<1>. QED
  BY <1>4, <1>5, <1>6, Zenon DEF Part, P

LEMMA MarinePart == Part(MirrorMarine, 3, MarineNames)
<1>. DEFINE P == MirrorMarine
<1>1. \A k \in 1..3 : k = 1 \/ k = 2 \/ k = 3
  OBVIOUS
<1>2. /\ P[1].name = "AIS"
      /\ P[2].name = "Marine_VHF_FM"
      /\ P[3].name = "DSC"
  BY SMT DEF MirrorMarine, MirrorSig
<1>3. \A e \in {P[1], P[2], P[3]} : RangesOrdered(e)
  BY SMT DEF MirrorMarine, MirrorSig, RangesOrdered
<1>4. P = [k \in 1..3 |-> P[k]]
  BY SMT DEF MirrorMarine
<1>. HIDE DEF P
<1>5. \A k \in 1..3 : P[k].name \in MarineNames /\ RangesOrdered(P[k])
  BY <1>1, <1>2, <1>3, SMT DEF MarineNames
<1>6. \A j, k \in 1..3 : P[j].name = P[k].name => j = k
  BY <1>1, <1>2, SMT
<1>. QED
  BY <1>4, <1>5, <1>6, Zenon DEF Part, P

LEMMA AmateurPart == Part(MirrorAmateur, 6, AmateurNames)
<1>. DEFINE P == MirrorAmateur
<1>1. \A k \in 1..6 : k = 1 \/ k = 2 \/ k = 3 \/ k = 4 \/ k = 5 \/ k = 6
  OBVIOUS
<1>2. /\ P[1].name = "APRS"
      /\ P[2].name = "FT8"
      /\ P[3].name = "WSPR"
      /\ P[4].name = "PSK31"
      /\ P[5].name = "RTTY"
      /\ P[6].name = "D-STAR"
  BY SMT DEF MirrorAmateur, MirrorSig
<1>3. \A e \in {P[1], P[2], P[3], P[4], P[5], P[6]} : RangesOrdered(e)
  BY SMT DEF MirrorAmateur, MirrorSig, RangesOrdered
<1>4. P = [k \in 1..6 |-> P[k]]
  BY SMT DEF MirrorAmateur
<1>. HIDE DEF P
<1>5. \A k \in 1..6 : P[k].name \in AmateurNames /\ RangesOrdered(P[k])
  BY <1>1, <1>2, <1>3, SMT DEF AmateurNames
<1>6. \A j, k \in 1..6 : P[j].name = P[k].name => j = k
  BY <1>1, <1>2, SMT
<1>. QED
  BY <1>4, <1>5, <1>6, Zenon DEF Part, P

LEMMA PublicSafetyPart == Part(MirrorPublicSafety, 4, PublicSafetyNames)
<1>. DEFINE P == MirrorPublicSafety
<1>1. \A k \in 1..4 : k = 1 \/ k = 2 \/ k = 3 \/ k = 4
  OBVIOUS
<1>2. /\ P[1].name = "P25_Phase_I"
      /\ P[2].name = "TETRA"
      /\ P[3].name = "DMR"
      /\ P[4].name = "MPT1327"
  BY SMT DEF MirrorPublicSafety, MirrorSig
<1>3. \A e \in {P[1], P[2], P[3], P[4]} : RangesOrdered(e)
  BY SMT DEF MirrorPublicSafety, MirrorSig, RangesOrdered
<1>4. P = [k \in 1..4 |-> P[k]]
  BY SMT DEF MirrorPublicSafety
<1>. HIDE DEF P
<1>5. \A k \in 1..4 : P[k].name \in PublicSafetyNames /\ RangesOrdered(P[k])
  BY <1>1, <1>2, <1>3, SMT DEF PublicSafetyNames
<1>6. \A j, k \in 1..4 : P[j].name = P[k].name => j = k
  BY <1>1, <1>2, SMT
<1>. QED
  BY <1>4, <1>5, <1>6, Zenon DEF Part, P

LEMMA CellularPart == Part(MirrorCellular, 4, CellularNames)
<1>. DEFINE P == MirrorCellular
<1>1. \A k \in 1..4 : k = 1 \/ k = 2 \/ k = 3 \/ k = 4
  OBVIOUS
<1>2. /\ P[1].name = "GSM"
      /\ P[2].name = "UMTS/WCDMA"
      /\ P[3].name = "LTE"
      /\ P[4].name = "5G_NR"
  BY SMT DEF MirrorCellular, MirrorSig
<1>3. \A e \in {P[1], P[2], P[3], P[4]} : RangesOrdered(e)
  BY SMT DEF MirrorCellular, MirrorSig, RangesOrdered
<1>4. P = [k \in 1..4 |-> P[k]]
  BY SMT DEF MirrorCellular
<1>. HIDE DEF P
<1>5. \A k \in 1..4 : P[k].name \in CellularNames /\ RangesOrdered(P[k])
  BY <1>1, <1>2, <1>3, SMT DEF CellularNames
<1>6. \A j, k \in 1..4 : P[j].name = P[k].name => j = k
  BY <1>1, <1>2, SMT
<1>. QED
  BY <1>4, <1>5, <1>6, Zenon DEF Part, P

LEMMA IsmPart == Part(MirrorIsm, 10, IsmNames)
<1>. DEFINE P == MirrorIsm
<1>1. \A k \in 1..10 : k = 1 \/ k = 2 \/ k = 3 \/ k = 4 \/ k = 5 \/ k = 6 \/ k = 7 \/ k = 8 \/ k = 9 \/ k = 10
  OBVIOUS
<1>2. /\ P[1].name = "Wi-Fi_2.4_GHz"
      /\ P[2].name = "Wi-Fi_5_GHz"
      /\ P[3].name = "Bluetooth_Classic"
      /\ P[4].name = "Bluetooth_LE"
      /\ P[5].name = "Zigbee_802.15.4"
      /\ P[6].name = "LoRa"
      /\ P[7].name = "Z-Wave"
      /\ P[8].name = "TPMS"
      /\ P[9].name = "Key_Fob_Remote"
      /\ P[10].name = "ANT+"
  BY SMT DEF MirrorIsm, MirrorSig
<1>3. \A e \in {P[1], P[2], P[3], P[4], P[5], P[6], P[7], P[8], P[9], P[10]} : RangesOrdered(e)
  BY SMT DEF MirrorIsm, MirrorSig, RangesOrdered
<1>4. P = [k \in 1..10 |-> P[k]]
  BY SMT DEF MirrorIsm
<1>. HIDE DEF P
<1>5. \A k \in 1..10 : P[k].name \in IsmNames /\ RangesOrdered(P[k])
  BY <1>1, <1>2, <1>3, SMT DEF IsmNames
<1>6. \A j, k \in 1..10 : P[j].name = P[k].name => j = k
  BY <1>1, <1>2, SMT
<1>. QED
  BY <1>4, <1>5, <1>6, Zenon DEF Part, P

LEMMA SatellitePart == Part(MirrorSatellite, 5, SatelliteNames)
<1>. DEFINE P == MirrorSatellite
<1>1. \A k \in 1..5 : k = 1 \/ k = 2 \/ k = 3 \/ k = 4 \/ k = 5
  OBVIOUS
<1>2. /\ P[1].name = "GPS_L1_C/A"
      /\ P[2].name = "NOAA_APT"
      /\ P[3].name = "Meteor_LRPT"
      /\ P[4].name = "Iridium"
      /\ P[5].name = "Inmarsat_AERO"
  BY SMT DEF MirrorSatellite, MirrorSig
<1>3. \A e \in {P[1], P[2], P[3], P[4], P[5]} : RangesOrdered(e)
  BY SMT DEF MirrorSatellite, MirrorSig, RangesOrdered
<1>4. P = [k \in 1..5 |-> P[k]]
  BY SMT DEF MirrorSatellite
<1>. HIDE DEF P
<1>5. \A k \in 1..5 : P[k].name \in SatelliteNames /\ RangesOrdered(P[k])
  BY <1>1, <1>2, <1>3, SMT DEF SatelliteNames
<1>6. \A j, k \in 1..5 : P[j].name = P[k].name => j = k
  BY <1>1, <1>2, SMT
<1>. QED
  BY <1>4, <1>5, <1>6, Zenon DEF Part, P

LEMMA RadarPart == Part(MirrorRadar, 3, RadarNames)
<1>. DEFINE P == MirrorRadar
<1>1. \A k \in 1..3 : k = 1 \/ k = 2 \/ k = 3
  OBVIOUS
<1>2. /\ P[1].name = "FMCW_Radar"
      /\ P[2].name = "Pulse_Radar"
      /\ P[3].name = "Weather_Radar_WSR-88D"
  BY SMT DEF MirrorRadar, MirrorSig
<1>3. \A e \in {P[1], P[2], P[3]} : RangesOrdered(e)
  BY SMT DEF MirrorRadar, MirrorSig, RangesOrdered
<1>4. P = [k \in 1..3 |-> P[k]]
  BY SMT DEF MirrorRadar
<1>. HIDE DEF P
<1>5. \A k \in 1..3 : P[k].name \in RadarNames /\ RangesOrdered(P[k])
  BY <1>1, <1>2, <1>3, SMT DEF RadarNames
<1>6. \A j, k \in 1..3 : P[j].name = P[k].name => j = k
  BY <1>1, <1>2, SMT
<1>. QED
  BY <1>4, <1>5, <1>6, Zenon DEF Part, P

\* The data base is a table of 44 names, and a range is given from its lower end.
LEMMA DatabaseIs ==
    /\ DOMAIN MirrorDb = 1..44
    /\ \A j, k \in DOMAIN MirrorDb : MirrorDb[j].name = MirrorDb[k].name => j = k
    /\ \A k \in DOMAIN MirrorDb : \A range \in {MirrorDb[k].bw, MirrorDb[k].sr} :
          range[1] \in Nat /\ range[2] \in Nat /\ range[1] <= range[2]
<1>1. Part(MirrorBroadcast \o MirrorAviation, 9,
        BroadcastNames \cup AviationNames)
  <2>1. (BroadcastNames) \cap AviationNames = {}
    BY SMT DEF BroadcastNames, AviationNames
  <2>2. 5 \in Nat /\ 4 \in Nat /\ 5 + 4 = 9
    OBVIOUS
  <2>. QED
    BY BroadcastPart, AviationPart, <2>1, <2>2, PartsJoin
<1>2. Part(MirrorBroadcast \o MirrorAviation \o MirrorMarine, 12,
        BroadcastNames \cup AviationNames \cup MarineNames)
  <2>1. (BroadcastNames \cup AviationNames) \cap MarineNames = {}
    BY SMT DEF BroadcastNames, AviationNames, MarineNames
  <2>2. 9 \in Nat /\ 3 \in Nat /\ 9 + 3 = 12
    OBVIOUS
  <2>. QED
    BY <1>1, MarinePart, <2>1, <2>2, PartsJoin
<1>3. Part(MirrorBroadcast \o MirrorAviation \o MirrorMarine \o MirrorAmateur, 18,
        BroadcastNames \cup AviationNames \cup MarineNames \cup AmateurNames)
  <2>1. (BroadcastNames \cup AviationNames \cup MarineNames) \cap AmateurNames = {}
    BY SMT DEF BroadcastNames, AviationNames, MarineNames, AmateurNames
  <2>2. 12 \in Nat /\ 6 \in Nat /\ 12 + 6 = 18
    OBVIOUS
  <2>. QED
    BY <1>2, AmateurPart, <2>1, <2>2, PartsJoin
<1>4. Part(MirrorBroadcast \o MirrorAviation \o MirrorMarine \o MirrorAmateur \o MirrorPublicSafety, 22,
        BroadcastNames \cup AviationNames \cup MarineNames \cup AmateurNames \cup PublicSafetyNames)
  <2>1. (BroadcastNames \cup AviationNames \cup MarineNames \cup AmateurNames) \cap PublicSafetyNames = {}
    BY SMT DEF BroadcastNames, AviationNames, MarineNames, AmateurNames, PublicSafetyNames
  <2>2. 18 \in Nat /\ 4 \in Nat /\ 18 + 4 = 22
    OBVIOUS
  <2>. QED
    BY <1>3, PublicSafetyPart, <2>1, <2>2, PartsJoin
<1>5. Part(MirrorBroadcast \o MirrorAviation \o MirrorMarine \o MirrorAmateur \o MirrorPublicSafety \o MirrorCellular, 26,
        BroadcastNames \cup AviationNames \cup MarineNames \cup AmateurNames \cup PublicSafetyNames \cup CellularNames)
  <2>1. (BroadcastNames \cup AviationNames \cup MarineNames \cup AmateurNames \cup PublicSafetyNames) \cap CellularNames = {}
    BY SMT DEF BroadcastNames, AviationNames, MarineNames, AmateurNames, PublicSafetyNames, CellularNames
  <2>2. 22 \in Nat /\ 4 \in Nat /\ 22 + 4 = 26
    OBVIOUS
  <2>. QED
    BY <1>4, CellularPart, <2>1, <2>2, PartsJoin
<1>6. Part(MirrorBroadcast \o MirrorAviation \o MirrorMarine \o MirrorAmateur \o MirrorPublicSafety \o MirrorCellular \o MirrorIsm, 36,
        BroadcastNames \cup AviationNames \cup MarineNames \cup AmateurNames \cup PublicSafetyNames \cup CellularNames \cup IsmNames)
  <2>1. (BroadcastNames \cup AviationNames \cup MarineNames \cup AmateurNames \cup PublicSafetyNames \cup CellularNames) \cap IsmNames = {}
    BY SMT DEF BroadcastNames, AviationNames, MarineNames, AmateurNames, PublicSafetyNames, CellularNames, IsmNames
  <2>2. 26 \in Nat /\ 10 \in Nat /\ 26 + 10 = 36
    OBVIOUS
  <2>. QED
    BY <1>5, IsmPart, <2>1, <2>2, PartsJoin
<1>7. Part(MirrorBroadcast \o MirrorAviation \o MirrorMarine \o MirrorAmateur \o MirrorPublicSafety \o MirrorCellular \o MirrorIsm \o MirrorSatellite, 41,
        BroadcastNames \cup AviationNames \cup MarineNames \cup AmateurNames \cup PublicSafetyNames \cup CellularNames \cup IsmNames \cup SatelliteNames)
  <2>1. (BroadcastNames \cup AviationNames \cup MarineNames \cup AmateurNames \cup PublicSafetyNames \cup CellularNames \cup IsmNames) \cap SatelliteNames = {}
    BY SMT DEF BroadcastNames, AviationNames, MarineNames, AmateurNames, PublicSafetyNames, CellularNames, IsmNames, SatelliteNames
  <2>2. 36 \in Nat /\ 5 \in Nat /\ 36 + 5 = 41
    OBVIOUS
  <2>. QED
    BY <1>6, SatellitePart, <2>1, <2>2, PartsJoin
<1>8. Part(MirrorBroadcast \o MirrorAviation \o MirrorMarine \o MirrorAmateur \o MirrorPublicSafety \o MirrorCellular \o MirrorIsm \o MirrorSatellite \o MirrorRadar, 44,
        BroadcastNames \cup AviationNames \cup MarineNames \cup AmateurNames \cup PublicSafetyNames \cup CellularNames \cup IsmNames \cup SatelliteNames \cup RadarNames)
  <2>1. (BroadcastNames \cup AviationNames \cup MarineNames \cup AmateurNames \cup PublicSafetyNames \cup CellularNames \cup IsmNames \cup SatelliteNames) \cap RadarNames = {}
    BY SMT DEF BroadcastNames, AviationNames, MarineNames, AmateurNames, PublicSafetyNames, CellularNames, IsmNames, SatelliteNames, RadarNames
  <2>2. 41 \in Nat /\ 3 \in Nat /\ 41 + 3 = 44
    OBVIOUS
  <2>. QED
    BY <1>7, RadarPart, <2>1, <2>2, PartsJoin
<1>9. MirrorDb = [k \in 1..44 |-> MirrorDb[k]]
  BY <1>8, Zenon DEF Part, MirrorDb
<1>10. \A j, k \in 1..44 : MirrorDb[j].name = MirrorDb[k].name => j = k
  BY <1>8, Zenon DEF Part, MirrorDb
<1>11. \A k \in 1..44 : RangesOrdered(MirrorDb[k])
  BY <1>8, Zenon DEF Part, MirrorDb
<1>12. \A k \in 1..44 : \A range \in {MirrorDb[k].bw, MirrorDb[k].sr} :
          range[1] \in Nat /\ range[2] \in Nat /\ range[1] <= range[2]
  BY <1>11, Zenon DEF RangesOrdered
<1>13. DOMAIN MirrorDb = 1..44
  BY <1>9
<1>. QED
  BY <1>10, <1>12, <1>13, Zenon

-----------------------------------------------------------------------------
(* The ranking. *)

LEMMA ScoreIsInt ==
    ASSUME NEW k \in DOMAIN MirrorDb, NEW f, f.bw \in Nat, f.sr \in Nat, NEW r
    PROVE  MirrorScore(MirrorDb[k], f, r) \in Int
<1>. DEFINE s == MirrorDb[k]
            a == MirrorFreq(s, f)
            b == MirrorMod(s, r)
            c == MirrorRange(s.bw, f.bw, 1)
            d == MirrorRange(s.sr, f.sr, 4)
            e == MirrorStruct(s, r)
<1>1. a \in Int
  <2>. DEFINE placed == f.cf > 0 /\ s.bands # {}
              within == \E b_ \in s.bands : b_[1] <= f.cf /\ f.cf <= b_[2]
  <2>1. a = IF placed THEN IF within THEN 1000 ELSE 0 ELSE 500
    BY DEF MirrorFreq
  <2>. HIDE DEF a, placed, within
  <2>. QED
    BY <2>1
<1>2. b \in Int
  <2>. DEFINE any == s.mods = {}
              named == Detected(r) \in s.mods
              part == Detected(r) = "PSK" /\ s.mods \cap {"QPSK", "BPSK"} # {}
  <2>1. b = CASE any -> 400 [] named -> 1000 [] OTHER -> IF part THEN 500 ELSE 0
    BY DEF MirrorMod
  <2>. HIDE DEF b, any, named, part
  <2>. QED
    BY <2>1
<1>3. c \in Int /\ d \in Int
  <2>1. \A range \in {s.bw, s.sr} : range[1] \in Nat /\ range[2] \in Nat /\ range[1] <= range[2]
    BY DatabaseIs
  <2>. HIDE DEF s
  <2>. QED
    BY <2>1, RangeIsInt
<1>4. e \in Int
  <2>. DEFINE x == IF "burst" \in s.needs /\ ~r.isBurst THEN 5 ELSE 10
              y == IF "ofdm" \in s.needs /\ ~r.isOfdm THEN 4 ELSE 10
              z == IF "fhss" \in s.needs /\ ~r.isFhss THEN 4 ELSE 10
  <2>1. e = x * y * z
    BY Zenon DEF MirrorStruct
  <2>2. x \in {5, 10} /\ y \in {4, 10} /\ z \in {4, 10}
    BY Zenon
  <2>. HIDE DEF e, x, y, z
  <2>3. x \in Int /\ y \in Int /\ z \in Int
    BY <2>2
  <2>. QED
    BY <2>1, <2>3
<1>5. MirrorScore(s, f, r) = (40 * a + 30 * b + 15 * c + 15 * d) * e
  BY Zenon DEF MirrorScore
<1>. HIDE DEF a, b, c, d, e
<1>6. (40 * a + 30 * b + 15 * c + 15 * d) * e \in Int
  <2>. DEFINE g == 40 * a + 30 * b + 15 * c + 15 * d
  <2>1. g \in Int
    BY <1>1, <1>2, <1>3
  <2>. HIDE DEF g
  <2>2. g * e \in Int
    BY <1>4, <2>1
  <2>. QED
    BY <2>2 DEF g
<1>. QED
  BY <1>5, <1>6

\* h lists what comes first in K, at most three of them, by their scores and
\* then by their numbers.
Ranked(h, K, sc) ==
    /\ DOMAIN h = 1..Len(h) /\ Len(h) \in Nat /\ Len(h) <= 3
    /\ \A j \in 1..Len(h) : h[j] \in K
    /\ \A j, k \in 1..Len(h) : j < k => RanksBefore(sc, h[j], h[k])
    /\ \A j \in 1..Len(h) : \A k \in K : (\E i \in 1..j : h[i] = k) \/ RanksBefore(sc, h[j], k)
    /\ Len(h) < 3 => \A k \in K : \E i \in 1..Len(h) : h[i] = k

\* The list of map(): the three that have the fewest before them.
TopOf(K, sc) ==
    LET rank == [k \in K |-> Cardinality({j \in K : RanksBefore(sc, j, k)}) + 1]
        top  == IF Cardinality(K) < 3 THEN Cardinality(K) ELSE 3
    IN  [p \in 1..top |-> CHOOSE k \in K : rank[k] = p]

LEMMA TopIsRanked ==
    ASSUME NEW K \in SUBSET Nat, IsFiniteSet(K), NEW sc, \A k \in K : sc[k] \in Int
    PROVE  Ranked(TopOf(K, sc), K, sc)
<1>. DEFINE up == [k \in K |-> {j \in K : RanksBefore(sc, j, k)} \union {k}]
            rank == [k \in K |-> Cardinality({j \in K : RanksBefore(sc, j, k)}) + 1]
            n == Cardinality(K)
            top == IF n < 3 THEN n ELSE 3
            h == TopOf(K, sc)
<1>0. /\ \A j, k \in K : j \in Nat /\ k \in Nat /\ sc[j] \in Int /\ sc[k] \in Int
      /\ n \in Nat
  BY FS_CardinalityType
<1>1. \A j, k \in K : j # k => RanksBefore(sc, j, k) \/ RanksBefore(sc, k, j)
  BY <1>0 DEF RanksBefore
<1>2. \A j, k \in K : RanksBefore(sc, j, k) => ~RanksBefore(sc, k, j) /\ j # k
  BY <1>0 DEF RanksBefore
<1>3. \A i, j, k \in K : RanksBefore(sc, i, j) /\ RanksBefore(sc, j, k) => RanksBefore(sc, i, k)
  BY <1>0 DEF RanksBefore
<1>4. /\ up \in [K -> SUBSET K]
      /\ \A j, k \in K : j \in up[k] <=> j = k \/ RanksBefore(sc, j, k)
  OBVIOUS
<1>5. \A k \in K : rank[k] = Cardinality(up[k])
  <2>. SUFFICES ASSUME NEW k \in K PROVE rank[k] = Cardinality(up[k])
    OBVIOUS
  <2>. DEFINE B == {j \in K : RanksBefore(sc, j, k)}
  <2>1. B \in SUBSET K /\ k \notin B
    BY <1>2
  <2>2. up[k] = B \union {k} /\ rank[k] = Cardinality(B) + 1
    OBVIOUS
  <2>. HIDE DEF B, up, rank
  <2>3. IsFiniteSet(B)
    BY <2>1, FS_Subset
  <2>4. Cardinality(B \union {k}) = Cardinality(B) + 1
    BY <2>1, <2>3, FS_AddElement
  <2>. QED
    BY <2>2, <2>4
<1>. HIDE DEF up
<1>6. Chain(K, up)
  <2>1. ASSUME NEW l \in K, NEW m \in K, RanksBefore(sc, l, m)
        PROVE  up[l] \subseteq up[m] /\ m \notin up[l]
    <3>1. ASSUME NEW x \in up[l] PROVE x \in up[m]
      BY <1>3, <1>4, <2>1
    <3>2. m \notin up[l]
      BY <1>2, <1>4, <2>1
    <3>. QED
      BY <3>1, <3>2
  <2>. QED
    BY <1>1, <1>4, <2>1 DEF Chain
<1>7. h = [p \in 1..top |-> CHOOSE k \in K : rank[k] = p]
  BY DEF TopOf
<1>. HIDE DEF rank, h
<1>8. top \in Nat /\ top <= 3 /\ top <= n /\ (top < 3 => top = n)
  BY <1>0
<1>9. \A p \in 1..top : p \in 1..n
  BY <1>0, <1>8
<1>. HIDE DEF top
<1>10. DOMAIN h = 1..top /\ Len(h) = top
  BY <1>7, <1>8
<1>16. Placed(K, up)
  BY <1>6, ChainPlaced
<1>11. ASSUME NEW p \in 1..top PROVE h[p] \in K /\ Cardinality(up[h[p]]) = p
  <2>1. p \in 1..n
    BY <1>9
  <2>2. PICK k \in K : Cardinality(up[k]) = p
    BY <1>16, <2>1, Zenon DEF Placed
  <2>3. rank[k] = p
    BY <1>5, <2>2
  <2>4. h[p] = CHOOSE j \in K : rank[j] = p
    BY <1>7
  <2>5. h[p] \in K /\ rank[h[p]] = p
    BY <2>3, <2>4
  <2>. QED
    BY <1>5, <2>5
<1>12. /\ \A l \in K : Cardinality(up[l]) \in 1..n
       /\ \A l, m \in K : Cardinality(up[l]) <= Cardinality(up[m]) => l \in up[m]
       /\ \A l, m \in K : Cardinality(up[l]) = Cardinality(up[m]) => l = m
  BY <1>6, ChainCounts
<1>13. ASSUME NEW j \in 1..top, NEW k \in 1..top, j < k PROVE RanksBefore(sc, h[j], h[k])
  <2>1. h[j] \in K /\ h[k] \in K /\ Cardinality(up[h[j]]) = j /\ Cardinality(up[h[k]]) = k
    BY <1>11
  <2>3. Cardinality(up[h[j]]) <= Cardinality(up[h[k]]) /\ Cardinality(up[h[j]]) # Cardinality(up[h[k]])
    BY <1>8, <1>13, <2>1
  <2>2. h[j] \in up[h[k]] /\ h[j] # h[k]
    BY <1>12, <2>1, <2>3, Zenon
  <2>. QED
    BY <1>4, <2>1, <2>2
<1>14. ASSUME NEW j \in 1..top, NEW k \in K
       PROVE  (\E i \in 1..j : h[i] = k) \/ RanksBefore(sc, h[j], k)
  <2>. DEFINE c == Cardinality(up[k])
  <2>1. h[j] \in K /\ Cardinality(up[h[j]]) = j /\ c \in 1..n
    BY <1>11, <1>12
  <2>2. CASE c <= j
    <3>1. c \in 1..top /\ c \in 1..j
      BY <1>0, <1>8, <2>1, <2>2
    <3>2. h[c] \in K /\ Cardinality(up[h[c]]) = c
      BY <1>11, <3>1
    <3>3. h[c] = k
      BY <1>12, <3>2
    <3>. QED
      BY <3>1, <3>3
  <2>3. CASE ~ (c <= j)
    <3>2. Cardinality(up[h[j]]) <= Cardinality(up[k]) /\ Cardinality(up[h[j]]) # Cardinality(up[k])
      BY <1>0, <1>8, <2>1, <2>3
    <3>1. h[j] \in up[k] /\ h[j] # k
      BY <1>12, <2>1, <3>2, Zenon
    <3>. QED
      BY <1>4, <2>1, <3>1
  <2>. QED
    BY <2>2, <2>3
<1>15. ASSUME top < 3, NEW k \in K PROVE \E i \in 1..top : h[i] = k
  <2>1. Cardinality(up[k]) \in 1..top
    BY <1>8, <1>12, <1>15
  <2>2. h[Cardinality(up[k])] = k
    BY <1>11, <1>12, <2>1
  <2>. QED
    BY <2>1, <2>2
<1>. QED
  BY <1>8, <1>10, <1>11, <1>13, <1>14, <1>15 DEF Ranked, h

\* What TopThree() of the application's mapper starts from, and adds at each of
\* its three steps.
Rest(scored, h) == {p \in scored : \A i \in DOMAIN h : p[2] # h[i]}
Extend(scored, H) ==
    UNION {IF Rest(scored, h) = {} THEN {h} ELSE {Append(h, p[2]) : p \in Cpp!Best(Rest(scored, h))} : h \in H}

LEMMA TopThreeIs ==
    ASSUME NEW scored
    PROVE  Cpp!TopThree(scored) = Extend(scored, Extend(scored, Extend(scored, {<<>>})))
  BY DEF Cpp!TopThree, Extend, Rest

\* The names of the first i of h, or of all.
Names(h, nm, i) == [j \in 1..(IF i < Len(h) THEN i ELSE Len(h)) |-> nm[h[j]]]

\* Scores that are numbers and names that differ.
Tabled(K, sc, nm) ==
    /\ K \subseteq Nat
    /\ \A k \in K : sc[k] \in Int
    /\ \A j, k \in K : nm[j] = nm[k] => j = k

\* One step adds the next of a ranked list, or nothing when that has all.
LEMMA NextOfRanked ==
    ASSUME NEW K, NEW sc, NEW nm, Tabled(K, sc, nm), NEW h, Ranked(h, K, sc), NEW i \in 0..2,
           NEW H, Names(h, nm, i) \in H
    PROVE  Names(h, nm, i + 1) \in Extend({<<sc[k], nm[k]>> : k \in K}, H)
<1>. DEFINE S == {<<sc[k], nm[k]>> : k \in K}
            a == Names(h, nm, i)
            c == Names(h, nm, i + 1)
<1>0. /\ DOMAIN h = 1..Len(h) /\ Len(h) \in Nat /\ Len(h) <= 3
      /\ \A j \in 1..Len(h) : h[j] \in K
      /\ \A j, k \in 1..Len(h) : j < k => RanksBefore(sc, h[j], h[k])
      /\ \A j \in 1..Len(h) : \A k \in K : (\E l \in 1..j : h[l] = k) \/ RanksBefore(sc, h[j], k)
      /\ Len(h) < 3 => \A k \in K : \E l \in 1..Len(h) : h[l] = k
  BY DEF Ranked
<1>3. /\ K \subseteq Nat /\ \A k \in K : sc[k] \in Int
      /\ \A j, k \in K : nm[j] = nm[k] => j = k
  BY DEF Tabled
<1>1. CASE i < Len(h)
  <2>1. /\ a = [j \in 1..i |-> nm[h[j]]] /\ c = [j \in 1..(i + 1) |-> nm[h[j]]]
    BY <1>0, <1>1 DEF Names
  <2>. HIDE DEF a, c
  <2>. DEFINE R == Rest(S, a)
              p == <<sc[h[i + 1]], nm[h[i + 1]]>>
  <2>2. i + 1 \in 1..Len(h) /\ h[i + 1] \in K
    BY <1>0, <1>1
  <2>3. ASSUME NEW j \in 1..i PROVE nm[h[i + 1]] # nm[h[j]]
    <3>1. j \in 1..Len(h) /\ j < i + 1 /\ h[j] \in K
      BY <1>0, <2>2
    <3>2. RanksBefore(sc, h[j], h[i + 1])
      BY <1>0, <2>2, <3>1
    <3>3. h[j] # h[i + 1]
      <4>1. h[j] \in Nat /\ sc[h[j]] \in Int
        BY <1>3, <3>1
      <4>. QED
        BY <3>2, <4>1 DEF RanksBefore
    <3>. QED
      BY <1>3, <2>2, <3>1, <3>3
  <2>4. p \in R
    <3>1. p \in S /\ p[2] = nm[h[i + 1]]
      BY <2>2
    <3>2. \A j \in DOMAIN a : p[2] # a[j]
      BY <2>1, <2>3, <3>1
    <3>. HIDE DEF S, p
    <3>. QED
      BY <3>1, <3>2 DEF Rest
  <2>5. ASSUME NEW q \in R PROVE p[1] >= q[1]
    <3>1. PICK k \in K : q = <<sc[k], nm[k]>>
      BY DEF Rest
    <3>2. \A j \in 1..i : nm[k] # nm[h[j]]
      <4>1. \A j \in DOMAIN a : q[2] # a[j]
        BY DEF Rest
      <4>. QED
        BY <2>1, <3>1, <4>1
    <3>3. sc[h[i + 1]] >= sc[k]
      <4>1. (\E l \in 1..(i + 1) : h[l] = k) \/ RanksBefore(sc, h[i + 1], k)
        BY <1>0, <2>2
      <4>2. ASSUME NEW l \in 1..(i + 1), h[l] = k PROVE l = i + 1
        BY <3>2, <4>2
      <4>3. sc[h[i + 1]] \in Int /\ sc[k] \in Int
        BY <1>3, <2>2
      <4>4. CASE k = h[i + 1]
        BY <4>3, <4>4
      <4>5. CASE RanksBefore(sc, h[i + 1], k)
        BY <4>3, <4>5 DEF RanksBefore
      <4>. QED
        BY <4>1, <4>2, <4>4, <4>5
    <3>. QED
      BY <3>1, <3>3
  <2>6. p \in Cpp!Best(R)
    <3>. HIDE DEF R, p
    <3>. QED
      BY <2>4, <2>5 DEF Cpp!Best
  <2>7. c = Append(a, p[2])
    <3>. DEFINE T == {nm[h[j]] : j \in 1..(i + 1)}
                x == nm[h[i + 1]]
    <3>1. a \in Seq(T) /\ Len(a) = i
      BY <2>1
    <3>2. c \in Seq(T) /\ Len(c) = i + 1 /\ c[i + 1] = x /\ \A j \in 1..i : c[j] = a[j]
      BY <2>1
    <3>3. x \in T /\ p[2] = x
      OBVIOUS
    <3>. HIDE DEF T, x, p
    <3>4. /\ Append(a, x) \in Seq(T) /\ Len(Append(a, x)) = i + 1 /\ Append(a, x)[i + 1] = x
          /\ \A j \in 1..i : Append(a, x)[j] = a[j]
      BY <3>1, <3>3
    <3>5. \A j \in 1..(i + 1) : j = i + 1 \/ j \in 1..i
      OBVIOUS
    <3>6. \A j \in 1..Len(c) : c[j] = Append(a, x)[j]
      BY <3>2, <3>4, <3>5
    <3>7. c = Append(a, x)
      BY <3>2, <3>4, <3>6, SameList
    <3>. QED
      BY <3>3, <3>7
  <2>8. Append(a, p[2]) \in IF R = {} THEN {a} ELSE {Append(a, q[2]) : q \in Cpp!Best(R)}
    <3>. HIDE DEF R, p
    <3>. QED
      BY <2>4, <2>6
  <2>. HIDE DEF p, S
  <2>9. c \in Extend(S, H)
    <3>1. a \in H
      BY DEF a
    <3>. QED
      BY <2>7, <2>8, <3>1 DEF Extend
  <2>. QED
    BY <2>9 DEF S, c
<1>2. CASE ~ (i < Len(h))
  <2>1. a = [j \in 1..Len(h) |-> nm[h[j]]] /\ c = [j \in 1..Len(h) |-> nm[h[j]]] /\ Len(h) < 3
    <3>1. ~ (i + 1 < Len(h)) /\ Len(h) < 3
      BY <1>0, <1>2
    <3>. QED
      BY <1>2, <3>1, Zenon DEF Names
  <2>. HIDE DEF a, c
  <2>2. Rest(S, a) = {}
    <3>. SUFFICES ASSUME NEW q \in Rest(S, a) PROVE FALSE
      OBVIOUS
    <3>1. PICK k \in K : q = <<sc[k], nm[k]>>
      BY DEF Rest
    <3>2. PICK l \in 1..Len(h) : h[l] = k
      BY <1>0, <2>1
    <3>3. l \in DOMAIN a /\ a[l] = q[2]
      BY <2>1, <3>1, <3>2
    <3>. QED
      BY <3>3 DEF Rest
  <2>. HIDE DEF S
  <2>3. c \in Extend(S, H)
    <3>1. a \in H /\ a = c
      BY <2>1 DEF a
    <3>. QED
      BY <2>2, <3>1 DEF Extend
  <2>. QED
    BY <2>3 DEF S, c
<1>. QED
  BY <1>1, <1>2

\* The names of a ranked list are one of the application's choices.
LEMMA RankedIsTopThree ==
    ASSUME NEW K, NEW sc, NEW nm, Tabled(K, sc, nm), NEW h, Ranked(h, K, sc)
    PROVE  [j \in DOMAIN h |-> nm[h[j]]] \in Cpp!TopThree({<<sc[k], nm[k]>> : k \in K})
<1>. DEFINE S == {<<sc[k], nm[k]>> : k \in K}
<1>0. DOMAIN h = 1..Len(h) /\ Len(h) \in Nat /\ Len(h) <= 3
  BY DEF Ranked
<1>1. Names(h, nm, 0) = <<>>
  <2>1. (IF 0 < Len(h) THEN 0 ELSE Len(h)) = 0
    BY <1>0
  <2>2. Names(h, nm, 0) = [j \in 1..0 |-> nm[h[j]]]
    BY <2>1, Zenon DEF Names
  <2>. QED
    BY <2>2
<1>2. ASSUME NEW i \in 0..2, NEW H, Names(h, nm, i) \in H
      PROVE  Names(h, nm, i + 1) \in Extend(S, H)
  BY <1>2, NextOfRanked
<1>. HIDE DEF S
<1>3. Names(h, nm, 0 + 1) \in Extend(S, {<<>>})
  <2>1. Names(h, nm, 0) \in {<<>>} /\ 0 \in 0..2
    BY <1>1
  <2>. QED
    BY <1>2, <2>1, Zenon
<1>4. Names(h, nm, 1 + 1) \in Extend(S, Extend(S, {<<>>}))
  <2>1. Names(h, nm, 1) \in Extend(S, {<<>>}) /\ 1 \in 0..2
    BY <1>3
  <2>. QED
    BY <1>2, <2>1, Zenon
<1>5. Names(h, nm, 2 + 1) \in Extend(S, Extend(S, Extend(S, {<<>>})))
  <2>1. Names(h, nm, 2) \in Extend(S, Extend(S, {<<>>})) /\ 2 \in 0..2
    BY <1>4
  <2>. QED
    BY <1>2, <2>1, Zenon
<1>6. Names(h, nm, 2 + 1) = [j \in DOMAIN h |-> nm[h[j]]]
  <2>1. 2 + 1 = 3 /\ (IF 3 < Len(h) THEN 3 ELSE Len(h)) = Len(h)
    BY <1>0
  <2>. QED
    BY <1>0, <2>1 DEF Names
<1>. QED
  BY <1>5, <1>6, TopThreeIs DEF S

\* The harness' mapper lists what comes first, and its names are a choice of the
\* application's.
IsChoice(h, f, r) ==
    LET score(j) == MirrorScore(MirrorDb[j], f, r)
        names == {<<score(j), MirrorDb[j].name>> : j \in DOMAIN MirrorDb}
    IN  /\ [j \in DOMAIN h |-> MirrorDb[h[j]].name]
              \in Cpp!TopThree({p \in names : p[1] > Cpp!MinScore})
        /\ \A j \in 1..(Len(h) - 1) : score(h[j]) = score(h[j + 1]) => h[j] < h[j + 1]

LEMMA HypothesesAreRanked ==
    ASSUME NEW f, f.bw \in Nat, f.sr \in Nat, NEW r
    PROVE  IsChoice(MirrorHypotheses(f, r), f, r)
<1>. DEFINE score(j) == MirrorScore(MirrorDb[j], f, r)
            names == {<<score(j), MirrorDb[j].name>> : j \in DOMAIN MirrorDb}
            h == MirrorHypotheses(f, r)
            sc == [k \in DOMAIN MirrorDb |-> score(k)]
            nm == [k \in DOMAIN MirrorDb |-> MirrorDb[k].name]
            K == {k \in DOMAIN MirrorDb : sc[k] > One \div 20}
            S == {<<sc[k], nm[k]>> : k \in K}
<1>1. \A k \in DOMAIN MirrorDb : score(k) \in Int
  BY ScoreIsInt
<1>2. h = TopOf(K, sc)
  BY DEF MirrorHypotheses, TopOf
<1>. HIDE DEF score, h
<1>3. \A k \in DOMAIN MirrorDb : sc[k] = score(k) /\ nm[k] = MirrorDb[k].name /\ k \in Nat /\ sc[k] \in Int
  <2>1. \A k \in 1..44 : k \in Nat
    OBVIOUS
  <2>2. \A k \in DOMAIN MirrorDb : k \in Nat
    BY <2>1, DatabaseIs, Zenon
  <2>3. \A k \in DOMAIN MirrorDb : sc[k] = score(k) /\ nm[k] = MirrorDb[k].name
    OBVIOUS
  <2>. HIDE DEF sc, nm
  <2>. QED
    BY <1>1, <2>2, <2>3
<1>. HIDE DEF sc, nm
<1>4. K \in SUBSET Nat /\ IsFiniteSet(K) /\ K \subseteq DOMAIN MirrorDb
  <2>1. IsFiniteSet(1..44)
    <3>1. \A n \in Nat : IsFiniteSet(1..n)
      BY FS_Interval
    <3>2. 44 \in Nat
      OBVIOUS
    <3>. QED
      BY <3>1, <3>2, Zenon
  <2>2. K \in SUBSET (1..44)
    BY DatabaseIs
  <2>3. IsFiniteSet(K)
    BY <2>1, <2>2, FS_Subset
  <2>. QED
    BY <1>3, <2>3
<1>5. \A j, k \in K : nm[j] = nm[k] => j = k
  <2>1. \A j, k \in DOMAIN MirrorDb : MirrorDb[j].name = MirrorDb[k].name => j = k
    BY DatabaseIs
  <2>. QED
    BY <1>3, <2>1
<1>6. {p \in names : p[1] > One \div 20} = S
  <2>1. ASSUME NEW p \in names, p[1] > One \div 20 PROVE p \in S
    <3>1. PICK j \in DOMAIN MirrorDb : p = <<score(j), MirrorDb[j].name>>
      OBVIOUS
    <3>2. p = <<sc[j], nm[j]>> /\ j \in K
      BY <1>3, <2>1, <3>1
    <3>. QED
      BY <3>2
  <2>2. ASSUME NEW p \in S PROVE p \in names /\ p[1] > One \div 20
    <3>1. PICK k \in K : p = <<sc[k], nm[k]>>
      OBVIOUS
    <3>2. k \in DOMAIN MirrorDb /\ p = <<score(k), MirrorDb[k].name>> /\ p[1] > One \div 20
      BY <1>3, <3>1
    <3>. QED
      BY <3>2
  <2>. HIDE DEF names, S
  <2>. QED
    BY <2>1, <2>2
<1>. HIDE DEF K
<1>7. Ranked(h, K, sc)
  BY <1>2, <1>3, <1>4, TopIsRanked
<1>8. [j \in DOMAIN h |-> nm[h[j]]] \in Cpp!TopThree(S)
  <2>1. Tabled(K, sc, nm)
    BY <1>3, <1>4, <1>5 DEF Tabled
  <2>. QED
    BY <1>7, <2>1, RankedIsTopThree
<1>. HIDE DEF names, S
<1>9. /\ DOMAIN h = 1..Len(h) /\ Len(h) \in Nat
      /\ \A j \in 1..Len(h) : h[j] \in K /\ h[j] \in DOMAIN MirrorDb
      /\ \A j, k \in 1..Len(h) : j < k => RanksBefore(sc, h[j], h[k])
  BY <1>4, <1>7 DEF Ranked
<1>10. [j \in DOMAIN h |-> nm[h[j]]] = [j \in DOMAIN h |-> MirrorDb[h[j]].name]
  BY <1>3, <1>9
<1>11. ASSUME NEW j \in 1..(Len(h) - 1), score(h[j]) = score(h[j + 1]) PROVE h[j] < h[j + 1]
  <2>1. j \in 1..Len(h) /\ j + 1 \in 1..Len(h) /\ j < j + 1
    BY <1>9
  <2>2. RanksBefore(sc, h[j], h[j + 1])
    BY <1>9, <2>1
  <2>3. sc[h[j]] = sc[h[j + 1]] /\ sc[h[j]] \in Int
    BY <1>3, <1>9, <1>11, <2>1
  <2>. QED
    BY <2>2, <2>3 DEF RanksBefore
<1>12. [j \in DOMAIN h |-> MirrorDb[h[j]].name] \in Cpp!TopThree({p \in names : p[1] > Cpp!MinScore})
  <2>1. Cpp!MinScore = One \div 20
    BY Zenon DEF Cpp!MinScore, One
  <2>. QED
    BY <1>6, <1>8, <1>10, <2>1
<1>. QED
  BY <1>11, <1>12, Zenon DEF IsChoice, names, h, score

LEMMA InvRanked == HarnessInv => HypothesesRanked
<1>. SUFFICES ASSUME HarnessInv, NEW d \in DOMAIN dfs, NEW k \in DOMAIN dfs[d], dfs[d][k].classified
              PROVE  IsChoice(dfs[d][k].hypotheses, Features(dfs[d][k].sample),
                              MirrorClassify(Features(dfs[d][k].sample)))
  BY Zenon DEF HypothesesRanked, IsChoice
<1>. DEFINE row == dfs[d][k]
            g == FeaturesOf[row.sample.gt]
<1>1. row \in RowsOf /\ row.classified
  BY RowsAreOf
<1>. HIDE DEF row
<1>2. /\ row.sample.gt \in Labels /\ Features(row.sample) = g
      /\ row.hypotheses = MirrorHypotheses(g, MirrorClassify(g))
  BY <1>1, ClassifiedRow
<1>3. g.bw \in Nat /\ g.sr \in Nat
  BY <1>2, FeaturesGiven
<1>. HIDE DEF g
<1>4. IsChoice(MirrorHypotheses(g, MirrorClassify(g)), g, MirrorClassify(g))
  BY <1>3, HypothesesAreRanked
<1>5. IsChoice(row.hypotheses, Features(row.sample), MirrorClassify(Features(row.sample)))
  BY <1>2, <1>4, Zenon
<1>. QED
  BY <1>5 DEF row

\* Whatever the features are, a score only counts for a sample that was
\* classified, against a label that can match, and its hypotheses are ones that
\* no other signature outscores, as the application's mapper would select them
\* from these scores (classifier.py and harness.py beside ProtocolMapper.cpp).
THEOREM ScoresAreSound == Spec => []ScoresSound
<1>1. HarnessInv => ScoresSound
  BY InvGated, InvLabels, InvRanked DEF ScoresSound
<1>. QED
  BY <1>1, HarnessInvHolds, PTL

=============================================================================
