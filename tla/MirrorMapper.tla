--------------------------- MODULE MirrorMapper ---------------------------
(***************************************************************************)
(* ProtocolMapper of tools/test_harness/classifier.py: a weighted sum of   *)
(* four matches, then structural factors.  Units as in ProtocolMapper: the *)
(* matches in thousandths, their weights in hundredths, the factors in     *)
(* thousandths, so that 1.0 is 10^8.                                       *)
(***************************************************************************)
EXTENDS MirrorClassifier, MirrorSignatures, FiniteSets

Cpp == INSTANCE ProtocolMapper
One == Cpp!ScoreOne

\* Every signature has bands except the first two radars; without a centre
\* frequency each is neutral.
MirrorFreq(s, f) ==
    IF f.cf > 0 /\ s.bands # {}
    THEN IF \E b \in s.bands : b[1] <= f.cf /\ f.cf <= b[2] THEN 1000 ELSE 0
    ELSE 500

\* detected.startswith(m), then one contained in the other: of the names both
\* sides use, "PSK" is contained in "QPSK" and "BPSK".
MirrorMod(s, r) ==
    CASE s.mods = {}          -> 400
      [] Detected(r) \in s.mods -> 1000
      [] OTHER -> IF Detected(r) = "PSK" /\ s.mods \cap {"QPSK", "BPSK"} # {} THEN 500 ELSE 0

\* 1 inside the range, outside a bell around its middle whose width is half the
\* range plus 1.0, which is `unit` here.  The bell is read at the quarter of its
\* width below the distance: two scores this makes equal may differ in the code.
MirrorRange(range, x, unit) ==
    LET twice == IF 2 * x < range[1] + range[2] THEN range[1] + range[2] - 2 * x
                                                ELSE 2 * x - range[1] - range[2]
    IN  CASE range = <<0, 0>> \/ x = 0          -> 400
          [] range[1] <= x /\ x <= range[2]     -> 1000
          [] OTHER -> Cpp!Bell((4 * twice) \div (range[2] - range[1] + 2 * unit))

\* score *= 0.5, 0.4, 0.4; burst=False and the keys dsss and chirp are not used.
MirrorStruct(s, r) ==
    LET burst == IF "burst" \in s.needs /\ ~r.isBurst THEN 5 ELSE 10
        ofdm == IF "ofdm" \in s.needs /\ ~r.isOfdm THEN 4 ELSE 10
        fhss == IF "fhss" \in s.needs /\ ~r.isFhss THEN 4 ELSE 10
    IN  burst * ofdm * fhss

\* Bandwidths are in Hz, symbol rates in quarters of a symbol per second.
MirrorScore(s, f, r) ==
    (40 * MirrorFreq(s, f) + 30 * MirrorMod(s, r) + 15 * MirrorRange(s.bw, f.bw, 1)
       + 15 * MirrorRange(s.sr, f.sr, 4)) * MirrorStruct(s, r)

\* Mutant: equal scores come in reverse order.
RanksBeforeReversed(scores, a, b) == scores[a] > scores[b] \/ (scores[a] = scores[b] /\ a > b)

\* sort(key=-score) is stable: equal scores keep the order of the database.
RanksBefore(scores, a, b) == scores[a] > scores[b] \/ (scores[a] = scores[b] /\ a < b)

\* map(): the first three of the signatures above 0.05, as indices of MirrorDb.
MirrorHypotheses(f, r) ==
    LET scores == [k \in DOMAIN MirrorDb |-> MirrorScore(MirrorDb[k], f, r)]
        kept   == {k \in DOMAIN MirrorDb : scores[k] > One \div 20}
        rank   == [k \in kept |-> Cardinality({j \in kept : RanksBefore(scores, j, k)}) + 1]
        top    == IF Cardinality(kept) < 3 THEN Cardinality(kept) ELSE 3
    IN  [p \in 1..top |-> CHOOSE k \in kept : rank[k] = p]

=============================================================================
