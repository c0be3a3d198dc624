-------------------------- MODULE ProtocolMapper --------------------------
(***************************************************************************)
(* ProtocolMapper: scoring a signal against the signature database and     *)
(* choosing the hypotheses.  f is a record of signal features, r the       *)
(* analysis result so far; only the fields the scores read are used.       *)
(*                                                                         *)
(* Scores are integers: the four matches are in thousandths, their weights *)
(* in hundredths and the structural factor in thousandths, so a score of   *)
(* 1.0 in the code is 10^8 here.                                           *)
(***************************************************************************)
EXTENDS SignatureDatabase, Sequences

ScoreOne == 100000000

\* The modulation of a result: digital if there is one, else analog.
Modulation(r) == IF r.digital = "" THEN r.analog ELSE r.digital

FreqMatch(s, f) ==
    IF s.bands = {} \/ \E b \in s.bands : b[1] <= f.cf /\ f.cf <= b[2] THEN 1000 ELSE 0

\* Two modulations the code takes for near relatives of each other.
Related(m, n) == {m, n} \in {{"GMSK", "FSK"}, {"QPSK", "PSK"}}

\* A modulation of the signature that the signal has, by name or by structure.
Has(m, f, r) ==
    \/ m = Modulation(r)
    \/ m = "OFDM" /\ r.isOfdm
    \/ m = "CSS" /\ f.chirp
    \/ m = "FHSS" /\ f.fhss
    \/ m = "DSSS" /\ f.dsss

ModMatch(s, f, r) ==
    CASE s.mods = {}                    -> 500
      [] \E m \in s.mods : Has(m, f, r) -> 1000
      [] OTHER -> IF \E m \in s.mods : Related(m, Modulation(r)) THEN 600 ELSE 0

\* exp(-x^2/2) in thousandths, rounded up, x counted down to quarters: never
\* below the code's value, and equal to it, up to the rounding, when x is a
\* multiple of a quarter.
Bell(quarters) ==
    IF quarters >= 15 THEN 1
    ELSE <<1000, 970, 883, 755, 607, 458, 325, 217, 136, 80, 44, 23, 12, 6, 3>>[quarters + 1]

\* The match of a value with a range: none outside twice the range, else a
\* bell around the middle whose width is the range, or three tenths of the
\* middle when the range is a single value.
RangeMatch(range, x) ==
    LET lo == range[1]
        hi == range[2]
        off == 2 * x - (lo + hi)
        twice == IF off < 0 THEN -off ELSE off          \* twice the distance
    IN IF 2 * x < lo \/ x > 2 * hi THEN 0
       ELSE IF hi > lo THEN Bell((2 * twice) \div (hi - lo))
                       ELSE Bell((40 * twice) \div (3 * (lo + hi)))

DontCare(range) == range = <<0, 0>>

BandwidthMatch(s, f) == IF DontCare(s.bw) THEN 1000 ELSE RangeMatch(s.bw, f.bw)

RateMatch(s, r) ==
    CASE DontCare(s.sr)                   -> 1000
      [] ~DontCare(s.sr) /\ r.symRate = 0 -> 300
      [] OTHER                            -> RangeMatch(s.sr, r.symRate)

\* What the structural requirements that are not met leave of the score, in
\* thousandths.
StructMatch(s, f) ==
    LET burst == IF \/ "burst" \in s.needs /\ ~f.burst
                    \/ "continuous" \in s.needs /\ f.burst THEN 3 ELSE 10
        ofdm == IF "ofdm" \in s.needs /\ ~f.ofdm THEN 2 ELSE 10
        fhss == IF "fhss" \in s.needs /\ ~f.fhss THEN 2 ELSE 10
    IN burst * ofdm * fhss

Score(s, f, r) ==
    (40 * FreqMatch(s, f) + 30 * ModMatch(s, f, r) + 15 * BandwidthMatch(s, f) + 15 * RateMatch(s, r))
        * StructMatch(s, f)

\* The signatures whose score is above 0.05, each as <<score, name>>.
MinScore == ScoreOne \div 20
Scored(f, r) ==
    {p \in {<<Score(s, f, r), s.name>> : s \in Signatures} : p[1] > MinScore}

\* Mutant of Best: the comparison of the sort is the other way round.
Worst(S) == {p \in S : \A q \in S : p[1] <= q[1]}

Best(S) == {p \in S : \A q \in S : p[1] >= q[1]}

\* Every list of names that sorting the scored signatures and keeping the first
\* three can give.  The sort is not stable: signatures of equal score come in
\* any order.
TopThree(scored) ==
    LET rest(h) == {p \in scored : \A i \in DOMAIN h : p[2] # h[i]}
        Extend(H) == UNION {IF rest(h) = {} THEN {h} ELSE {Append(h, p[2]) : p \in Best(rest(h))} : h \in H}
    IN Extend(Extend(Extend({<<>>})))

\* ProtocolMapper::map(): the hypotheses it may write, by name.
Hypotheses(f, r) == TopThree(Scored(f, r))

=============================================================================
