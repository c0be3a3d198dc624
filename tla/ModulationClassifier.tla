----------------------- MODULE ModulationClassifier -----------------------
(***************************************************************************)
(* ModulationClassifier: the decision tree from signal features to a       *)
(* modulation and its traits.  f is a record of features.  Ratios,         *)
(* cumulants and phases are in hundredths (c42 = -200 is -2.0),            *)
(* frequencies in Hz, the SNR in dB, symbol rates in quarters of a symbol  *)
(* per second.                                                             *)
(***************************************************************************)
EXTENDS Integers

\* |x - centre| < radius
Near(x, centre, radius) == centre - radius < x /\ x < centre + radius

LooksFm(f) == 10 * f.fmDev > f.bw /\ f.env < 10

LooksPm(f) == f.phase > 30 /\ f.env < 15 /\ 10 * f.freqStd < f.bw

IsAnalog(f) ==
    \/ f.env > 25 /\ 4 * f.fmDev < f.bw
    \/ LooksFm(f)
    \/ LooksPm(f)

IsConstantEnvelope(f) == f.env < 5

ClassifyAnalog(f) ==
    IF LooksFm(f) THEN IF f.fmDev > 50000 THEN "FM_WB" ELSE "FM_NB"
    ELSE IF LooksPm(f) THEN "PM"
    ELSE IF f.am > 10 /\ f.sym < 50 THEN IF f.freqMean > 0 THEN "SSB_USB" ELSE "SSB_LSB"
    ELSE IF f.am < 5 /\ f.env > 25 THEN "AM_DSB_SC"
    ELSE IF f.flat > 80 \/ (f.burst /\ f.duty < 60) THEN "CW"
    ELSE "AM_DSB_LC"

\* A digital modulation and its order.
Dig(digital, mAry) == [digital |-> digital, mAry |-> mAry]

ClassifyConstantEnvelope(f) ==
    IF f.flat < 20 /\ f.env < 5                            THEN Dig("GMSK", 2)
    ELSE IF Near(f.c42, -200, 50) /\ Near(f.c40, 0, 30)    THEN Dig("FSK", 2)
    ELSE IF Near(f.c40, -200, 40) /\ f.c42 < -150          THEN Dig("BPSK", 2)
    ELSE IF Near(f.c40, -200, 50) /\ Near(f.c42, -100, 60) THEN Dig("QPSK", 4)
    ELSE IF Near(f.c40, 0, 40) /\ Near(f.c42, -100, 40)    THEN Dig("8PSK", 8)
    ELSE Dig("PSK", 2)

ClassifyVariableAmplitude(f) ==
    IF Near(f.c40, -68, 20) /\ Near(f.c42, -68, 20)        THEN Dig("QAM16", 16)
    ELSE IF Near(f.c40, -62, 15) /\ Near(f.c42, -62, 15)   THEN Dig("QAM64", 64)
    ELSE IF Near(f.c40, -50, 20) /\ Near(f.c42, -50, 20)   THEN Dig("QAM32", 32)
    ELSE IF Near(f.c40, -200, 30) /\ Near(f.c42, 200, 30)  THEN Dig("BPSK", 2)
    ELSE IF Near(f.c40, -200, 40) /\ Near(f.c42, 0, 20)    THEN Dig("QPSK", 4)
    ELSE Dig("QAM16", 16)

ClassifyDigital(f) ==
    IF IsConstantEnvelope(f) THEN ClassifyConstantEnvelope(f) ELSE ClassifyVariableAmplitude(f)

\* log2 of a modulation order
BitsPerSymbol == [m \in {2, 4, 8, 16, 32, 64} |-> CHOOSE b \in 1..6 : 2^b = m]

LineCode(f, digital) ==
    IF digital \notin {"FSK", "GMSK"} THEN ""
    ELSE IF f.bw > 0 /\ f.sr > 0 /\ 40 * f.bw > 18 * f.sr /\ 40 * f.bw < 25 * f.sr
         THEN "Manchester" ELSE "NRZ"

\* What every classification starts from.
Blank(f) ==
    [ classified |-> TRUE, reject |-> "", analog |-> "", digital |-> "", mAry |-> 0,
      symRate |-> f.sr, isOfdm |-> FALSE, isFhss |-> f.fhss, isSpread |-> f.fhss \/ f.dsss,
      lineCode |-> "", bitRate |-> 0 ]

\* Symbol rate of an OFDM signal: the sample rate over the FFT size.
OfdmRate(f) == IF f.fft > 0 THEN (4 * f.rate) \div f.fft ELSE f.sr

\* A digital signal by its cumulants, with its bitstream traits.
Digital(f) ==
    LET d == ClassifyDigital(f)
    IN [Blank(f) EXCEPT !.digital = d.digital, !.mAry = d.mAry,
                        !.lineCode = LineCode(f, d.digital),
                        !.bitRate = IF f.sr > 0 THEN f.sr * BitsPerSymbol[d.mAry] ELSE 0]

\* ModulationClassifier::classify(): the first test that holds decides.
Classify(f) ==
    IF f.snr < 5 THEN [Blank(f) EXCEPT !.classified = FALSE, !.reject = "SNR too low"]
    ELSE IF f.chirp THEN [Blank(f) EXCEPT !.digital = "CSS", !.mAry = 2]
    ELSE IF f.ofdm THEN [Blank(f) EXCEPT !.digital = "OFDM", !.isOfdm = TRUE, !.symRate = OfdmRate(f)]
    ELSE IF f.fhss THEN [Blank(f) EXCEPT !.digital = "FHSS", !.isSpread = TRUE]
    ELSE IF f.dsss THEN [Blank(f) EXCEPT !.digital = "DSSS", !.isSpread = TRUE]
    ELSE IF IsAnalog(f) THEN [Blank(f) EXCEPT !.analog = ClassifyAnalog(f)]
    ELSE Digital(f)

=============================================================================
