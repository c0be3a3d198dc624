------------------------- MODULE MirrorClassifier -------------------------
(***************************************************************************)
(* tools/test_harness/classifier.py, the decision tree the test harness    *)
(* uses in place of the C++ ModulationClassifier.  Units as there: ratios, *)
(* cumulants, phases and the kurtosis in hundredths, frequencies in Hz,    *)
(* the SNR in dB, symbol rates in quarters of a symbol per second.         *)
(***************************************************************************)
EXTENDS Integers

\* abs(x - target) < tol
Close(x, target, tol) == target - tol < x /\ x < target + tol

\* The tree before the classifier proper, run before the SNR gate; a result
\* found here keeps classified = False.
Structural(f) ==
    CASE f.chirp -> "CSS"
      [] ~f.chirp /\ f.ofdm -> "OFDM"
      [] ~f.chirp /\ ~f.ofdm /\ f.fhss -> "FHSS"
      [] OTHER -> ""

MirrorIsAnalog(f) == f.env > 12

\* _classify_analog(); its FM and PM branch needs env < 8.
MirrorAnalog(f) ==
    IF f.env < 8 THEN
        IF f.fmDev > 50000 THEN "FM_WB"
        ELSE IF f.fmDev > 3000 THEN "FM_NB"
        ELSE IF f.phase > 30 THEN "PM" ELSE "FM_NB"
    ELSE IF f.sym < 40 /\ f.am > 5 THEN IF f.freqMean > 0 THEN "SSB_USB" ELSE "SSB_LSB"
    ELSE IF f.am < 5 THEN "AM_DSB_SC"
    ELSE IF f.burst /\ f.duty < 50 THEN "CW" ELSE "AM_DSB_LC"

PskLike(f) == f.kurt > 300

FmByDeviation(f) == IF f.fmDev > 50000 THEN "FM_WB" ELSE "FM_NB"

\* The modulation index h = dev / (symbol rate / 2) is between a/b, exclusive.
IndexBetween(f, lo, hi) == lo * f.sr < 800 * f.fmDev /\ 800 * f.fmDev < hi * f.sr

\* c40 near 0, c42 near -1: FM, FSK, GMSK or 8PSK by the deviation; bw falls
\* back to a tenth of the sample rate, and that to 1 MHz.
MirrorFrequency(f) ==
    LET rate == IF f.rate > 0 THEN f.rate ELSE 1000000
        bw   == IF f.bw > 0 THEN f.bw ELSE rate \div 10
    IN  IF 20 * f.fmDev <= bw THEN "8PSK"
        ELSE IF f.sr = 0 THEN FmByDeviation(f)
        ELSE IF IndexBetween(f, 25, 75) THEN "MSK/GMSK"
        ELSE IF 800 * f.fmDev > 300 * f.sr THEN FmByDeviation(f)
        ELSE "FSK"

MirrorConstantEnvelope(f) ==
    IF PskLike(f) /\ (\/ f.m20Max > 45
                      \/ f.c40Min < -150
                      \/ Close(f.c40, -200, 60) /\ Close(f.c42, -200, 70)) THEN "BPSK"
    ELSE IF PskLike(f) /\ -150 < f.c40Min /\ f.c40Min < -30 /\ f.m20Max < 45 THEN "QPSK"
    ELSE IF Close(f.c40, 0, 60) /\ Close(f.c42, -100, 60) THEN MirrorFrequency(f)
    ELSE "PSK"

\* The regions of QAM16 and QAM64 lie inside the one of QPSK.
MirrorVariableAmplitude(f) ==
    IF Close(f.c40, -200, 60) /\ Close(f.c42, -200, 70) THEN "BPSK"
    ELSE IF Close(f.c40, -100, 50) /\ Close(f.c42, -100, 50) THEN "QPSK"
    ELSE IF Close(f.c40, -68, 15) /\ Close(f.c42, -68, 15) THEN "QAM16"
    ELSE IF Close(f.c40, -62, 10) /\ Close(f.c42, -62, 10) THEN "QAM64"
    ELSE IF Close(f.c40, -50, 15) /\ Close(f.c42, -50, 15) THEN "QAM32"
    ELSE IF Close(f.c40, -46, 12) /\ Close(f.c42, -46, 12) THEN "QAM256"
    ELSE IF f.env > 30 /\ (f.c42 > 100 \/ f.c42 < -100) THEN "M-ASK/OOK"
    ELSE "UNKNOWN"

MirrorDigital(f) ==
    IF f.env < 8 THEN MirrorConstantEnvelope(f) ELSE MirrorVariableAmplitude(f)

\* ClassificationResult(), with the traits that are copied from the features.
MirrorBlank(f) ==
    [classified |-> FALSE, analog |-> "", digital |-> "", isOfdm |-> FALSE,
     isBurst |-> f.burst, isFhss |-> f.fhss, sr |-> 0]

\* Mutant of MirrorClassify: the classifier proper also runs below the gate.
MirrorUngated(f) ==
    LET r == MirrorBlank(f)
    IN  IF Structural(f) # "" THEN [r EXCEPT !.digital = Structural(f), !.isOfdm = Structural(f) = "OFDM"]
        ELSE IF MirrorIsAnalog(f) THEN [r EXCEPT !.classified = TRUE, !.analog = MirrorAnalog(f)]
        ELSE [r EXCEPT !.classified = TRUE, !.digital = MirrorDigital(f), !.sr = f.sr]

\* ModulationClassifier.classify()
MirrorClassify(f) ==
    LET r == MirrorBlank(f)
    IN  IF Structural(f) # "" THEN [r EXCEPT !.digital = Structural(f), !.isOfdm = Structural(f) = "OFDM"]
        ELSE IF f.snr < 5 THEN r
        ELSE IF MirrorIsAnalog(f) THEN [r EXCEPT !.classified = TRUE, !.analog = MirrorAnalog(f)]
        ELSE [r EXCEPT !.classified = TRUE, !.digital = MirrorDigital(f), !.sr = f.sr]

\* r.analog_modulation or r.digital_modulation
Detected(r) == IF r.analog # "" THEN r.analog ELSE r.digital

=============================================================================
