------------------------- MODULE MCAnalysisEngine -------------------------
(***************************************************************************)
(* Small instances of AnalysisEngine for TLC: the features of signals at   *)
(* the edges and in the middle of what the signatures ask for.             *)
(***************************************************************************)
EXTENDS AnalysisEngine

MCLabels == {"BPSK", "FSK", "AM_DSB"}

\* A steady tone-like signal of good quality, given frequency and bandwidth.
Carrier(cf, bw, sr) ==
    [NoFeatures EXCEPT !.cf = cf, !.bw = bw, !.snr = 20, !.flat = 50, !.sym = 100,
                       !.env = 1, !.sr = sr, !.rate = 2000000]

\* The features the rules take for one modulation.
Shaped(g, mod) ==
    CASE mod = "AM_DSB_LC" -> [g EXCEPT !.env = 30, !.am = 50]
      [] mod = "CW"        -> [g EXCEPT !.env = 30, !.am = 8, !.flat = 85]
      [] mod = "FM_WB"     -> [g EXCEPT !.fmDev = 60000, !.freqStd = 60000, !.phase = 180]
      [] mod = "FM_NB"     -> [g EXCEPT !.fmDev = 6000, !.freqStd = 6000, !.phase = 180]
      [] mod = "OFDM"      -> [g EXCEPT !.ofdm = TRUE, !.fft = 64, !.env = 20]
      [] mod = "CSS"       -> [g EXCEPT !.chirp = TRUE]
      [] mod = "QAM16"     -> [g EXCEPT !.env = 10, !.c40 = -68, !.c42 = -68, !.phase = 180]
      [] OTHER             -> [g EXCEPT !.snr = 4]       \* too weak for the rules

\* Edges of the bands and of the ranges a signature asks for.
Edges(range) == {range[1], range[2]}
BandEdges(s) == UNION {Edges(b) : b \in s.bands}

\* A signal of one of a signature's modulations, bursty if it asks for bursts.
Signal(s, cf, bw, sr, mod) ==
    [Shaped(Carrier(cf, bw, sr), mod) EXCEPT !.burst = "burst" \in s.needs,
                                             !.duty = IF "burst" \in s.needs THEN 50 ELSE 100]

\* Signals that have what a signature asks for.
Textbook(s) ==
    { Signal(s, cf, bw, sr, mod) :
        cf \in BandEdges(s), bw \in Edges(s.bw), sr \in Edges(s.sr),
        mod \in s.mods \cup (IF s.mods = {} THEN {"CSS"} ELSE {}) }

\* Signals of a rate one asks for, a thousandth too wide for it.
TooWide(s) ==
    IF DontCare(s.sr) THEN {}
    ELSE {Signal(s, b[1], s.bw[2] + s.bw[2] \div 1000, s.sr[1], mod) : b \in s.bands, mod \in s.mods}

\* Signals the model may have to decide, around the thresholds of the SNR.
Doubtful ==
    { [Carrier(16200, 25000, 38400) EXCEPT !.snr = snr, !.c42 = c42, !.c40 = c40, !.env = env,
                                            !.fmDev = dev, !.freqStd = dev, !.phase = phase] :
        snr \in {4, 5, 8}, c40 \in {0, -200, 100}, c42 \in {-100, -200}, env \in {1, 30},
        dev \in {0, 5000}, phase \in {0, 157} }

MCFeatures == Doubtful \cup UNION {Textbook(s) \cup TooWide(s) : s \in Signatures}
=============================================================================
