---------------------------- MODULE IqDatasets ----------------------------
(***************************************************************************)
(* The loaders and the generator of tools/test_harness/datasets.py, which  *)
(* the test harness and the training script read their samples with.       *)
(*                                                                         *)
(* A sample is [gt, snr, len, from, seg]: its ground truth, its SNR (NaN   *)
(* where the file has none), its length, the offset of the recording it    *)
(* starts at and its segment_idx.  What the samples look like is left out. *)
(***************************************************************************)
EXTENDS PickedLists

CONSTANT NaN    \* a missing SNR: no comparison with it holds

Lesser(a, b) == IF a < b THEN a ELSE b

\* snr < snr_min_db
TooNoisy(snr, min) == snr # NaN /\ snr < min

----------------------------------------------------------------------------
RADIOML_2016_MODS ==
    {"8PSK", "AM-DSB", "AM-SSB", "BPSK", "CPFSK", "GFSK", "PAM4", "QAM16", "QAM64", "QPSK", "WBFM"}
RADIOML_2018_MODS ==
    {"OOK", "4ASK", "8ASK", "BPSK", "QPSK", "8PSK", "16PSK", "32PSK", "16APSK", "32APSK", "64APSK",
     "128APSK", "16QAM", "32QAM", "64QAM", "128QAM", "256QAM", "AM-SSB-WC", "AM-SSB-SC",
     "AM-DSB-WC", "AM-DSB-SC", "FM", "GMSK", "OQPSK"}

\* Mutant: the cap is not applied.
LoadRadioml2016Uncapped(keys, snrMin, maxPerClass) ==
    FlattenSeq([k \in 1..Len(keys) |->
        IF TooNoisy(keys[k].snr, snrMin) THEN <<>>
        ELSE [e \in 1..keys[k].n |->
                 [gt |-> keys[k].mod, snr |-> keys[k].snr, len |-> 128, from |-> 128 * (e - 1),
                  seg |-> e - 1]]])

\* keys: [mod, snr, n] for each "('QAM16', 6)" of the file.  The cap is one of
\* each (modulation, SNR), not of the modulation.
LoadRadioml2016(keys, snrMin, maxPerClass) ==
    FlattenSeq([k \in 1..Len(keys) |->
        IF TooNoisy(keys[k].snr, snrMin) THEN <<>>
        ELSE [e \in 1..Lesser(keys[k].n, maxPerClass) |->
                 [gt |-> keys[k].mod, snr |-> keys[k].snr, len |-> 128, from |-> 128 * (e - 1),
                  seg |-> e - 1]]])

\* rows: [mod, snr].  Only the first max_per_class * 24 rows of the file are
\* looked at, whatever their classes and SNRs are.
LoadRadioml2018(rows, snrMin, maxPerClass) ==
    LET scanned == 1..Lesser(Len(rows), maxPerClass * Cardinality(RADIOML_2018_MODS))
        kept == InOrder({k \in scanned : ~TooNoisy(rows[k].snr, snrMin)})
    IN  [j \in 1..Len(kept) |->
            [gt |-> rows[kept[j]].mod, snr |-> rows[kept[j]].snr, len |-> 1024,
             from |-> 1024 * (kept[j] - 1), seg |-> kept[j] - 1]]

\* load_sigmf() and load_raw_iq(): at most max_segments whole segments of the
\* recording; what is left at its end is dropped.
SegmentLen == 65536
MaxSegments == 10
Segments(recording) ==
    [k \in 1..Lesser(MaxSegments, recording.len \div SegmentLen) |->
        [gt |-> recording.gt, snr |-> NaN, len |-> SegmentLen, from |-> SegmentLen * (k - 1),
         seg |-> k - 1]]

\* load_numpy_npz() keeps the first max_per_class rows of a class that are not
\* too noisy; a label beyond the classes is named by its number.
KeepRow(rows, k, snrMin, maxPerClass) ==
    /\ ~TooNoisy(rows[k].snr, snrMin)
    /\ Cardinality({j \in 1..(k - 1) : rows[j].y = rows[k].y /\ ~TooNoisy(rows[j].snr, snrMin)})
         < maxPerClass

LoadNumpyNpz(file, snrMin, maxPerClass) ==
    LET kept == InOrder({k \in 1..Len(file.rows) : KeepRow(file.rows, k, snrMin, maxPerClass)})
        row(j) == file.rows[kept[j]]
    IN  [j \in 1..Len(kept) |->
            [gt |-> IF row(j).y < Len(file.classes) THEN file.classes[row(j).y + 1]
                                                    ELSE ToString(row(j).y),
             snr |-> row(j).snr, len |-> file.len, of |-> row(j).of]]

----------------------------------------------------------------------------
\* _SYNTH_GENERATORS: the samples per symbol of PSK, QAM and FSK, the FFT size and
\* prefix of an OFDM symbol, or the length of a chirp, sr / bw * n_chirp.
SyntheticMods ==
    {"BPSK", "QPSK", "8PSK", "QAM16", "QAM64", "FM_NB", "FM_WB", "AM_DSB_LC", "AM_DSB_SC", "OFDM",
     "FSK", "MSK", "CSS"}
SyntheticUnit(mod) ==
    CASE mod \in {"BPSK", "QPSK", "8PSK", "QAM16", "QAM64"} -> 8
      [] mod \in {"FM_NB", "FM_WB", "AM_DSB_LC", "AM_DSB_SC"} -> 1
      [] mod = "OFDM" -> 64 + 16
      [] mod = "FSK" -> 20
      [] mod = "MSK" -> 10
      [] mod = "CSS" -> 4 * 512

\* a[:n]
CutAt(len, n) == Lesser(len, n)

\* np.repeat(syms, sps)[:n] of n // sps + 1 symbols: _gen_psk, _gen_qam, _gen_fsk
RepeatedLength(n, sps) == CutAt((n \div sps + 1) * sps, n)

\* _gen_ofdm: symbols are added until there are n samples.
OfdmLength(n, symbol) == CutAt(((n + symbol - 1) \div symbol) * symbol, n)

\* _gen_css: np.tile(c, n // cl + 1)[:n]
CssLength(n, chirp) == CutAt((n \div chirp + 1) * chirp, n)

\* Mutant: n // sps symbols.
SyntheticLengthShort(mod, n) ==
    CASE mod = "CSS" -> CssLength(n, SyntheticUnit(mod))
      [] mod = "OFDM" -> OfdmLength(n, SyntheticUnit(mod))
      [] OTHER -> (n \div SyntheticUnit(mod)) * SyntheticUnit(mod)

\* One example; the noise _awgn() adds has its length.
SyntheticLength(mod, n) ==
    CASE mod = "CSS" -> CssLength(n, SyntheticUnit(mod))
      [] mod = "OFDM" -> OfdmLength(n, SyntheticUnit(mod))
      [] OTHER -> RepeatedLength(n, SyntheticUnit(mod))

\* generate_synthetic(): modulation, then SNR, then n_per_class.
GenerateSynthetic(mods, snrs, perClass, n) ==
    FlattenSeq([m \in 1..Len(mods) |->
        IF mods[m] \notin SyntheticMods THEN <<>>
        ELSE FlattenSeq([s \in 1..Len(snrs) |->
                 [e \in 1..perClass |-> [gt |-> mods[m], snr |-> snrs[s],
                                         len |-> SyntheticLength(mods[m], n)]]])])

\* save_synthetic_npz() numbers the sorted classes; np.stack raises unless all
\* examples have one length.  `order` sorts the names of all modulations.
SaveSynthetic(generated, order) ==
    LET named == SelectSeq(order, LAMBDA c : \E k \in DOMAIN generated : generated[k].gt = c)
    IN  [classes |-> named,
         rows |-> [k \in 1..Len(generated) |->
                     [y |-> (CHOOSE j \in 1..Len(named) : named[j] = generated[k].gt) - 1,
                      snr |-> generated[k].snr, of |-> k]],
         len |-> generated[1].len]

=============================================================================
