------------------------ MODULE SyntheticGenerators ------------------------
(***************************************************************************)
(* The synthetic signal generators of tools/ml (generate_v3.py,            *)
(* generate_extended.py, generate_qam.py), one operator for each.  A       *)
(* waveform is abstracted to what decides whether it can be learned from:  *)
(* how many samples come out, how many of them are the same in every       *)
(* window (a preamble that leads it), and the smallest frequency deviation *)
(* that carries the data.  A generator that returns another number of      *)
(* samples than asked fails the assignment to its row of X and ends the    *)
(* whole run.                                                              *)
(*                                                                         *)
(* Random draws are the sets the operators range over; time is in samples  *)
(* at SR = 200 kHz, frequency in Hz.                                       *)
(***************************************************************************)
EXTENDS Integers, Sequences, FiniteSets, ClassFamilies

SR == 200000

Least(a, b) == IF a < b THEN a ELSE b
Most(a, b) == IF a < b THEN b ELSE a
CeilDiv(a, b) == (a + b - 1) \div b

\* len(a[lo:hi]) for an array of `len` samples and 0 <= lo <= hi.
Sliced(len, lo, hi) == Least(len, hi) - Least(len, lo)

\* np.repeat(symbols, sps)[:n]
Repeated(nSyms, sps, n) == Least(nSyms * sps, n)

\* A generated window; `dev` is SR for what is not keyed by frequency.
Window(len, fixed, dev) == [len |-> len, fixed |-> fixed, dev |-> dev]
Plain(len) == Window(len, 0, SR)

----------------------------------------------------------------------------
\* generate_v3: pulse-shaped carriers.

\* _rrc(): span of ten symbols, and the middle tap.
RrcTaps(sps) == 10 * sps + 1

\* _apply_rrc(): as many samples as the upsampled symbols.
ShapedLength(nSyms, sps) == nSyms * sps

\* The filter delay, half its length, is stripped before the window is cut.
RrcDelay(sps) == (RrcTaps(sps) - 1) \div 2

\* Mutant: no spare symbols, the delay is taken from the window.
DigitalUnpadded(n, sps) ==
    Plain(Sliced(ShapedLength(CeilDiv(n, sps), sps), RrcDelay(sps), RrcDelay(sps) + n))

\* _digital(): twenty spare symbols for the filter delay.
Digital(n, sps) ==
    Plain(Sliced(ShapedLength(CeilDiv(n, sps) + 20, sps), RrcDelay(sps), RrcDelay(sps) + n))

\* Linear levels, or on-off, through the same shaping.
Ask(n, sps) == Digital(n, sps)
Ook(n, sps) == Digital(n, sps)
Tetra(n) == {Digital(n, s) : s \in 4..7}
Psk31(n, sps) == Digital(n, sps)

\* max(4, int(SR / baud)), the baud rate in hundredths.
SamplesPerSymbol(centibaud) == Most(4, (SR * 100) \div centibaud)
P25Phase2(n) == Digital(n, SamplesPerSymbol(1200000))
Vdl2(n) == Digital(n, SamplesPerSymbol(1050000))

\* _fsk(): a phase for each of n samples, the symbol index kept inside; the
\* levels are odd multiples of the deviation.
FskDeviation(m) == 8000 \div (m - 1)
Fsk(n, sps, dev) ==
    LET nSyms  == CeilDiv(n, sps) + 1
        Sym(i) == Least(i \div sps, nSyms - 1)
    IN  Window(Cardinality({i \in 0..(n - 1) : Sym(i) \in 0..(nSyms - 1)}), 0, dev)

\* _gfsk(): cut to the window and the Gaussian filter, filtered, cut again.
Gfsk(n, sps, dev) ==
    Window(Least(Repeated(CeilDiv(n, sps) + 5, sps, n + 6 * sps + 1), n), 0, dev)
Dstar(n) == Gfsk(n, 40, 1600)
Ais(n) == Gfsk(n, 20, 4800)

----------------------------------------------------------------------------
\* generate_v3: modes computed on a time axis of np.arange(n).
OnTimeAxis(n) == Plain(Cardinality(0..(n - 1)))
FmWb(n) == OnTimeAxis(n)
FmNb(n) == OnTimeAxis(n)
AmDsb(n) == OnTimeAxis(n)
AmDsbSc(n) == OnTimeAxis(n)
AmSsb(n) == OnTimeAxis(n)
Lfm(n) == OnTimeAxis(n)
Tone(n) == OnTimeAxis(n)

\* _ofdm(): one spare symbol; _ofdm_variant() draws the sizes.
Ofdm(n, nfft, cp) == Plain(Least((CeilDiv(n, nfft + cp) + 1) * (nfft + cp), n))
OfdmVariant(n) == {Ofdm(n, f, f \div d) : f \in {32, 64, 128}, d \in {4, 8}}

\* _css(): SR / bw is below 8 for every drawn bandwidth, so a chirp is 8
\* samples; the start is drawn within one.
CssChirp == 8
Css(n) == {Plain(Sliced((n \div CssChirp + 2) * CssChirp, s, s + n)) : s \in 0..(CssChirp - 1)}

\* _dtmf(): tone and pause of equal length, k digits; the samples that are
\* written must lie inside the window.
DtmfSegments(n, k) ==
    LET dig == n \div (k * 2)
    IN  {<<i * dig * 2, Least(i * dig * 2 + dig, n)>> : i \in 0..(k - 1)}
Dtmf(n) == OnTimeAxis(n)

\* _adsb(): one sample per pulse; preamble pulses, then as many bits as fit.
AdsbPulses(n) ==
    LET bits == Least(56, (n - 8) \div 2)
    IN  {0, 1, 3, 4} \cup {8 + b * 2 + v : b \in 0..(bits - 1), v \in {0, 1}}
Adsb(n) == OnTimeAxis(n)

----------------------------------------------------------------------------
\* generate_v3: keyed modes, np.repeat(...)[:n] with five spare symbols, led
\* by the first `lead` of them when the generator overwrites these.
KeyedSymbols(n, sps) == CeilDiv(n, sps) + 5
Keyed(n, sps, lead, dev) ==
    Window(Repeated(KeyedSymbols(n, sps), sps, n), Least(lead * sps, n), dev)

\* The frame syncs of P25, DMR and NXDN are drawn, and need room.
P25C4fm(n) ==
    {Keyed(n, 40, lead, 600) : lead \in {0} \cup IF KeyedSymbols(n, 40) > 24 THEN {24} ELSE {}}
Dmr(n) ==
    {Keyed(n, 40, lead, 648) : lead \in {0} \cup IF KeyedSymbols(n, 40) > 24 THEN {12} ELSE {}}
\* One burst and its guard interval in each half of the window.
DmrGuards(n) ==
    LET period == n \div 2
    IN  {<<Least(s + (period * 3) \div 4, n), Least(s + period, n)>> :
            s \in {x \in 0..(n - 1) : x % period = 0}}
Nxdn(n) ==
    {Keyed(n, 40, lead, 1050) : lead \in {0} \cup IF KeyedSymbols(n, 40) > 8 THEN {4} ELSE {}}

Pocsag(n) ==
    UNION {LET sps == SamplesPerSymbol(baud)
           IN  {Keyed(n, sps, lead, 4500) : lead \in {0, Least(32, KeyedSymbols(n, sps))}} :
           baud \in {51200, 120000, 240000}}

\* ACARS keys an audio tone: its deviation is half the tone spacing.
Acars(n) ==
    LET sps == SamplesPerSymbol(240000)
    IN  {Keyed(n, sps, lead, 600) : lead \in {0, Least(12, KeyedSymbols(n, sps))}}

\* Always led: FLEX by four sync dibits, MDC-1200 by two symbols of idle, DSC
\* by sixteen of the phasing sequence.
Flex(n) ==
    LET sps == SamplesPerSymbol(160000) IN Keyed(n, sps, Least(4, KeyedSymbols(n, sps)), 600)
Mdc1200(n) ==
    LET sps == SamplesPerSymbol(120000) IN Keyed(n, sps, Least(2, KeyedSymbols(n, sps)), 1200)
Dsc(n) ==
    LET sps == SamplesPerSymbol(120000) IN Keyed(n, sps, Least(16, KeyedSymbols(n, sps)), 400)

\* _eas_same(): thirty symbols of 384 samples, four of each tone in turn, and
\* a random slice of them.
EasSamplesPerSymbol == SamplesPerSymbol(52083)
EasTotal == 30 * EasSamplesPerSymbol
EasOffsets(n) == IF EasTotal > n THEN 0..(EasTotal - n - 1) ELSE {0}
EasSame(n, off) == Window(Sliced(EasTotal, off, off + n), 0, 260)

\* _rtty(), _navtex(): twelve symbols; the window is centred on symbol k,
\* which is forced to differ from the one before it.
SteppedOffset(n, sps, k) == Least(Most(0, k * sps - n \div 2), 12 * sps - n)
Stepped(n, sps, k, dev) ==
    Window(Sliced(12 * sps, SteppedOffset(n, sps, k), SteppedOffset(n, sps, k) + n), 0, dev)
SymbolEdges(n, sps, k) ==
    {j \in 1..11 : /\ SteppedOffset(n, sps, k) < j * sps
                   /\ j * sps < SteppedOffset(n, sps, k) + n}
RttySymbol == SamplesPerSymbol(4545)
NavtexSymbol == SamplesPerSymbol(10000)
Rtty(n) == {Stepped(n, RttySymbol, k, 85) : k \in 1..11}
Navtex(n) == {Stepped(n, NavtexSymbol, k, 150) : k \in 1..11}

----------------------------------------------------------------------------
\* _gen_one(cls, n): the windows it may return, over every draw of
\* rng.integers(4, 13) and of the generator.
SymbolLengths == 4..12

Windows(cls, n) ==
    CASE cls = "OOK" -> {Ook(n, s) : s \in SymbolLengths}
      [] cls = "4ASK" -> {Ask(n, s) : s \in SymbolLengths}
      [] cls = "16ASK" -> {Ask(n, Most(s, 6)) : s \in SymbolLengths}
      [] cls \in {"BPSK", "QPSK", "8PSK", "16PSK", "32PSK"} -> {Digital(n, s) : s \in SymbolLengths}
      [] cls \in FamilyMembers.QAM -> {Digital(n, Most(s, 5)) : s \in SymbolLengths}
      [] cls = "FSK" -> {Fsk(n, s, FskDeviation(2)) : s \in SymbolLengths}
      [] cls = "4FSK" -> {Fsk(n, s, 1333) : s \in SymbolLengths}
      [] cls = "8FSK" -> {Fsk(n, Most(s, 6), FskDeviation(8)) : s \in SymbolLengths}
      [] cls = "MSK" -> {Fsk(n, s, SR \div (4 * s)) : s \in SymbolLengths}
      [] cls = "GFSK" -> {Gfsk(n, Least(s, 6), 10000) : s \in SymbolLengths}
      [] cls = "GMSK" -> {Gfsk(n, s, SR \div (4 * s)) : s \in SymbolLengths}
      [] cls = "FM_WB" -> {FmWb(n)}
      [] cls = "FM_NB" -> {FmNb(n)}
      [] cls = "AM_DSB" -> {AmDsb(n)}
      [] cls = "AM_DSB_SC" -> {AmDsbSc(n)}
      [] cls \in {"AM_SSB_USB", "AM_SSB_LSB"} -> {AmSsb(n)}
      [] cls = "OFDM" -> OfdmVariant(n)
      [] cls = "CSS" -> Css(n)
      [] cls = "LFM" -> {Lfm(n)}
      [] cls = "TONE" -> {Tone(n)}
      [] cls = "P25_C4FM" -> P25C4fm(n)
      [] cls = "DMR" -> Dmr(n)
      [] cls = "NXDN" -> Nxdn(n)
      [] cls = "DSTAR" -> {Dstar(n)}
      [] cls = "TETRA" -> Tetra(n)
      [] cls = "AIS" -> {Ais(n)}
      [] cls = "POCSAG" -> Pocsag(n)
      [] cls = "ACARS" -> Acars(n)
      [] cls = "FLEX" -> {Flex(n)}
      [] cls = "MDC_1200" -> {Mdc1200(n)}
      [] cls = "DTMF" -> {Dtmf(n)}
      [] cls = "EAS_SAME" -> {EasSame(n, o) : o \in EasOffsets(n)}
      [] cls = "RTTY" -> Rtty(n)
      [] cls = "P25_PHASE2" -> {P25Phase2(n)}
      [] cls = "ADS_B" -> {Adsb(n)}
      [] cls = "DSC" -> {Dsc(n)}
      [] cls = "NAVTEX" -> Navtex(n)
      [] cls = "VDL2" -> {Vdl2(n)}
      [] cls = "PSK31" -> {Psk31(n, s) : s \in SymbolLengths}
      [] OTHER -> {}

\* The files are made with _impair_multi_sdr(), _impair() or _qam_impair(): the
\* first draws one of the _SDR_PROFILES, whose fo_frac is given here in
\* ten-thousandths of SR, and an offset up to that fraction, or to 0.001 and
\* 0.002 of SR in the other two.
OffsetFractions == {30, 60, 40, 5}
ImpairOffsets == {k * (SR \div 10000) : k \in OffsetFractions \cup {10, 20}}

----------------------------------------------------------------------------
\* Constellations, as integer points before the power is normalised.

Root(m) == CHOOSE k \in 0..m : k * k <= m /\ (k + 1) * (k + 1) > m

Levels(side) == {2 * i - (side - 1) : i \in 0..(side - 1)}
Grid(side) == Levels(side) \X Levels(side)

\* generate_v3._constellation(M, "qam"): a cross constellation loses its corners.
QamPoints(m) ==
    IF Root(m) * Root(m) = m THEN Grid(Root(m))
    ELSE LET side == Root((3 * m) \div 2)
         IN  {p \in Grid(side) : ~(p[1] \in {1 - side, side - 1} /\ p[2] \in {1 - side, side - 1})}

\* generate_extended._qam(order): the first `order` points of the grid, row by
\* row; the side is the nearest integer to the root.
ExtendedQamPoints(m) ==
    LET side    == IF Root(m) * Root(m) + Root(m) < m THEN Root(m) + 1 ELSE Root(m)
        Rank(p) == ((p[2] + side - 1) \div 2) * side + (p[1] + side - 1) \div 2
    IN  {p \in Grid(side) : Rank(p) < m}

----------------------------------------------------------------------------
\* generate_qam: a timing offset of up to half a symbol.

\* int(round(timing * sps)) % sps for timing in [0, 0.5)
TimingOffsets(sps) == 0..(sps \div 2)

\* _apply_rrc() drops the offset from the front of the shaped signal, and
\* _gen_qam() starts the window behind the filter delay and the offset.
QamShaped(n, sps, o) == ShapedLength(CeilDiv(n, sps) + 20, sps) - o
QamStart(sps, o) == RrcDelay(sps) + o

\* Samples cut from the shaped signal before np.pad() fills the window up.
QamWindow(n, sps, o) == Sliced(QamShaped(n, sps, o), QamStart(sps, o), QamStart(sps, o) + n)

----------------------------------------------------------------------------
\* generate_extended: rectangular pulses.

\* np.repeat(rng.choice(..., n // sps + 1), sps)[:n]: _ask, _psk, _qam, _fsk
Rectangular(n, sps) == Repeated(n \div sps + 1, sps, n)

\* _gfsk: np.convolve(raw, g, mode="same") is as long as the longer of the two.
ExtendedGfsk(n, sps, taps) == Most(Rectangular(n, sps), Most(sps, taps))

\* _fm, _am, _ssb; _lfm, _tone
ExtendedAnalog(n) == Cardinality(0..(n - 1))
ExtendedTones(n) == Cardinality(0..(n - 1))

\* _ofdm: symbols are added until they cover the window.
ExtendedOfdm(n) == Least(CeilDiv(n, 80) * 80, n)

\* _css: a chirp of int(SR / bw) = 4 samples and a random start.
ExtendedCss(n, start) == Sliced((n \div 4 + 2) * 4, start, start + n)

\* GENERATORS of generate_extended.py: the lengths of each class's windows.
ExtendedLengths(cls, n) ==
    CASE cls \in {"OOK", "4ASK", "BPSK", "QPSK", "8PSK", "QAM16", "QAM32", "8FSK"} -> {Rectangular(n, 8)}
      [] cls \in {"16ASK", "16PSK", "32PSK", "QAM64", "QAM256"} -> {Rectangular(n, 4)}
      [] cls \in {"4FSK", "MSK"} -> {Rectangular(n, 16)}
      [] cls = "FSK" -> {Rectangular(n, 32)}
      [] cls = "GFSK" -> {ExtendedGfsk(n, 32, 64)}
      [] cls = "GMSK" -> {ExtendedGfsk(n, 16, 53)}
      [] cls = "OFDM" -> {ExtendedOfdm(n)}
      [] cls = "CSS" -> {ExtendedCss(n, s) : s \in 0..3}
      [] cls \in FamilyMembers.FM \cup FamilyMembers.AM -> {ExtendedAnalog(n)}
      [] cls \in {"LFM", "TONE"} -> {ExtendedTones(n)}
      [] OTHER -> {}

\* CLASS_NAMES of the two scripts; generate_v3 adds the protocol classes.
ExtendedClasses ==
    {"OOK", "4ASK", "16ASK", "FSK", "4FSK", "8FSK", "MSK", "GFSK", "GMSK", "BPSK", "QPSK",
     "8PSK", "16PSK", "32PSK", "QAM16", "QAM32", "QAM64", "QAM256", "FM_NB", "FM_WB",
     "AM_DSB", "AM_DSB_SC", "AM_SSB_LSB", "AM_SSB_USB", "OFDM", "CSS", "LFM", "TONE"}
ClassNames == ExtendedClasses \cup
    {"P25_C4FM", "DMR", "NXDN", "DSTAR", "TETRA", "AIS", "POCSAG", "ACARS", "FLEX",
     "MDC_1200", "DTMF", "EAS_SAME", "RTTY", "P25_PHASE2", "ADS_B", "DSC", "NAVTEX",
     "VDL2", "PSK31"}

----------------------------------------------------------------------------
\* Echoes: the lengths on the two sides of every slice assignment, which
\* numpy requires to agree.

\* add_impairments(): multipath taps of whole and fractional delays.
TapSlices(n, delay) == {<<Sliced(n, d, n), Most(0, n - d)>> : d \in {x \in {delay, delay + 1} : x < n}}

\* _impair_multi_sdr(): echo[delay:] = iq[:-delay], delay drawn below n // 8.
EchoSlices(n) == {<<Sliced(n, d, n), n - d>> : d \in 1..(Most(2, n \div 8) - 1)}

\* _qam_impair(): out[delay:] += ... iq[:-delay], delay drawn below 13.
QamEchoSlices(n) == {<<Sliced(n, d, n), n - d>> : d \in {x \in 1..12 : x < n}}

----------------------------------------------------------------------------
(* What the training sets rely on, at a window of n samples. *)

\* Every window has the length asked for, and every class has one: otherwise
\* the assignment to X fails hours into a run, or the class is empty.
WindowsFull(n) ==
    /\ \A cls \in ClassNames : Windows(cls, n) # {} /\ \A w \in Windows(cls, n) : w.len = n
    /\ \A cls \in ExtendedClasses : ExtendedLengths(cls, n) = {n}
    /\ \A sps \in SymbolLengths : \A o \in TimingOffsets(sps) : QamWindow(n, sps, o) = n
    /\ \A s \in EchoSlices(n) \cup QamEchoSlices(n) \cup TapSlices(n, 3) : s[1] = s[2]

\* Sub-segments stay inside the window and do not overlap.
SegmentsInside(n) ==
    /\ \A k \in 3..6 : \A a, b \in DtmfSegments(n, k) :
          a[2] <= n /\ (a = b \/ a[2] <= b[1] \/ b[2] <= a[1])
    /\ \A g \in DmrGuards(n) : g[1] <= g[2]
    /\ \A p \in AdsbPulses(n) : p < n

\* The slow modes show their one step: RTTY and NAVTEX windows are centred on
\* a change of tone, so that they are not mistaken for a single tone.
OneStepShown(n) ==
    \A k \in 1..11 : /\ SymbolEdges(n, RttySymbol, k) = {k}
                     /\ SymbolEdges(n, NavtexSymbol, k) = {k}

\* QAM constellations have as many points as the order says, and those of
\* generate_v3 no net offset.
ConstellationsWhole ==
    \A m \in {16, 32, 64, 256} :
        /\ Cardinality(QamPoints(m)) = m /\ Cardinality(ExtendedQamPoints(m)) = m
        /\ \A p \in QamPoints(m) : <<-p[1], -p[2]>> \in QamPoints(m)

\* Every class trained on has a family, and only one.
FamiliesPartition ==
    /\ MappedClasses = ClassNames
    /\ \A f, g \in DOMAIN FamilyMembers : f # g => FamilyMembers[f] \cap FamilyMembers[g] = {}

\* The classes keyed by no more than the largest offset.  _impair() is held to
\* 200 Hz to stay below the smallest deviation of every family, and does, but
\* for RTTY's and NAVTEX's; the offsets of the device profiles reach these too.
HiddenByOffset ==
    {"8FSK", "P25_C4FM", "DMR", "NXDN", "ACARS", "FLEX", "MDC_1200", "DSC", "EAS_SAME",
     "RTTY", "NAVTEX"}

\* Windows show data behind the fixed preamble, in every class but DSC, and
\* outside HiddenByOffset no offset is as large as a class's deviation.
ClassesShown(n) ==
    /\ \A cls \in ClassNames \ {"DSC"} : \E w \in Windows(cls, n) : w.fixed < w.len
    /\ \A cls \in ClassNames \ HiddenByOffset : \A w \in Windows(cls, n) :
          \A o \in ImpairOffsets : o < w.dev

SoundLengths ==
    IF ConstellationsWhole /\ FamiliesPartition
    THEN {n \in {512, 1024} : WindowsFull(n) /\ SegmentsInside(n) /\ OneStepShown(n) /\ ClassesShown(n)}
    ELSE {}

=============================================================================
