-------------------------- MODULE FeatureWindows --------------------------
(***************************************************************************)
(* The slices FeatureExtractor of tools/test_harness/features.py takes of  *)
(* n samples, and which features it can set with them.  A slice is         *)
(* <<from, to>>, `to` excluded.                                            *)
(***************************************************************************)
EXTENDS Integers, FiniteSets

AtMost(a, b) == IF a < b THEN a ELSE b
AtLeast(a, b) == IF a < b THEN b ELSE a

\* extract() returns the blank features below this length.
MinSamples == 256
Extracts(n) == n >= MinSamples

\* Windows of one length behind one another, from the start.
Tiles(count, len) == {<<k * len, (k + 1) * len>> : k \in 0..(count - 1)}

\* Welch's segments, and the two halves of the PSD compared for symmetry:
\* the bin before the middle is left out on neither side, DC on both.
Nperseg(n, fftSize) == AtMost(fftSize, n \div 4)
PsdLeft(bins) == <<1, bins \div 2>>
PsdRight(bins) == <<bins \div 2 + 1, bins>>

\* The 256-sample windows of c40_min and m20_max.
CumulantWindows(n) == Tiles(n \div 256, 256)

\* _estimate_symbol_rate(): the bins of the spectral lines, in the first half
\* of at most 65536; np.argmax raises on none.
LineBins(n, fftSize) == <<AtLeast(1, fftSize \div 100), AtMost(n, 65536) \div 2>>
LineBinsExist(n, fftSize) == LineBins(n, fftSize)[1] < LineBins(n, fftSize)[2]

\* _detect_ofdm(): for each FFT size and prefix the prefixes and tails of the
\* symbols.
OfdmCandidates ==
    {<<nfft, nfft \div cp>> : nfft \in {64, 128, 256, 512, 1024, 2048}, cp \in {4, 8, 16, 32}}
OfdmSymbols(n, cand) ==
    LET len == AtMost(n, 32768)
        count == len \div (cand[1] + cand[2])
    IN  IF count < 2 THEN {} ELSE {k * (cand[1] + cand[2]) : k \in 0..(count - 1)}
CyclicPrefix(start, cand) == <<start, start + cand[2]>>

\* Mutant: the tail starts with the last sample of the symbol.
SymbolTailLate(start, cand) == <<start + cand[1] + 1, start + cand[1] + cand[2] + 1>>

\* tail_start = data_start + nfft - ncp
SymbolTail(start, cand) ==
    LET dataStart == start + cand[2]
    IN  <<dataStart + cand[1] - cand[2], dataStart + cand[1]>>

\* _detect_fhss(): 32 segments, of at least 64 samples.
FhssSegments(n) == IF n \div 32 < 64 THEN {} ELSE Tiles(32, n \div 32)

\* _detect_chirp(): the first 2048 samples.
ChirpWindow(n) == <<0, AtMost(n, 2048)>>

\* _detect_burst(): 100 power windows.
BurstWindows(n) == Tiles(100, AtLeast(1, n \div 100))

----------------------------------------------------------------------------
\* Every slice holds samples and lies inside the capture, a prefix is compared
\* with a tail of its length that ends where the next symbol starts, and both
\* halves of the PSD have bins.
Inside(slice, n) == 0 <= slice[1] /\ slice[1] < slice[2] /\ slice[2] <= n

SlicesSound(n, fftSize) ==
    LET bins == Nperseg(n, fftSize)
    IN  /\ Inside(PsdLeft(bins), bins) /\ Inside(PsdRight(bins), bins)
        /\ CumulantWindows(n) # {}
        /\ \A w \in CumulantWindows(n) \union FhssSegments(n) \union BurstWindows(n)
                    \union {ChirpWindow(n)} : Inside(w, n)
        /\ \A cand \in OfdmCandidates : \A start \in OfdmSymbols(n, cand) :
              LET p == CyclicPrefix(start, cand)
                  t == SymbolTail(start, cand)
              IN  /\ Inside(p, n) /\ Inside(t, n)
                  /\ t[2] - t[1] = p[2] - p[1]
                  /\ t[2] = start + cand[1] + cand[2]
=============================================================================
