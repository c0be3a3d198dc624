--------------------------- MODULE MCTestHarness ---------------------------
EXTENDS TestHarness

\* Features of clean signals at 1 MS/s, without a centre frequency, as RadioML
\* has none.
Clean(c40, c42, env) ==
    [BlankFeatures EXCEPT !.snr = 20, !.bw = 100000, !.rate = 1000000, !.sym = 90, !.am = 40,
                          !.kurt = 1200, !.c40 = c40, !.c42 = c42, !.c40Min = c40, !.env = env,
                          !.sr = 500000]

\* TLC's configuration files take no negative number.
MCSnrMin == -6

MCLabels == {"QPSK", "16QAM", "64QAM", "32QAM", "AM-DSB-WC", "GMSK", "OFDM", "WBFM", "AIS"}
MCFeaturesOf ==
    [l \in MCLabels |->
        CASE l = "QPSK"      -> Clean(-100, -100, 2)
          [] l = "16QAM"     -> Clean(-68, -68, 11)
          [] l = "64QAM"     -> Clean(-62, -62, 11)
          [] l = "32QAM"     -> Clean(-50, -50, 10)
          [] l = "AM-DSB-WC" -> Clean(-10, -10, 15)
          [] l = "GMSK"      -> [Clean(0, -100, 2) EXCEPT !.kurt = -100, !.fmDev = 31250]
          [] l = "WBFM"      -> [Clean(0, -100, 2) EXCEPT !.kurt = 0, !.fmDev = 60000, !.sr = 0]
          [] l = "OFDM"      -> [Clean(0, -50, 40) EXCEPT !.ofdm = TRUE]
          [] l = "AIS"       -> [Clean(0, -100, 2) EXCEPT !.kurt = -100, !.fmDev = 2400, !.cf = 16200,
                                     !.sr = 38400, !.bw = 25000, !.burst = TRUE]]

Job(kind, ok, file) == [kind |-> kind, ok |-> ok, file |-> file]
Recording(gt, segments) == [gt |-> gt, len |-> segments * SegmentLen + 5000]

\* Keys above and below the SNR, more examples than the cap; rows likewise.
Rml2016 == Job("rml2016", TRUE, <<[mod |-> "QPSK", snr |-> -20, n |-> 2], [mod |-> "QPSK", snr |-> 6, n |-> 3],
                                  [mod |-> "WBFM", snr |-> 6, n |-> 1]>>)
Rml2018 == Job("rml2018", TRUE,
    [k \in 1..6 |-> [mod |-> <<"16QAM", "64QAM", "32QAM", "AM-DSB-WC", "GMSK", "QPSK">>[k],
                     snr |-> IF k = 3 THEN -10 ELSE 20]])

MCPlans == {
    <<>>,
    <<Job("sigmf", TRUE, Recording("AIS", 0))>>,
    <<Rml2016, Rml2018>>,
    <<Rml2018, Job("sigmf", FALSE, Recording("OFDM", 1)), Job("sigmf", TRUE, Recording("OFDM", 2))>>,
    <<Rml2016, Job("sigmf", TRUE, Recording("WBFM", 3)), Job("raw", TRUE, Recording("AIS", 2))>>,
    <<Job("dir_sigmf", TRUE, Recording("OFDM", 1)), Job("dir_sigmf", FALSE, Recording("AIS", 1)),
      Job("dir_raw", TRUE, Recording("AIS", 1)), Job("dir_raw", FALSE, Recording("AIS", 1))>>,
    <<Job("rml2018", FALSE, <<>>)>>,
    <<Job("sigmf", TRUE, Recording("GMSK", 0)), Job("raw", TRUE, Recording("32QAM", 1))>> }
=============================================================================
