--------------------------- MODULE MCDatasetFiles ---------------------------
\* Six classes: one of each script's, the DSC preamble and RTTY's single step.
EXTENDS DatasetFiles

MCClassOrder == <<"AM_DSB_SC", "DSC", "DSTAR", "FLEX", "QAM64", "RTTY">>
MCSnrs == <<-10, 30>>

\* The two files of real_v11_*.npz and the earlier captures; FM_WB is captured
\* twice, in two files that order their classes differently.
MCCaptured == [real_fresh     |-> <<"FM_WB", "AM_DSB">>,
               real_missing7  |-> <<"AIS", "FM_WB">>,
               real_v11_acars |-> <<"ACARS">>,
               real_v11_p25   |-> <<"P25_C4FM", "AM_DSB">>]
=============================================================================
