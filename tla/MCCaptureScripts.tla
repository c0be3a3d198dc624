-------------------------- MODULE MCCaptureScripts --------------------------
\* The scripts' own tables in short: two targets of one class, the noise
\* channel of capture_real.py, and one noise channel more than is needed.
EXTENDS CaptureScripts

MCTargetsOf == [real  |-> <<[label |-> "FM_WB", max |-> 1], [label |-> "AM_DSB", max |-> 3],
                            [label |-> "FM_WB", max |-> 2], [label |-> "_NOISE", max |-> 0]>>,
                noise |-> <<[label |-> "_NOISE", max |-> 0], [label |-> "_NOISE", max |-> 0],
                            [label |-> "_NOISE", max |-> 0]>>,
                rtl   |-> <<[label |-> "FM_WB", max |-> 1], [label |-> "AM_DSB", max |-> 3],
                            [label |-> "FM_WB", max |-> 2], [label |-> "FM_WB", max |-> 2]>>]
MCLabelOrder == <<"AM_DSB", "FM_WB", "_NOISE">>

\* No window, one window of capture_rtl.py only, two windows, three windows.
MCLengths == {300, 1024, 1281, 1537}
=============================================================================
