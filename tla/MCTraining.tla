----------------------------- MODULE MCTraining -----------------------------
EXTENDS Training

\* A file of the given classes with one row for each element of ys; its true
\* classes are the ones the labels name.
Rows(names, ys, len) ==
    [classes |-> names, len |-> len,
     rows |-> [k \in 1..Len(ys) |-> [y |-> ys[k], snr |-> 10, of |-> k]],
     truth |-> [k \in 1..Len(ys) |-> names[ys[k] + 1]]]

\* save_synthetic_npz() of generated samples.
Generated == GenerateSynthetic(SetToSeq({"BPSK", "OFDM", "FSK"}), <<0, 10>>, 1, 1024)
GeneratedFile ==
    LET saved == SaveSynthetic(Generated, <<"BPSK", "FSK", "OFDM">>)
    IN  [classes |-> saved.classes, len |-> saved.len, rows |-> saved.rows,
         truth |-> [k \in 1..Len(Generated) |-> Generated[k].gt]]

MCNpzFiles == [
    synth   |-> GeneratedFile,
    real    |-> Rows(<<"OFDM", "FSK">>, <<0, 1, 1, 1>>, 1024),
    \* NEW is no class of the family map
    am      |-> Rows(<<"AM_DSB", "AM_DSB_SC", "FM_NB", "NEW">>, <<0, 0, 1, 1, 2, 2, 2, 3>>, 1024),
    short   |-> Rows(<<"AM_DSB", "FM_NB">>, <<0, 1>>, 512),
    holdout |-> Rows(<<"FSK", "BPSK", "AM_DSB", "OFDM", "AM_DSB_SC", "NEW">>, <<0, 1, 2, 3, 4, 5>>, 1024)]

MCRadioFiles == [
    rml18 |-> [version |-> "2018",
               rows |-> [k \in 1..8 |-> [mod |-> IF k % 2 = 0 THEN "BPSK" ELSE "GMSK", snr |-> 2 * k - 4]]],
    rml16 |-> [version |-> "2016", rows |-> <<[mod |-> "BPSK", snr |-> 6, n |-> 3]>>]]

MCSynthSnrs == <<10>>

Plain == [data |-> NoFile, npz |-> <<>>, hf |-> FALSE, synthetic |-> 0, len |-> 1024, family |-> "",
          router |-> FALSE, cap |-> 2, real |-> {}, model |-> "resnet", val |-> NoFile,
          resume |-> NoFile, out |-> "m1"]

\* A training and two fine-tunings of its own checkpoint against the holdout.
Flat == [Plain EXCEPT !.npz = <<"synth", "real">>, !.val = "holdout", !.real = {"real"}]
Tune == [Flat EXCEPT !.resume = "m1"]
\* The same classes in another network, from the first one's checkpoint.
Wide == [Flat EXCEPT !.model = "fusion", !.resume = "m1", !.out = "m2"]
\* run_hierarchical_pipeline.sh: the router, then each family.
Router == [Plain EXCEPT !.npz = <<"synth", "am">>, !.router = TRUE, !.val = "holdout", !.out = "m2"]
Family(f) == [Plain EXCEPT !.npz = <<"am">>, !.family = f, !.cap = 3]

MCScripts == {
    <<Flat, Tune>>, <<Tune>>, <<Flat, Wide>>,
    <<Router, Family("AM"), Family("DIGI_VOICE"), Family("FM")>>,
    <<[Plain EXCEPT !.data = "rml18"]>>, <<[Plain EXCEPT !.data = "rml16", !.npz = <<"am">>, !.real = {"am"}]>>,
    <<[Plain EXCEPT !.synthetic = 1, !.val = "holdout"]>>, <<[Plain EXCEPT !.synthetic = 1, !.len = 100, !.family = "AM"]>>,
    <<[Plain EXCEPT !.npz = <<"am", "short">>]>>, <<[Plain EXCEPT !.hf = TRUE]>>, <<Plain>>,
    <<[Family("FM") EXCEPT !.router = TRUE]>>, <<Family("QAM")>> }

FusionScripts == { <<[Flat EXCEPT !.model = "fusion"]>> }

\* Accuracies of one to three classes, and for more classes even ones and one
\* with a weak class.
MCTrained ==
    {<<0>>, <<2>>, <<0, 2>>, <<1, 1>>, <<0, 0, 0>>, <<2, 2, 0>>, <<1, 1, 1>>, <<2, 1, 1>>}
    \union UNION {{[c \in 1..n |-> 1], [c \in 1..n |-> IF c = n THEN 0 ELSE 2]} : n \in 4..24}
=============================================================================
