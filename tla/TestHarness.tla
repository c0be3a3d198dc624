---------------------------- MODULE TestHarness ----------------------------
(***************************************************************************)
(* tools/test_harness/harness.py: load the data sets the options name,     *)
(* classify every sample, report on each batch, then on all of them, run   *)
(* the stress tests and export the table.                                  *)
(*                                                                         *)
(* The features of a sample are an input: FeaturesOf gives those of a      *)
(* clean signal of each ground truth.  Extracting them may raise (a NaN in *)
(* the samples makes np.polyfit raise), which run_batch() turns into a row *)
(* without scores.                                                         *)
(***************************************************************************)
EXTENDS MirrorMapper, IqDatasets, FeatureWindows

CONSTANTS
    Plans,         \* the options: each a sequence of [kind, ok, file]
    FeaturesOf,    \* by ground truth, the features of its signal
    SnrMin,        \* --snr-min
    MaxPerClass,   \* --max-per-class
    FftSize,       \* --fft-size
    Labels         \* the ground truths of the files

\* What the options name, in the order of main(); what a file holds that can be
\* read.  The keys of a RadioML 2016 file are those of a dict.
Jobs == UNION {{p[k] : k \in DOMAIN p} : p \in Plans}
Kinds == {"rml2016", "rml2018", "sigmf", "raw", "dir_sigmf", "dir_raw"}

Readable(job) ==
    CASE job.kind = "rml2016" ->
            /\ job.file \in Seq(Range(job.file))
            /\ \A k \in DOMAIN job.file : job.file[k].mod \in Labels /\ job.file[k].n \in Nat
            /\ \A j, k \in DOMAIN job.file :
                  job.file[j].mod = job.file[k].mod /\ job.file[j].snr = job.file[k].snr => j = k
      [] job.kind = "rml2018" ->
            /\ job.file \in Seq(Range(job.file))
            /\ \A k \in DOMAIN job.file : job.file[k].mod \in Labels
      [] OTHER -> job.file.gt \in Labels /\ job.file.len \in Nat

ASSUME PlansGiven ==
    /\ Plans \subseteq Seq(Jobs)
    /\ \A job \in Jobs : job.kind \in Kinds /\ (job.ok => Readable(job))
ASSUME FeaturesGiven ==
    /\ Labels \subseteq DOMAIN FeaturesOf
    /\ \A l \in Labels : /\ FeaturesOf[l].cf \in Nat /\ FeaturesOf[l].bw \in Nat
                          /\ FeaturesOf[l].sr \in Nat /\ FeaturesOf[l].snr \in Int
ASSUME OptionsGiven == MaxPerClass \in Nat /\ FftSize \in Nat /\ FftSize >= 4

VARIABLES
    pc,       \* load, classify, stress, export, done, exit, raised
    jobs,     \* the data sets still to load, in the order of main()
    batch,    \* the samples of the current one
    rows,     \* the rows run_batch() has for them
    samples,  \* all_samples
    dfs,      \* all_dfs
    table     \* the exported rows

vars == <<pc, jobs, batch, rows, samples, dfs, table>>

----------------------------------------------------------------------------
\* Mutant of canonical: no alias for 32QAM.
canonicalShort(label) ==
    CASE label \in {"AM-DSB", "AM-DSB-WC"} -> "AM_DSB_LC"
      [] label \in {"WBFM", "FM"}          -> "FM_WB"
      [] label = "16QAM"                   -> "QAM16"
      [] label = "GMSK"                    -> "MSK/GMSK"
      [] OTHER                             -> label

\* GT_ALIASES and MODULATION_FAMILIES
canonical(label) ==
    CASE label \in {"AM-DSB", "AM-DSB-WC"}                   -> "AM_DSB_LC"
      [] label \in {"AM-SSB", "AM-SSB-WC"}                   -> "SSB"
      [] label \in {"AM-SSB-SC", "AM-DSB-SC"}                -> "AM_DSB_SC"
      [] label \in {"WBFM", "FM"}                            -> "FM_WB"
      [] label \in {"CPFSK", "GFSK"}                         -> "FSK"
      [] label \in {"PAM4", "OOK", "4ASK", "8ASK"}           -> "M-ASK/OOK"
      [] label \in {"16PSK", "32PSK", "16APSK", "32APSK", "64APSK", "128APSK"} -> "PSK"
      [] label = "16QAM"  -> "QAM16"
      [] label = "32QAM"  -> "QAM32"
      [] label = "128QAM" -> "QAM64"
      [] label = "256QAM" -> "QAM256"
      [] label = "GMSK"   -> "MSK/GMSK"
      [] label = "OQPSK"  -> "QPSK"
      [] OTHER -> label

family(mod) ==
    CASE mod \in {"BPSK", "QPSK", "8PSK", "PSK"}             -> "PSK"
      [] mod \in {"QAM16", "QAM32", "QAM64", "QAM256"}       -> "QAM"
      [] mod \in {"MSK/GMSK", "FSK"}                         -> "FSK"
      [] mod \in {"FM_WB", "FM_NB"}                          -> "FM"
      [] mod \in {"AM_DSB_LC", "AM_DSB_SC", "SSB", "SSB_USB", "SSB_LSB"} -> "AM"
      [] mod = "M-ASK/OOK" -> "ASK"
      [] OTHER -> mod

\* What extract() leaves in the features of a sample below 256.
BlankFeatures ==
    [snr |-> 0, env |-> 0, fmDev |-> 0, bw |-> 0, rate |-> 0, am |-> 0, sym |-> 0, freqMean |-> 0,
     phase |-> 0, burst |-> FALSE, duty |-> 100, chirp |-> FALSE, ofdm |-> FALSE, fhss |-> FALSE,
     kurt |-> 0, m20Max |-> 0, c40Min |-> 0, c40 |-> 0, c42 |-> 0, sr |-> 0, cf |-> 0]

Features(s) == IF Extracts(s.len) THEN FeaturesOf[s.gt] ELSE BlankFeatures

\* What classify() and map() make of the features of a sample, and how it
\* compares with its ground truth.
ScoresOf(gt, f) ==
    LET r == MirrorClassify(f)
        detected == IF Detected(r) = "" THEN "UNCLASSIFIED" ELSE Detected(r)
        truth == canonical(gt)
    IN  [classified |-> r.classified, detected |-> detected,
         exact |-> truth = canonical(detected),
         family |-> family(truth) = family(canonical(detected)),
         hypotheses |-> IF r.classified THEN MirrorHypotheses(f, r) ELSE <<>>]

\* The same for every ground truth, of a sample that has features and one that has none.
LongScores == [gt \in Labels |-> ScoresOf(gt, FeaturesOf[gt])]
ShortScores == [gt \in Labels |-> ScoresOf(gt, BlankFeatures)]

\* classify_sample()
Row(s) ==
    LET scores == IF Extracts(s.len) THEN LongScores[s.gt] ELSE ShortScores[s.gt]
    IN  [sample |-> s, scored |-> TRUE, classified |-> scores.classified,
         detected |-> scores.detected, exact |-> scores.exact, family |-> scores.family,
         hypotheses |-> scores.hypotheses]

\* The row of run_batch() for a sample that raised.
ErrorRow(s) == [sample |-> s, scored |-> FALSE, classified |-> FALSE]

MayRaise(s) == Extracts(s.len)
MustRaise(s) == Extracts(s.len) /\ ~LineBinsExist(s.len, FftSize)

\* analyse() selects with ~classified["exact_match"].  Beside a row without
\* that key the column holds objects, not booleans, and the selection raises.
AnalyseRaises(df) ==
    /\ \E k \in DOMAIN df : df[k].classified
    /\ \E k \in DOMAIN df : ~df[k].scored

----------------------------------------------------------------------------
Init ==
    /\ pc = "load"
    /\ jobs \in Plans
    /\ batch = <<>> /\ rows = <<>> /\ samples = <<>> /\ dfs = <<>>
    /\ table = <<>>

\* SigMF files are loaded, classified and analysed within a try.
Protected(job) == job.kind \in {"sigmf", "dir_sigmf"}
Analysed(job) == job.kind \notin {"dir_sigmf", "dir_raw"}

LoadedBy(job) ==
    CASE job.kind = "rml2016" -> LoadRadioml2016(job.file, SnrMin, MaxPerClass)
      [] job.kind = "rml2018" -> LoadRadioml2018(job.file, SnrMin, MaxPerClass)
      [] OTHER                -> Segments(job.file)

\* Mutant: the data set leaves the list when it is loaded.
LoadPops ==
    /\ pc = "load" /\ jobs # <<>>
    /\ Head(jobs).ok
    /\ batch' = LoadedBy(Head(jobs))
    /\ samples' = samples \o batch'
    /\ rows' = <<>>
    /\ pc' = "classify"
    /\ jobs' = Tail(jobs)
    /\ UNCHANGED <<dfs, table>>

\* The next data set; a missing or unreadable file raises.
Load ==
    /\ pc = "load" /\ jobs # <<>>
    /\ Head(jobs).ok
    /\ batch' = LoadedBy(Head(jobs))
    /\ samples' = samples \o batch'
    /\ rows' = <<>>
    /\ pc' = "classify"
    /\ UNCHANGED <<jobs, dfs, table>>

LoadFails ==
    /\ pc = "load" /\ jobs # <<>>
    /\ ~Head(jobs).ok
    /\ IF Protected(Head(jobs)) THEN jobs' = Tail(jobs) /\ UNCHANGED pc
       ELSE pc' = "raised" /\ UNCHANGED jobs
    /\ UNCHANGED <<batch, rows, samples, dfs, table>>

\* Mutant: a sample that raises leaves no row.
ClassifyNextDropping ==
    /\ pc = "classify" /\ Len(rows) < Len(batch)
    /\ LET s == batch[Len(rows) + 1] IN
         \/ ~MustRaise(s) /\ rows' = Append(rows, Row(s)) /\ UNCHANGED batch
         \/ MayRaise(s) /\ batch' = Remove(batch, s) /\ UNCHANGED rows
    /\ UNCHANGED <<pc, jobs, samples, dfs, table>>

\* One turn of run_batch().
ClassifyNext ==
    /\ pc = "classify" /\ Len(rows) < Len(batch)
    /\ LET s == batch[Len(rows) + 1] IN
         \/ ~MustRaise(s) /\ rows' = Append(rows, Row(s))
         \/ MayRaise(s) /\ rows' = Append(rows, ErrorRow(s))
    /\ UNCHANGED <<pc, jobs, batch, samples, dfs, table>>

\* The table of the batch is kept before it is analysed.
EndBatch ==
    /\ pc = "classify" /\ Len(rows) = Len(batch)
    /\ dfs' = Append(dfs, rows)
    /\ IF Analysed(Head(jobs)) /\ AnalyseRaises(rows) /\ ~Protected(Head(jobs))
       THEN pc' = "raised" ELSE pc' = "load"
    /\ jobs' = Tail(jobs)
    /\ UNCHANGED <<batch, rows, samples, table>>

\* Nothing loaded prints the help and exits with 0.
Combine ==
    /\ pc = "load" /\ jobs = <<>>
    /\ pc' = IF dfs = <<>> THEN "exit"
             ELSE IF Len(dfs) > 1 /\ AnalyseRaises(FlattenSeq(dfs)) THEN "raised"
             ELSE "stress"
    /\ UNCHANGED <<jobs, batch, rows, samples, dfs, table>>

\* --stress-snr classifies the first 50 samples again outside of run_batch():
\* what raises there ends the program, as does the grouping of an empty table.
\* --stress-burst is protected.
Stress ==
    /\ pc = "stress"
    /\ \/ /\ samples # <<>> /\ \A k \in DOMAIN samples : ~MustRaise(samples[k])
          /\ pc' = "export"
       \/ /\ samples = <<>> \/ \E k \in DOMAIN samples : MayRaise(samples[k])
          /\ pc' = "raised"
       \/ pc' = "export"     \* without --stress-snr
    /\ UNCHANGED <<jobs, batch, rows, samples, dfs, table>>

Export ==
    /\ pc = "export"
    /\ table' = FlattenSeq(dfs)
    /\ pc' = "done"
    /\ UNCHANGED <<jobs, batch, rows, samples, dfs>>

Next ==
    \/ Load \/ LoadFails \/ ClassifyNext \/ EndBatch \/ Combine \/ Stress \/ Export

Spec == Init /\ [][Next]_vars

----------------------------------------------------------------------------
SampleOf(table_) == [k \in 1..Len(table_) |-> table_[k].sample]

\* The states of main(): a batch is only worked on while one is loaded, and its
\* rows never outrun it.
TypeOK ==
    /\ pc \in {"load", "classify", "stress", "export", "done", "exit", "raised"}
    /\ Len(rows) <= Len(batch)
    /\ pc = "classify" => jobs # <<>>
    /\ pc \in {"stress", "export", "done", "exit"} => jobs = <<>>
    /\ \A k \in DOMAIN samples : samples[k].gt \in Labels

\* Whatever raises on the way, the tables hold one row for every sample that
\* was loaded, in the order of loading, and the exported one holds them all
\* (run_batch() 179-199, main() 466-549).
RowsMatchSamples ==
    /\ pc # "classify" => SampleOf(FlattenSeq(dfs)) = samples
    /\ pc = "classify" => SampleOf(FlattenSeq(dfs) \o rows) \o SubSeq(batch, Len(rows) + 1, Len(batch))
                            = samples
    /\ pc = "done" => SampleOf(table) = samples

\* What the loaders return: nothing below --snr-min, never more of a key of
\* RadioML 2016, or of 24 classes of RadioML 2018, than --max-per-class, and no
\* two samples of a recording overlap (datasets.py 113-137, 161-187, 239-251).
LoadersSound ==
    pc = "classify" =>
        LET of(a) == {k \in DOMAIN batch : <<batch[k].gt, batch[k].snr>> = <<batch[a].gt, batch[a].snr>>}
        IN  /\ \A k \in DOMAIN batch : ~TooNoisy(batch[k].snr, SnrMin)
            /\ Head(jobs).kind = "rml2016" =>
                  \A k \in DOMAIN batch : Cardinality(of(k)) <= MaxPerClass
            /\ Head(jobs).kind = "rml2018" => Len(batch) <= 24 * MaxPerClass
            /\ \A a, b \in DOMAIN batch :
                  a < b /\ b \in of(a) => batch[a].from + batch[a].len <= batch[b].from

\* A row counts as classified only for a sample long enough to have features,
\* above the SNR gate and not decided by the structural tests; only such a row
\* has hypotheses. So the 128-sample examples of RadioML 2016 never score, and
\* neither do OFDM, CSS and FHSS (features.py:122, classifier.py 86-109).
OnlyGatedRowsScore ==
    \A d \in DOMAIN dfs : \A k \in DOMAIN dfs[d] :
        LET row == dfs[d][k]
        IN  row.classified =>
               /\ row.sample.len >= 256
               /\ Features(row.sample).snr >= 5
               /\ row.detected \notin {"OFDM", "CSS", "FHSS", "UNCLASSIFIED"}

\* The families a detection can be in.
Families == {"PSK", "QAM", "FSK", "FM", "AM", "OFDM", "CSS", "ASK", "FHSS"}

\* Every label of the two RadioML sets is brought into a family the classifier
\* can report, so that a sample can match at all; 64QAM of RadioML 2018 has no
\* alias and cannot (harness.py 54-100).
LabelsScorable ==
    \A d \in DOMAIN dfs : \A k \in DOMAIN dfs[d] :
        dfs[d][k].sample.gt \in (RADIOML_2016_MODS \union RADIOML_2018_MODS) \ {"64QAM"} =>
            family(canonical(dfs[d][k].sample.gt)) \in Families

\* From the same scores the mirror selects as the application does: its three
\* hypotheses are among the choices ProtocolMapper::map() could make of the
\* mirror's scores, with its own threshold and a sort that leaves ties open; the
\* mirror keeps ties in the order of its database (classifier.py 284-304;
\* ProtocolMapper.cpp 445-462).  The scores of the two and their databases are
\* not compared: these differ.
HypothesesRanked ==
    \A d \in DOMAIN dfs : \A k \in DOMAIN dfs[d] :
        dfs[d][k].classified =>
            LET row == dfs[d][k]
                f == Features(row.sample)
                r == MirrorClassify(f)
                score(j) == MirrorScore(MirrorDb[j], f, r)
                names == {<<score(j), MirrorDb[j].name>> : j \in DOMAIN MirrorDb}
                h == row.hypotheses
            IN  /\ [j \in DOMAIN h |-> MirrorDb[h[j]].name]
                     \in Cpp!TopThree({p \in names : p[1] > Cpp!MinScore})
                /\ \A j \in 1..(Len(h) - 1) : score(h[j]) = score(h[j + 1]) => h[j] < h[j + 1]

\* The lengths of all samples with features.
SlicesSoundFor == [n \in {1024, SegmentLen} |-> SlicesSound(n, FftSize)]

\* Every slice the feature extractor takes lies inside the sample.
SlicesInside ==
    \A k \in DOMAIN samples : Extracts(samples[k].len) => SlicesSoundFor[samples[k].len]

\* What the loaders and the feature extractor cut out of the files, and what the
\* tables keep of it: nothing noisy, nothing twice, nothing past the end of a
\* sample, and a row for each, whatever raises.
SamplesSound == TypeOK /\ RowsMatchSamples /\ LoadersSound /\ SlicesInside

\* What a score rests on: a sample that could be classified, a label that can
\* match, and three hypotheses that no other signature outscores.
ScoresSound == OnlyGatedRowsScore /\ LabelsScorable /\ HypothesesRanked

=============================================================================
