---------------------------- MODULE DatasetFiles ----------------------------
(***************************************************************************)
(* The .npz training files of tools/ml and the scripts that build them out *)
(* of one another: generated sets, sets in which the rows of a class are   *)
(* replaced after its generator was fixed, and merges of real captures.    *)
(*                                                                         *)
(* A row is the class and SNR its samples were made at, the label `y` and  *)
(* SNR `s` stored beside them, whether the generator of this commit made   *)
(* it, and an identity: what the random stream it was drawn from depends   *)
(* on, or the capture it was cut from.  np.savez_compressed() writes the   *)
(* file in place, so a script that dies while saving leaves a torn file,   *)
(* which no later np.load() can read.  Scripts are started by hand, in any *)
(* order and any number of times, one at a time.                           *)
(*                                                                         *)
(* The scripts fall into groups that share no file; a behaviour runs the   *)
(* scripts of one group.                                                   *)
(***************************************************************************)
EXTENDS SyntheticGenerators, PickedLists

CONSTANTS
    ClassOrder,   \* the classes of this instance in CLASS_NAMES order
    Snrs,         \* np.arange(snr_min, snr_max + snr_step / 2, snr_step)
    TrainPerSnr,  \* n_per_snr of the training files (5000)
    HoldPerSnr,   \* n_per_snr of the holdout files (34)
    Captured,     \* [capture file |-> its classes, window by window]
    MaxRows,      \* bound of the model on the rows of a merged file
    MaxTorn       \* bound of the model on the files torn at one time

RealFiles == {"real_fresh", "real_ils", "real_missing7", "real_v11_acars", "real_v11_p25"}

\* CLASS_NAMES and the range of SNRs repeat nothing.
ASSUME ClassesAssumption ==
    /\ ClassOrder \in Seq(ClassNames) /\ \A j, k \in DOMAIN ClassOrder : ClassOrder[j] = ClassOrder[k] => j = k
    /\ Snrs \in Seq(Int) /\ \A j, k \in DOMAIN Snrs : Snrs[j] = Snrs[k] => j = k
ASSUME PerSnrAssumption == TrainPerSnr \in Nat \ {0} /\ HoldPerSnr \in Nat \ {0}
ASSUME CapturedAssumption ==
    /\ DOMAIN Captured \subseteq RealFiles
    /\ \A f \in DOMAIN Captured : Captured[f] \in Seq(Range(Captured[f]))

VARIABLES
    group,  \* the scripts this behaviour runs
    npz     \* file name -> what np.load() would find
dataVars == <<group, npz>>

TrainingFiles == {"synth_v6", "synth_v9", "synth_v10", "synth_v12", "synth_v13"}
HoldoutFiles == {"v6_holdout", "v6_holdout_v2", "v7_holdout"}
GeneratedFiles == {"hardboost", "qam_heavy", "extended", "ils", "augmented"}
MergedFiles == {"real_combined", "real_combined_v2"}
Files == TrainingFiles \cup HoldoutFiles \cup GeneratedFiles \cup RealFiles \cup MergedFiles

Whole(len, classes, rows) == [state |-> "whole", len |-> len, classes |-> classes, rows |-> rows]
Absent == [state |-> "absent", len |-> 0, classes |-> <<>>, rows |-> <<>>]
CutShort == [Absent EXCEPT !.state = "torn"]

Readable(f) == npz[f].state = "whole"
HasClasses(f, wanted) == wanted \subseteq Range(npz[f].classes)

\* np.savez_compressed(path, ...): all of it, or a file cut short.
Save(f, data) ==
    \/ npz' = [npz EXCEPT ![f] = data]
    \/ /\ Cardinality({g \in Files : npz[g].state = "torn"}) < MaxTorn
       /\ npz' = [npz EXCEPT ![f] = CutShort]

\* classes.index(c), zero-based
ClassId(classes, c) == (CHOOSE i \in DOMAIN classes : classes[i] = c) - 1

----------------------------------------------------------------------------
\* generate_v3.generate(): class, then SNR, then n_per_snr; the labels index
\* the classes that were asked for, in CLASS_NAMES order.
LEN == 1024

Generated(seed, wanted, snrs, perSnr, fresh) ==
    LET classes == Picked(ClassOrder, {k \in DOMAIN ClassOrder : ClassOrder[k] \in wanted})
        block   == Len(snrs) * perSnr
    IN  Whole(LEN, classes,
              [i \in 1..(Len(classes) * block) |->
                 LET c == (i - 1) \div block + 1
                     k == (((i - 1) \div perSnr) % Len(snrs)) + 1
                 IN  [cls |-> classes[c], y |-> c - 1, snr |-> snrs[k], s |-> snrs[k],
                      fresh |-> fresh, id |-> <<seed, Range(classes), i>>]])

Asked(scriptClasses) == scriptClasses \cap Range(ClassOrder)

\* Mutant: the labels stay those of the file the rows come from.
RelabelledNot(data, classes) == data.rows

\* local_to_global: the labels of the generated rows, in the file's classes.
Relabelled(data, classes) ==
    [i \in DOMAIN data.rows |->
        [data.rows[i] EXCEPT !.y = ClassId(classes, data.classes[data.rows[i].y + 1])]]

\* Mutant: the old rows stay.
PatchedAdds(src, wanted, new) == Whole(src.len, src.classes, src.rows \o Relabelled(new, src.classes))

\* keep = y not in ids; np.concatenate([kept, new]).  The permutation that
\* follows is left out: nothing reads the order of a patched file.
Patched(src, wanted, new) ==
    Whole(src.len, src.classes,
          Picked(src.rows, {k \in DOMAIN src.rows :
                               src.rows[k].y \notin {ClassId(src.classes, c) : c \in wanted}})
            \o Relabelled(new, src.classes))

----------------------------------------------------------------------------
\* The rows of data whose classes are among those given.
Known(data, classes) ==
    [data EXCEPT !.rows = Picked(@, {k \in DOMAIN @ : @[k].cls \in Range(classes)})]

\* regen_fixed_classes.py
FixedClasses == Asked({"4FSK", "8FSK", "GFSK", "RTTY", "NAVTEX"})
TrainSeed == 2224
HoldSeed == 9997

RegenFixedTraining ==
    /\ Readable("synth_v9") /\ HasClasses("synth_v9", FixedClasses)
    /\ Save("synth_v10", Patched(npz["synth_v9"], FixedClasses,
                                 Generated(TrainSeed, FixedClasses, Snrs, TrainPerSnr, TRUE)))

\* PART 2 runs after PART 1 in the same process, and makes every class the old
\* holdout knows anew.
RegenFixedHoldout ==
    /\ Readable("synth_v10") /\ Readable("v6_holdout")
    /\ LET hold == npz["v6_holdout"].classes
           new  == Generated(HoldSeed, Range(ClassOrder), Snrs, HoldPerSnr, TRUE)
       IN  Save("v6_holdout_v2", Whole(LEN, hold, Relabelled(Known(new, hold), hold)))

\* regen_dstar.py: patch_npz(src, out, n_per_snr, seed), for the training file
\* and then for the holdout.
DstarTrainSeed == 3311
DstarHoldSeed == 3312

PatchNpz(src, out, perSnr, seed) ==
    /\ Readable(src) /\ HasClasses(src, {"DSTAR"})
    /\ Save(out, Patched(npz[src], {"DSTAR"}, Generated(seed, {"DSTAR"}, Snrs, perSnr, TRUE)))

\* Mutant: the file before last is patched.
RegenDstarTrainingStale == PatchNpz("synth_v9", "synth_v12", TrainPerSnr, DstarTrainSeed)

RegenDstarTraining == PatchNpz("synth_v10", "synth_v12", TrainPerSnr, DstarTrainSeed)
\* Mutant: the seed of the training file.
RegenDstarHoldoutSameSeed ==
    /\ Readable("synth_v12")
    /\ PatchNpz("v6_holdout_v2", "v7_holdout", HoldPerSnr, DstarTrainSeed)

RegenDstarHoldout ==
    /\ Readable("synth_v12")
    /\ PatchNpz("v6_holdout_v2", "v7_holdout", HoldPerSnr, DstarHoldSeed)

\* regen_flex_qam.py: one class after the other, a seed for each.
FlexQamClasses == <<"FLEX", "QAM64", "QAM256", "16PSK", "32PSK">>
FlexQamSeed(i) == 4401 + (i - 1) * 100

RegenFlexQam ==
    LET Patch(data, i) ==
            IF FlexQamClasses[i] \in Range(ClassOrder)
            THEN Patched(data, {FlexQamClasses[i]},
                         Generated(FlexQamSeed(i), {FlexQamClasses[i]}, Snrs, TrainPerSnr, TRUE))
            ELSE data
    IN  /\ Readable("synth_v12")
        /\ HasClasses("synth_v12", Asked(Range(FlexQamClasses)))
        /\ Save("synth_v13", Patch(Patch(Patch(Patch(Patch(npz["synth_v12"], 1), 2), 3), 4), 5))

\* regen_am_dsb_sc.py: the rows of one class replaced where they stand, in the
\* very file that is read, for one file after the other.
JOBS ==
    <<[path |-> "v6_holdout", perSnr |-> HoldPerSnr, seed |-> 3333],
      [path |-> "synth_v6", perSnr |-> TrainPerSnr, seed |-> 1111],
      [path |-> "synth_v9", perSnr |-> TrainPerSnr, seed |-> 2222]>>

\* Mutant: the new rows are put behind the others.
SplicedBehind(src, new) == Patched(src, {"AM_DSB_SC"}, new)

\* idx = np.where(mask); d["X"][idx] = X_new; d["snrs"][idx] = s_new
Spliced(src, new) ==
    LET id      == ClassId(src.classes, "AM_DSB_SC")
        Rank(i) == Cardinality({j \in 1..i : src.rows[j].y = id})
    IN  [src EXCEPT !.rows =
            [i \in DOMAIN src.rows |->
                IF src.rows[i].y = id THEN [new.rows[Rank(i)] EXCEPT !.y = id]
                ELSE src.rows[i]]]

NewRows(job) == Generated(job.seed, {"AM_DSB_SC"}, Snrs, job.perSnr, TRUE)

\* The numbers of old and new rows must agree.
Spliceable(job) ==
    /\ Readable(job.path) /\ HasClasses(job.path, {"AM_DSB_SC"})
    /\ LET old == npz[job.path] IN
         Len(NewRows(job).rows) = Cardinality({i \in DOMAIN old.rows :
                                                  old.rows[i].y = ClassId(old.classes, "AM_DSB_SC")})

\* A job that fails or is killed ends the ones behind it, so the k-th finds the
\* files before it spliced; splicing one again changes nothing.
RegenAmDsbSc(k) ==
    /\ \A j \in 1..(k - 1) :
          Spliceable(JOBS[j]) /\ npz[JOBS[j].path] = Spliced(npz[JOBS[j].path], NewRows(JOBS[j]))
    /\ Spliceable(JOBS[k])
    /\ Save(JOBS[k].path, Spliced(npz[JOBS[k].path], NewRows(JOBS[k])))

----------------------------------------------------------------------------
\* gen_v11_hardclass_boost.py: the rows of two passes under the labels of the
\* first.
HardClasses ==
    Asked({"QAM64", "QAM32", "16PSK", "RTTY", "FM_WB", "TONE", "ACARS", "EAS_SAME",
           "DTMF", "P25_C4FM", "AM_DSB"})

LoudSnrs == Picked(Snrs, {k \in DOMAIN Snrs : Snrs[k] >= 15})

Joined(pass1, pass2) == Whole(LEN, pass1.classes, pass1.rows \o pass2.rows)

HardBoost ==
    LET pass1 == Generated(4444, HardClasses, Snrs, TrainPerSnr, TRUE)
        pass2 == Generated(5555, HardClasses, LoudSnrs, TrainPerSnr, TRUE)
    IN  Save("hardboost", Joined(pass1, pass2))

\* generate_qam.py, at --len 1024
QamHeavy ==
    Save("qam_heavy", Generated(1234, Asked(FamilyMembers.QAM), Snrs, TrainPerSnr, TRUE))

\* Mutant: the label of the class in the full list.
GenerateIlsGlobalLabel ==
    Save("ils", Whole(512, <<"AM_DSB">>,
        [i \in DOMAIN Snrs |-> [cls |-> "AM_DSB", y |-> 5, snr |-> Snrs[i], s |-> Snrs[i],
                                fresh |-> TRUE, id |-> <<42, {"ILS"}, i>>]]))

\* generate_ils.py: a single class; its rows are labelled 0.
GenerateIls ==
    Save("ils", Whole(512, <<"AM_DSB">>,
        [i \in DOMAIN Snrs |-> [cls |-> "AM_DSB", y |-> 0, snr |-> Snrs[i], s |-> Snrs[i],
                                fresh |-> TRUE, id |-> <<42, {"ILS"}, i>>]]))

\* The impairment profiles' SNRs; the jitter of 3 dB is left out.
ProfileSnrs == {15, 40}

\* augment.py and apply_impairments(): impaired copies follow the input, under
\* its labels; the SNR stored with a copy is that of the profile.
WithCopies(src, copies, snr) ==
    LET copy == [i \in DOMAIN src.rows |-> [src.rows[i] EXCEPT !.s = snr]]
    IN  [src EXCEPT !.rows = FlattenSeq(<<@>> \o [k \in 1..copies |-> copy])]

Augment(snr) ==
    /\ Readable("ils")
    /\ Save("augmented", WithCopies(npz["ils"], 1, snr))

\* generate_extended.py, --impair-copies 0 to 2
Extended(copies, snr) ==
    LET base == Generated(42, Asked(ExtendedClasses), Snrs, TrainPerSnr, TRUE)
    IN  Save("extended", WithCopies([base EXCEPT !.len = 512], copies, snr))

----------------------------------------------------------------------------
\* prep_real_v8.py

\* The names of a list in the order of their first places.
Named(list) == Picked(list, {k \in DOMAIN list : \A j \in 1..(k - 1) : list[j] # list[k]})

\* _merge_file() for one source after the other: labels are remapped by name,
\* new names are appended; the windows are resampled to one length.
Merged(len, sources) ==
    LET classes == Named(FlattenSeq([k \in DOMAIN sources |-> sources[k].classes]))
    IN  Whole(len, classes, FlattenSeq([k \in DOMAIN sources |-> Relabelled(sources[k], classes)]))

\* sorted(glob("data/real_v11_*.npz"))
V11Captures == <<"real_v11_acars", "real_v11_p25">>

\* Mutant: the glob adds what was named already.
AllSourcesTwice(extra) == <<"real_fresh", "real_ils">> \o extra \o V11Captures

\* SOURCES, the files --extra names, then what the glob finds beyond them.
AllSources(extra) ==
    LET asked == <<"real_fresh", "real_ils">> \o extra
    IN  asked \o Picked(V11Captures, {k \in DOMAIN V11Captures : V11Captures[k] \notin Range(asked)})

\* The files of a list of names that can be read.
Found(names) ==
    LET found == Picked(names, {k \in DOMAIN names : Readable(names[k])})
    IN  [k \in DOMAIN found |-> npz[found[k]]]

NoneTorn(names) == \A f \in Range(names) : npz[f].state # "torn"

\* A missing file is skipped; any other failure to read ends the script, and
\* so does having nothing to concatenate.
PrepReal(extra) ==
    LET found == Found(AllSources(extra))
    IN  /\ NoneTorn(AllSources(extra)) /\ found # <<>>
        /\ Save("real_combined", Merged(LEN, found))

\* post_capture_merge.sh: the capture of the missing classes is added to the
\* combined file, which is overwritten; the window lengths must agree.
PostCaptureMerge ==
    LET old == npz["real_combined"]
        new == npz["real_missing7"]
    IN  /\ Readable("real_combined") /\ Readable("real_missing7")
        /\ old.len = new.len /\ Len(old.rows) + Len(new.rows) <= MaxRows
        /\ Save("real_combined", Merged(old.len, <<old, new>>))

\* merge_real_data.sh: the combined file, then every real_*.npz; files of
\* another window length are skipped, classes the first file does not know are
\* dropped.
MergeSources == <<"real_combined", "real_fresh", "real_ils", "real_missing7">> \o V11Captures

MergeRealData ==
    LET present == Found(MergeSources)
        found   == Picked(present, {k \in DOMAIN present : present[k].len = LEN})
        classes == found[1].classes
    IN  /\ NoneTorn(MergeSources) /\ found # <<>>
        /\ Save("real_combined_v2",
                Whole(LEN, classes, FlattenSeq([k \in DOMAIN found |->
                                                   Relabelled(Known(found[k], classes), classes)])))

\* A capture script finished: its windows are saved, labels in the order in
\* which the classes were first captured.
CaptureDone(f) ==
    LET windows == Captured[f]
        classes == Named(windows)
    IN  /\ ~Readable(f)
        /\ Save(f, Whole(LEN, classes, [i \in DOMAIN windows |->
                [cls |-> windows[i], y |-> ClassId(classes, windows[i]), snr |-> 10, s |-> 10,
                 fresh |-> TRUE, id |-> <<0, {f}, i>>]]))

----------------------------------------------------------------------------
\* An earlier generate_v3 made the files the regeneration starts from, the first
\* two for run_v6_train.sh.
OldFile(seed, perSnr) == Generated(seed, Range(ClassOrder), Snrs, perSnr, FALSE)

OldFiles ==
    [f \in Files |-> CASE f = "v6_holdout" -> OldFile(3333, HoldPerSnr)
                       [] f = "synth_v6"   -> OldFile(1111, TrainPerSnr)
                       [] f = "synth_v9"   -> OldFile(2222, TrainPerSnr)
                       [] OTHER            -> Absent]

DataInit ==
    /\ group \in {"regen", "generate", "capture"}
    /\ npz = [f \in Files |-> IF group = "regen" THEN OldFiles[f] ELSE Absent]

RegenScripts ==
    \/ RegenFixedTraining \/ RegenFixedHoldout
    \/ RegenDstarTraining \/ RegenDstarHoldout
    \/ RegenFlexQam
    \/ \E k \in DOMAIN JOBS : RegenAmDsbSc(k)

GeneratorScripts ==
    \/ HardBoost \/ QamHeavy \/ GenerateIls
    \/ \E snr \in ProfileSnrs : Augment(snr) \/ \E copies \in 0..2 : Extended(copies, snr)

MergeScripts ==
    \/ \E extra \in {<<>>, <<"real_v11_p25">>} : PrepReal(extra)
    \/ PostCaptureMerge
    \/ MergeRealData
    \/ \E f \in DOMAIN Captured : CaptureDone(f)

DataNext ==
    /\ \/ group = "regen" /\ RegenScripts
       \/ group = "generate" /\ GeneratorScripts
       \/ group = "capture" /\ MergeScripts
    /\ UNCHANGED group

DataSpec == DataInit /\ [][DataNext]_dataVars

----------------------------------------------------------------------------
\* np.load() finds arrays of one length whose labels index the classes.
DataTypeOK ==
    \A f \in Files :
        /\ npz[f].state \in {"absent", "torn", "whole"}
        /\ npz[f].rows # <<>> => Readable(f)
        /\ \A r \in Range(npz[f].rows) : r.y + 1 \in DOMAIN npz[f].classes

\* However the files were built out of one another, the label beside a row
\* names the class its samples were made for, and unless the row was impaired
\* afterwards, the SNR beside it is the SNR they were made at.
LabelsSound ==
    \A f \in Files : \A r \in Range(npz[f].rows) :
        /\ npz[f].classes[r.y + 1] = r.cls
        /\ f \notin {"augmented", "extended"} => r.s = r.snr

\* A training file holds no row of a class made before its generator was
\* fixed, if the file is one of those made to replace them.
PatchedClassesAreNew ==
    LET fixed(f) == CASE f = "synth_v10" -> FixedClasses
                      [] f = "synth_v12" -> FixedClasses \cup {"DSTAR"}
                      [] f = "synth_v13" -> FixedClasses \cup {"DSTAR"} \cup Asked(Range(FlexQamClasses))
                      [] OTHER -> {}
    IN  \A f \in TrainingFiles : \A r \in Range(npz[f].rows) : r.cls \in fixed(f) => r.fresh

\* Patching keeps the density: n_per_snr rows of every class at every SNR, no
\* two of them the same.
Balanced ==
    \A f \in TrainingFiles \cup HoldoutFiles : Readable(f) =>
        LET rows == npz[f].rows
            perSnr == IF f \in TrainingFiles THEN TrainPerSnr ELSE HoldPerSnr
        IN  /\ Len(rows) = Len(ClassOrder) * Len(Snrs) * perSnr
            /\ \A c \in Range(ClassOrder) : \A snr \in Range(Snrs) :
                  Cardinality({r.id : r \in {q \in Range(rows) : q.cls = c /\ q.snr = snr}}) = perSnr

\* No row of a holdout file is drawn from the stream a row of a training file
\* was drawn from ("new seed avoids overlap").
HoldoutUnseen ==
    \A f \in TrainingFiles, h \in HoldoutFiles :
        {r.id : r \in Range(npz[f].rows)} \cap {r.id : r \in Range(npz[h].rows)} = {}

\* The windows of a capture are merged into the combined file once, whether
\* --extra names it, the glob finds it, or both.
CapturedOnce ==
    LET rows == npz["real_combined"].rows
    IN  \A i, j \in DOMAIN rows : rows[i].id = rows[j].id => i = j \/ rows[i].id[2] = {"real_missing7"}

\* Replacing the rows of AM_DSB_SC in place keeps what stood where: "per-SNR
\* ordering lines up".
SpliceLinesUp ==
    [][\A f \in {"v6_holdout", "synth_v6", "synth_v9"} : Readable(f) /\ Readable(f)' =>
          \A i \in DOMAIN npz[f].rows :
              /\ npz'[f].rows[i].cls = npz[f].rows[i].cls
              /\ npz'[f].rows[i].snr = npz[f].rows[i].snr
              /\ npz[f].rows[i].cls # "AM_DSB_SC" => npz'[f].rows[i] = npz[f].rows[i]]_dataVars

\* The files are generated at window lengths at which every generator fills
\* its window with data, in a deviation no offset reaches unless its class is
\* one of HiddenByOffset.
GeneratorsSound ==
    \A f \in TrainingFiles \cup HoldoutFiles \cup GeneratedFiles :
        Readable(f) => npz[f].len \in SoundLengths

\* What a file holds, whichever scripts made it and whatever was killed on the
\* way: rows with the labels they were made for, balanced, of full windows.
FilesSound == DataTypeOK /\ LabelsSound /\ Balanced /\ GeneratorsSound

\* Where the rows of a file come from: from generators that are up to date, not
\* from the holdout's stream, and from a capture once.
OriginsSound == PatchedClassesAreNew /\ HoldoutUnseen /\ CapturedOnce

=============================================================================
