------------------------------ MODULE Training ------------------------------
(***************************************************************************)
(* tools/ml/train.py as the run_*.sh scripts use it: a script is a         *)
(* sequence of trainings, each of which may resume from a checkpoint of an *)
(* earlier one, and `set -e` ends it with the first that fails.            *)
(*                                                                         *)
(* The samples are the ones the loaders of IqDatasets keep.  Weights are   *)
(* abstracted to what the program measures of them: the accuracy on each   *)
(* class, in halves.  A training epoch may lead to any accuracies of       *)
(* Trained.  Windows of different lengths, sources and true classes are    *)
(* told apart; what is in them is not.                                     *)
(***************************************************************************)
EXTENDS IqDatasets, ClassFamilies

CONSTANTS
    Scripts,     \* sequences of options, see Options
    NpzFiles,    \* by name: [classes, rows, len] as load_numpy_npz() reads them,
                 \* and the true class of each row
    RadioFiles,  \* by name: [version, rows], rows as the loader of that RadioML reads them
    SynthSnrs,   \* the SNRs generate_synthetic() goes through
    SnrMin,      \* --snr-min
    Trained,     \* the accuracies weights can have, sequences over 0..2
    Models,      \* the paths of --out
    Epochs,      \* --epochs
    MaxScripts,  \* bound: scripts started
    NoFile, Torn

\* What main() looks at: [data, npz, hf, synthetic, len, family, router, cap, real,
\* model, val, resume, out], a file being NoFile where it is not given.
Options == UNION {{s[k] : k \in DOMAIN s} : s \in Scripts}

ASSUME TrainedAssumption == Trained \subseteq Seq(0..2) /\ \A acc \in Trained : acc # <<>>
ASSUME OutsAssumption ==
    \A o \in Options : o.out \in Models /\ o.resume \in Models \union {NoFile}
ASSUME ScriptsAssumption == Scripts \subseteq Seq(Options)
\* What the options name exists, and the .npz files are labelled with their true
\* classes, so that every wrong label is the program's own.
ASSUME SourcesAssumption ==
    /\ \A o \in Options :
          /\ o.data \in DOMAIN RadioFiles \union {NoFile}
          /\ o.npz \in Seq(DOMAIN NpzFiles) /\ o.val \in DOMAIN NpzFiles \union {NoFile}
          /\ o.synthetic \in Nat /\ o.len \in Nat /\ o.cap \in Nat
    /\ "synthetic" \notin DOMAIN RadioFiles \union DOMAIN NpzFiles
    /\ \A f \in DOMAIN RadioFiles :
          /\ RadioFiles[f].rows \in Seq(Range(RadioFiles[f].rows))
          /\ RadioFiles[f].version = "2016" =>
                \A k \in DOMAIN RadioFiles[f].rows : RadioFiles[f].rows[k].n \in Nat
    /\ Len(SynthSnrs) \in Nat
ASSUME LabelsAssumption ==
    \A f \in DOMAIN NpzFiles :
        LET file == NpzFiles[f]
        IN  /\ file.rows \in Seq(Range(file.rows))
            /\ \A k \in DOMAIN file.rows :
                  LET row == file.rows[k]
                  IN  row.y < Len(file.classes) /\ file.truth[row.of] = file.classes[row.y + 1]
ASSUME BoundsAssumption == Epochs \in Nat /\ MaxScripts \in Nat
ASSUME FilesAssumption == NoFile \notin Models

VARIABLES
    pc,        \* idle, load, select, tensors, split, build, floor, save, train,
               \* report, export, names, done
    script,    \* the trainings left, the present one first
    started,   \* scripts started
    samples,   \* all_samples: [gt, truth, len, src]
    classes,   \* class_names
    data,      \* the rows of X and y, with their samples
    domain,    \* domain_tensor
    val,       \* the classes, by index, with a row in the validation set
    covered,   \* whether the test set has a row of every class
    weights,   \* of the model
    best,      \* best_state
    epoch,
    seen,      \* the scores measured by this training
    ckpt,      \* by model: what .best.pt holds
    onnx,      \* the network in .onnx
    json       \* the names in .classes.json

vars == <<pc, script, started, samples, classes, data, domain, val, covered, weights, best, epoch,
          seen, ckpt, onnx, json>>
files == <<ckpt, onnx, json>>
sourceVars == <<samples, classes, data, domain>>
runVars == <<script, started>>
modelVars == <<weights, best, epoch, seen>>

opt == Head(script)

----------------------------------------------------------------------------
\* The members of a set of names, in an order that stands for the one of strings.
Listed(names) == FoldSet(LAMBDA c, list : Append(list, c), <<>>, names)

\* build_tensors(): the sources in their order.
Tagged(rows, truth(_), src) ==
    [k \in 1..Len(rows) |->
        [gt |-> rows[k].gt, truth |-> truth(rows[k]), len |-> rows[k].len, src |-> src]]

Own(row) == row.gt

NpzSamples(o, f) ==
    Tagged(LoadNumpyNpz(NpzFiles[f], SnrMin, o.cap), LAMBDA row : NpzFiles[f].truth[row.of], f)

\* SYNTHETIC_MODS
SyntheticSeq ==
    <<"BPSK", "QPSK", "8PSK", "QAM16", "QAM64", "FM_NB", "FM_WB", "AM_DSB_LC", "AM_DSB_SC", "OFDM",
      "FSK", "MSK", "CSS">>

RadioSamples(o) ==
    LET f == RadioFiles[o.data]
    IN  Tagged(IF f.version = "2016" THEN LoadRadioml2016(f.rows, SnrMin, o.cap)
               ELSE LoadRadioml2018(f.rows, SnrMin, o.cap), Own, o.data)
RadioMods(f) == IF f.version = "2016" THEN RADIOML_2016_MODS ELSE RADIOML_2018_MODS

AllSamples(o) ==
    (IF o.data = NoFile THEN <<>> ELSE RadioSamples(o))
    \o FlattenSeq([k \in 1..Len(o.npz) |-> NpzSamples(o, o.npz[k])])
    \o (IF o.synthetic = 0 THEN <<>>
        ELSE Tagged(GenerateSynthetic(SyntheticSeq, SynthSnrs, o.synthetic, o.len), Own, "synthetic"))

FamilyOf(c) ==
    IF FamilyIndex(c) = -1 THEN "none" ELSE FamilyNames[FamilyIndex(c) + 1]

\* --family
Specialist(o) == o.family # ""

\* The family filter, or the relabelling of the router; a class without a family
\* is dropped by either.
Selected(o, all) ==
    CASE Specialist(o) -> Picked(all, {k \in 1..Len(all) : FamilyOf(all[k].gt) = o.family})
      [] o.router /\ ~Specialist(o) ->
            LET kept == Picked(all, {k \in 1..Len(all) : FamilyIndex(all[k].gt) # -1})
            IN  [k \in 1..Len(kept) |-> [kept[k] EXCEPT !.gt = FamilyOf(@)]]
      [] OTHER -> all

\* The global cap draws from a class's samples of all sources together; a cap of
\* 0 is none. The order of what is left is the one of all_samples here: nothing
\* depends on it.
Capped(o, all) ==
    LET of(k) == {j \in 1..Len(all) : all[j].gt = all[k].gt}
        fits(keep) == \A k \in 1..Len(all) :
                         Cardinality(keep \intersect of(k)) = Lesser(Cardinality(of(k)), o.cap)
    IN  IF o.cap = 0 THEN {all}
        ELSE {Picked(all, keep) : keep \in {keep \in SUBSET (1..Len(all)) : fits(keep)}}

\* The classes: those of RadioML, the families, or the sorted ones that are there.
ClassesOf(o, all) ==
    CASE o.router -> FamilyNames
      [] o.data # NoFile /\ ~o.router /\ ~Specialist(o) -> Listed(RadioMods(RadioFiles[o.data]))
      [] OTHER -> Listed({all[k].gt : k \in DOMAIN all})

\* What the steps of build_tensors() have for each options.
Loaded == [o \in Options |-> AllSamples(o)]
Kept == [o \in Options |-> Selected(o, Loaded[o])]
KeptClasses == [o \in Options |-> ClassesOf(o, Kept[o])]
Draws == [o \in Options |-> Capped(o, Kept[o])]

IndexOf(names, c) == CHOOSE i \in DOMAIN names : names[i] = c

\* samples_to_tensors(): a sample of no class is left out.
Labelled(all, names) ==
    Picked(all, {k \in 1..Len(all) : \E i \in DOMAIN names : names[i] = all[k].gt})
Tensors(all, names) ==
    LET kept == Labelled(all, names)
    IN  [k \in 1..Len(kept) |-> [y |-> IndexOf(names, kept[k].gt), of |-> kept[k]]]

UsesDomain(o) == o.real # {} /\ o.npz # <<>>

\* Mutant: the domain of a sample that is left out of X is kept.
DomainLabelsAll(o, all, names) ==
    [k \in 1..Len(all) |-> IF all[k].src \in o.real THEN 1 ELSE 0]

\* The domain labels are drawn from all_samples once more, by the same filter.
DomainLabels(o, all, names) ==
    LET kept == Labelled(all, names)
    IN  [k \in 1..Len(kept) |-> IF kept[k].src \in o.real THEN 1 ELSE 0]

\* The holdout: its labels are brought into the order of class_names, router
\* labels by way of the family; what has no class here is dropped.
HoldoutName(o, c) == IF o.router /\ FamilyIndex(c) # -1 THEN FamilyOf(c) ELSE c

\* Mutant: the numbers of the holdout are used as they are.
HoldoutRaw(o, names) ==
    LET f == NpzFiles[o.val]
    IN  {<<f.rows[k].y + 1, HoldoutName(o, f.truth[f.rows[k].of])>> : k \in DOMAIN f.rows}

Holdout(o, names) ==
    LET f == NpzFiles[o.val]
        name(k) == HoldoutName(o, f.classes[f.rows[k].y + 1])
    IN  {<<IndexOf(names, name(k)), HoldoutName(o, f.truth[f.rows[k].of])>> :
            k \in {j \in DOMAIN f.rows : \E i \in DOMAIN names : names[i] = name(j)}}

----------------------------------------------------------------------------
\* eval_per_acc(): a class without a row counts as never recognised.
Measured(acc, present) == [c \in DOMAIN acc |-> IF c \in present THEN acc[c] ELSE 0]

\* num_classes of train(): the first dimension of the last weight matrix, which
\* in RadioFusion is the one of the domain classifier with its two outputs.
OutputSize(model, acc) == IF model = "fusion" THEN 2 ELSE Len(acc)

\* 0.7 * mean + 0.3 * min over n classes, in twentieths of a class.
Composite(m, n) ==
    LET least(v) == {c \in 1..n : c \in DOMAIN m /\ m[c] >= v}
        full(v) == Cardinality(least(v)) = n
    IN  7 * (Cardinality(least(1)) + Cardinality(least(2)))
          + 3 * n * (IF full(2) THEN 2 ELSE IF full(1) THEN 1 ELSE 0)

Score(model, acc, present) == Composite(Measured(acc, present), OutputSize(model, acc))

\* A checkpoint: what torch.save() writes.
Checkpoint == [acc |-> weights, classes |-> classes, model |-> opt.model]

\* load_state_dict() of what fits: the weights are those of the checkpoint when
\* it is of the same model and classes. Else some layers start anew, or the head
\* was trained for other classes, and the accuracy may be anything.
Resumable(ck) == ck # NoFile /\ ck # Torn
SameModel(ck) == ck.model = opt.model /\ ck.classes = classes

----------------------------------------------------------------------------
NoFiles == [f \in Models |-> NoFile]

Blank ==
    /\ samples' = <<>> /\ classes' = <<>> /\ data' = <<>> /\ domain' = <<>>
    /\ val' = {} /\ covered' = FALSE /\ weights' = <<>> /\ best' = NoFile /\ epoch' = 0 /\ seen' = {}

Init ==
    /\ pc = "idle" /\ script = <<>> /\ started = 0
    /\ samples = <<>> /\ classes = <<>> /\ data = <<>> /\ domain = <<>>
    /\ val = {} /\ covered = FALSE /\ weights = <<>> /\ best = NoFile /\ epoch = 0 /\ seen = {}
    /\ ckpt = NoFiles /\ onnx = NoFiles /\ json = NoFiles

StartScript ==
    /\ pc = "idle" /\ script = <<>> /\ started < MaxScripts
    /\ \E s \in Scripts : script' = s
    /\ started' = started + 1
    /\ UNCHANGED <<pc, sourceVars, val, covered, modelVars, files>>

\* An error ends the training, and set -e the script.
Fail ==
    /\ pc' = "idle" /\ script' = <<>>
    /\ Blank
    /\ UNCHANGED <<started, files>>

\* The options exclude one another, and the family has to exist.
ValidOptions(o) ==
    /\ ~(Specialist(o) /\ o.router)
    /\ Specialist(o) => o.family \in DOMAIN FamilyMembers

Start ==
    /\ pc = "idle" /\ script # <<>>
    /\ IF ValidOptions(opt)
       THEN pc' = "load" /\ UNCHANGED <<runVars, sourceVars, val, covered, modelVars, files>>
       ELSE Fail

Load ==
    /\ pc = "load"
    /\ IF ~opt.hf /\ Loaded[opt] # <<>>
       THEN /\ samples' = Loaded[opt] /\ pc' = "select"
            /\ UNCHANGED <<runVars, classes, data, domain, val, covered, modelVars, files>>
       ELSE Fail

\* Mutant: every source is capped on its own only.
SelectUncapped ==
    /\ pc = "select"
    /\ IF Kept[opt] # <<>>
       THEN /\ samples' = Kept[opt] /\ classes' = KeptClasses[opt] /\ pc' = "tensors"
            /\ UNCHANGED <<runVars, data, domain, val, covered, modelVars, files>>
       ELSE Fail

Select ==
    /\ pc = "select"
    /\ IF Kept[opt] # <<>>
       THEN /\ samples' \in Draws[opt] /\ classes' = KeptClasses[opt]
            /\ pc' = "tensors"
            /\ UNCHANGED <<runVars, data, domain, val, covered, modelVars, files>>
       ELSE Fail

\* np.stack() raises on no rows and on rows of different lengths.
MakeTensors ==
    /\ pc = "tensors"
    /\ LET X == Tensors(samples, classes) IN
         IF Cardinality({X[k].of.len : k \in DOMAIN X}) = 1
         THEN /\ data' = X
              /\ domain' = IF UsesDomain(opt) THEN DomainLabels(opt, samples, classes) ELSE <<>>
              /\ samples' = <<>>
              /\ pc' = "split"
              /\ UNCHANGED <<runVars, classes, val, covered, modelVars, files>>
         ELSE Fail

LabelsAt(rows) == {data[k].y : k \in rows}
Covers(rows) == LabelsAt(rows) = DOMAIN classes
Portion(percent) == kSubset((percent * Len(data)) \div 100, DOMAIN data)

\* The holdout and a test set of a tenth, or validation and test sets of 15 %.
Split ==
    /\ pc = "split"
    /\ IF opt.val # NoFile
       THEN /\ val' = {p[1] : p \in Holdout(opt, classes)}
            /\ \E t \in Portion(10) : covered' = Covers(t)
       ELSE \E v \in Portion(15), t \in Portion(15) :
                v \intersect t = {} /\ val' = LabelsAt(v) /\ covered' = Covers(t)
    /\ pc' = "build"
    /\ UNCHANGED <<runVars, sourceVars, modelVars, files>>

NewWeights == {acc \in Trained : Len(acc) = Len(classes)}

\* Mutant: the keys of the checkpoint match none of the model.
BuildForgets ==
    /\ pc = "build"
    /\ IF opt.resume # NoFile /\ ~Resumable(ckpt[opt.resume])
       THEN Fail
       ELSE /\ weights' \in NewWeights
            /\ pc' = "floor"
            /\ data' = <<>> /\ domain' = <<>>
            /\ UNCHANGED <<runVars, samples, classes, val, covered, best, epoch, seen, files>>

\* A new model, or one resumed; reading a file that is missing or torn raises.
\* Which rows there are makes no difference any more.
Build ==
    /\ pc = "build"
    /\ IF opt.resume # NoFile /\ ~Resumable(ckpt[opt.resume])
       THEN Fail
       ELSE /\ IF opt.resume # NoFile /\ SameModel(ckpt[opt.resume])
               THEN weights' = ckpt[opt.resume].acc
               ELSE weights' \in NewWeights
            /\ pc' = "floor"
            /\ data' = <<>> /\ domain' = <<>>
            /\ UNCHANGED <<runVars, samples, classes, val, covered, best, epoch, seen, files>>

Current == Score(opt.model, weights, val)

\* Mutant: the first score to beat is 0, and nothing is saved before it is.
FloorZero ==
    /\ pc = "floor"
    /\ best' = [score |-> 0, state |-> Checkpoint]
    /\ seen' = {Current}
    /\ pc' = "train"
    /\ UNCHANGED <<runVars, sourceVars, val, covered, weights, epoch, files>>

\* The score before the first epoch is the one to beat.
Floor ==
    /\ pc = "floor"
    /\ best' = [score |-> Current, state |-> Checkpoint]
    /\ seen' = {Current}
    /\ pc' = "save"
    /\ UNCHANGED <<runVars, sourceVars, val, covered, weights, epoch, files>>

\* torch.save(best_state, ckpt_path)
SaveBest ==
    /\ pc = "save"
    /\ ckpt' = [ckpt EXCEPT ![opt.out] = best.state] /\ UNCHANGED <<onnx, json>>
    /\ pc' = "train"
    /\ UNCHANGED <<runVars, sourceVars, val, covered, modelVars>>

\* One epoch and its evaluation.
Epoch ==
    /\ pc = "train" /\ epoch < Epochs
    /\ epoch' = epoch + 1
    /\ weights' \in NewWeights
    /\ LET score == Score(opt.model, weights', val) IN
         /\ seen' = seen \union {score}
         /\ IF score > best.score
            THEN /\ best' = [score |-> score, state |-> [best.state EXCEPT !.acc = weights']]
                 /\ pc' = "save"
            ELSE UNCHANGED <<best, pc>>
    /\ UNCHANGED <<runVars, sourceVars, val, covered, files>>

\* Mutant: the weights of the last epoch go on.
EndTrainingLast ==
    /\ pc = "train" /\ epoch = Epochs
    /\ pc' = "report"
    /\ UNCHANGED <<runVars, sourceVars, val, covered, modelVars, files>>

\* model.load_state_dict(best_state)
EndTraining ==
    /\ pc = "train" /\ epoch = Epochs
    /\ weights' = best.state.acc
    /\ pc' = "report"
    /\ UNCHANGED <<runVars, sourceVars, val, covered, best, epoch, seen, files>>

\* confusion_report(): classification_report() raises unless the labels and the
\* predictions of the test set together show every class.
Report ==
    /\ pc = "report"
    /\ \/ pc' = "export" /\ UNCHANGED <<runVars, sourceVars, val, covered, modelVars, files>>
       \/ ~covered /\ Fail

Export ==
    /\ pc = "export"
    /\ onnx' = [onnx EXCEPT ![opt.out] = [acc |-> weights, classes |-> classes]]
    /\ UNCHANGED <<ckpt, json>>
    /\ pc' = "names"
    /\ UNCHANGED <<runVars, sourceVars, val, covered, modelVars>>

SaveNames ==
    /\ pc = "names"
    /\ json' = [json EXCEPT ![opt.out] = classes] /\ UNCHANGED <<ckpt, onnx>>
    /\ pc' = "done"
    /\ UNCHANGED <<runVars, sourceVars, val, covered, modelVars>>

\* The script goes on with its next training.
NextTraining ==
    /\ pc = "done"
    /\ pc' = "idle" /\ script' = Tail(script)
    /\ Blank
    /\ UNCHANGED <<started, files>>

\* The program is killed. A file that is being written is left torn.
Crash ==
    /\ pc # "idle"
    /\ pc' = "idle" /\ script' = <<>>
    /\ Blank
    /\ \/ UNCHANGED files
       \/ pc = "save" /\ ckpt' = [ckpt EXCEPT ![opt.out] = Torn] /\ UNCHANGED <<onnx, json>>
       \/ pc = "export" /\ onnx' = [onnx EXCEPT ![opt.out] = Torn] /\ UNCHANGED <<ckpt, json>>
       \/ pc = "names" /\ json' = [json EXCEPT ![opt.out] = Torn] /\ UNCHANGED <<ckpt, onnx>>
    /\ UNCHANGED started

Step ==
    \/ Start \/ Load \/ Select \/ MakeTensors \/ Split \/ Build \/ Floor \/ SaveBest \/ Epoch
    \/ EndTraining \/ Report \/ Export \/ SaveNames \/ NextTraining

Next == StartScript \/ Step \/ Crash

\* A script that has been started goes on until it is killed.
Spec == Init /\ [][Next]_vars /\ WF_vars(Crash \/ Step)

----------------------------------------------------------------------------
\* What the files of a model can hold.
ClassLists == {KeptClasses[o] : o \in Options} \union {<<>>}
Checkpoints == [acc : Trained, classes : ClassLists, model : {o.model : o \in Options}]
Networks == [acc : Trained, classes : ClassLists]
Saved(contents) == [Models -> contents \union {NoFile, Torn}]

\* Types: weights have an accuracy for each class, scores are integers, and each
\* model has files of its own.
TypeOK ==
    /\ pc \in {"idle", "load", "select", "tensors", "split", "build", "floor", "save", "train",
              "report", "export", "names", "done"}
    /\ script \in Seq(Options) /\ started \in 0..MaxScripts
    /\ pc # "idle" => script # <<>>
    /\ classes \in ClassLists
    /\ weights \in Trained \union {<<>>}
    /\ weights # <<>> => Len(weights) = Len(classes)
    /\ epoch \in 0..Epochs /\ seen \in SUBSET Int
    /\ pc \in {"save", "train", "report", "export", "names", "done"} =>
          best \in [score : Int, state : [acc : Trained, classes : {classes}, model : {opt.model}]]
    /\ ckpt \in Saved(Checkpoints) /\ onnx \in Saved(Networks) /\ json \in Saved(ClassLists)

\* train.py 456-465: the score before training is the floor. From the first
\* checkpoint on, the file holds the best weights this training has had, counting
\* those it began with, so that a failed fine-tuning changes nothing.
BestIsSaved ==
    pc \in {"train", "report", "export", "names", "done"} =>
        /\ ckpt[opt.out] = best.state
        /\ best.score = Score(opt.model, best.state.acc, val)
        /\ \A score \in seen : score <= best.score

\* A training that resumes from the checkpoint it writes, as run_qam_fix.sh does,
\* never replaces it by a worse one of the same model and classes, whenever it is
\* killed and started again (train.py 466-471, 526-531).
NeverRegresses ==
    [][\A f \in Models :
          /\ pc = "save" /\ opt.resume = f /\ opt.out = f
          /\ Resumable(ckpt[f]) /\ Resumable(ckpt'[f])
          /\ SameModel(ckpt[f])
          => Score(opt.model, ckpt'[f].acc, val) >= Score(opt.model, ckpt[f].acc, val)]_vars

\* A row of X and its number of y belong to the true class of the sample, or to
\* its family, whichever source it came from; so do those of the holdout,
\* numbered for other classes (train.py 78-100, 176-189, 714-731).
TrueLabel(o, c) == IF o.router THEN FamilyOf(c) ELSE c
LabelsHonest ==
    /\ \A k \in DOMAIN data :
          /\ classes[data[k].y] = TrueLabel(opt, data[k].of.truth)
          /\ Specialist(opt) => FamilyOf(data[k].of.truth) = opt.family
    /\ pc = "build" /\ opt.val # NoFile =>
          \A p \in Holdout(opt, classes) : classes[p[1]] = p[2]

\* domain_tensor has one entry for each row of X, and it says whether that row
\* came from a file of --dann-real (train.py 215-223).
DomainAligned ==
    domain # <<>> =>
        /\ DOMAIN domain = DOMAIN data
        /\ \A k \in DOMAIN data : domain[k] = 1 <=> data[k].of.src \in opt.real

\* However many files give samples of a class, or classes of a family, no more
\* than --max-per-class of a label are trained with (train.py 191-209).
CapHolds ==
    \A i \in DOMAIN classes :
        opt.cap > 0 => Cardinality({k \in DOMAIN data : data[k].y = i}) <= opt.cap

\* The windows generate_synthetic() makes have the length asked for, for every
\* modulation, so that they can be stacked (datasets.py 328-470).
SyntheticFits ==
    pc = "select" => \A k \in DOMAIN samples : samples[k].src = "synthetic" => samples[k].len = opt.len

\* When a training is done its three files belong together: the network has the
\* weights of the best checkpoint, and the names are those of its outputs
\* (train.py 533-536, 862-873).
FilesAgree ==
    pc = "done" =>
        /\ onnx[opt.out] = [acc |-> ckpt[opt.out].acc, classes |-> ckpt[opt.out].classes]
        /\ json[opt.out] = ckpt[opt.out].classes
        /\ Len(json[opt.out]) = Len(onnx[opt.out].acc)

\* "Checkpoint on composite score so we never sacrifice the worst class"
\* (train.py:526): an epoch whose checkpoint is kept did not lower the composite
\* score over the classes of the model.
NeverSacrificesWorst ==
    [][pc = "train" /\ pc' = "save" =>
          LET whole(acc) == Composite(Measured(acc, val), Len(acc))
          IN  whole(best'.state.acc) >= whole(best.state.acc)]_vars

\* The rows a model is trained with: true labels, domains of their own, not more
\* of a class than asked for, and windows of one length (train.py 78-225).
RowsSound == LabelsHonest /\ DomainAligned /\ CapHolds /\ SyntheticFits

=============================================================================
