-------------------------- MODULE Training_proofs --------------------------
(***************************************************************************)
(* Theorems about Training for every set of scripts, files and models,     *)
(* every number of epochs and every outcome of an epoch.  First TrainInv,  *)
(* on weights, scores and the files; then RowsInv, on the rows a model is  *)
(* trained with, which rests on lemmas about what the loaders, the filter  *)
(* and the cap make of lists of any length.                                *)
(*                                                                         *)
(* Then theorems about DatasetFiles, for every number of rows per class    *)
(* and SNR and every capture: DataInv, on the arrays of the files, which   *)
(* rests on lemmas about the layout generate() leaves and what splicing,   *)
(* copying and merging keep of it; and what the generators draw.  The      *)
(* lemmas on lists serve both.                                             *)
(***************************************************************************)
EXTENDS Training, DatasetFiles, FiniteSetTheorems, WellFoundedInduction, TLAPS

----------------------------------------------------------------------------
(* Scores. *)

\* Counting and the minimum give integers, so scores can be compared.
LEMMA CompositeType ==
  ASSUME NEW m, NEW n \in Nat
  PROVE  Composite(m, n) \in Int
<1>. DEFINE least(v) == {c \in 1..n : c \in DOMAIN m /\ m[c] >= v}
<1>1. ASSUME NEW v PROVE Cardinality(least(v)) \in Nat
  <2>1. IsFiniteSet(1..n)
    BY FS_Interval
  <2>2. IsFiniteSet(least(v))
    BY <2>1, FS_Subset
  <2>. QED
    BY <2>2, FS_CardinalityType
<1>. HIDE DEF least
<1>. DEFINE lowest == IF Cardinality(least(2)) = n THEN 2 ELSE IF Cardinality(least(1)) = n THEN 1 ELSE 0
<1>2. lowest \in Int
  OBVIOUS
<1>3. 3 * n * lowest \in Int
  BY <1>2
<1>4. Composite(m, n) = 7 * (Cardinality(least(1)) + Cardinality(least(2))) + 3 * n * lowest
  BY DEF Composite, least
<1>. HIDE DEF lowest
<1>. QED
  BY <1>1, <1>3, <1>4

LEMMA ScoreType ==
  ASSUME NEW model, NEW acc \in Trained, NEW present
  PROVE  Score(model, acc, present) \in Int
<1>1. Len(acc) \in Nat
  BY TrainedAssumption
<1>2. OutputSize(model, acc) \in Nat
  BY <1>1 DEF OutputSize
<1>. QED
  BY <1>2, CompositeType DEF Score

----------------------------------------------------------------------------
(* The inductive invariant. *)

Late == {"save", "train", "report", "export", "names", "done"}

\* A checkpoint has an accuracy for each of its classes.
DiskOK ==
    \A f \in Models :
        Resumable(ckpt[f]) => /\ ckpt[f] \in Checkpoints
                                 /\ Len(ckpt[f].acc) = Len(ckpt[f].classes)

\* There are weights from the time the model is built; those of the best epoch
\* are the ones that go on.
WeightsOK ==
    /\ pc \notin Late \union {"floor"} => weights = <<>>
    /\ pc \in Late \union {"floor"} => weights \in Trained /\ Len(weights) = Len(classes)
    /\ pc \in {"report", "export", "names", "done"} => weights = best.state.acc

\* The best checkpoint is scored with the validation set of this training, and
\* nothing measured beats it.
BestOK ==
    pc \in Late =>
        /\ Len(best.state.acc) = Len(classes)
        /\ best.score = Score(opt.model, best.state.acc, val)
        /\ \A score \in seen : score <= best.score

\* The checkpoint in the file is the best one, except while it is written: then
\* the file has one that scores no higher, or one of something else.
SavedOK ==
    /\ pc \in Late \ {"save"} => ckpt[opt.out] = best.state
    /\ pc = "save" /\ opt.resume = opt.out /\ Resumable(ckpt[opt.out])
         /\ SameModel(ckpt[opt.out])
         => Score(opt.model, ckpt[opt.out].acc, val) <= best.score
    /\ pc = "floor" /\ opt.resume = opt.out /\ Resumable(ckpt[opt.out])
         /\ SameModel(ckpt[opt.out])
         => ckpt[opt.out].acc = weights

ExportOK ==
    /\ pc \in {"names", "done"} => onnx[opt.out] = [acc |-> weights, classes |-> classes]
    /\ pc = "done" => json[opt.out] = classes

TrainInv == TypeOK /\ DiskOK /\ WeightsOK /\ BestOK /\ SavedOK /\ ExportOK

LEMMA OptType ==
  ASSUME TypeOK, script # <<>>
  PROVE  opt \in Options /\ opt.out \in Models
<1>1. script \in Seq(Options)
  BY DEF TypeOK
<1>2. opt \in Options
  BY <1>1 DEF opt
<1>. QED
  BY <1>2, OutsAssumption

LEMMA InitTrainInv == Init => TrainInv
<1>. SUFFICES ASSUME Init PROVE TrainInv
  OBVIOUS
<1>1. /\ ckpt \in Saved(Checkpoints) /\ onnx \in Saved(Networks) /\ json \in Saved(ClassLists)
      /\ \A f \in Models : ckpt[f] = NoFile
  BY DEF Init, NoFiles, Saved
<1>2. DiskOK
  BY <1>1 DEF DiskOK, Resumable
<1>3. TypeOK
  BY <1>1, BoundsAssumption DEF Init, TypeOK, ClassLists
<1>. QED
  BY <1>2, <1>3 DEF Init, TrainInv, WeightsOK, BestOK, SavedOK, ExportOK, Late

\* A failure leaves the files and nothing else.
LEMMA FailTrainInv == TrainInv /\ Fail => TrainInv'
<1>. SUFFICES ASSUME TrainInv, Fail PROVE TrainInv'
  OBVIOUS
<1>1. /\ pc' = "idle" /\ script' = <<>> /\ weights' = <<>> /\ epoch' = 0 /\ seen' = {}
      /\ UNCHANGED files /\ started' = started /\ classes' = <<>>
  BY DEF Fail, Blank
<1>2. TypeOK'
  BY <1>1, BoundsAssumption DEF TrainInv, TypeOK, ClassLists, files
<1>3. DiskOK'
  BY <1>1 DEF TrainInv, DiskOK, Resumable, files
<1>. QED
  BY <1>1, <1>2, <1>3 DEF TrainInv, WeightsOK, BestOK, SavedOK, ExportOK, Late

\* The steps before there are weights.
LEMMA EarlyTrainInv ==
  ASSUME TrainInv, script # <<>>, pc \in {"idle", "load", "select", "tensors", "split"},
         pc' \in {"load", "select", "tensors", "split", "build"},
         UNCHANGED <<runVars, modelVars, files>>, classes' \in ClassLists
  PROVE  TrainInv'
<1>1. weights = <<>>
  BY DEF TrainInv, WeightsOK, Late
<1>2. TypeOK'
  BY <1>1 DEF TrainInv, TypeOK, runVars, modelVars, files, opt
<1>3. DiskOK'
  BY DEF TrainInv, DiskOK, Resumable, files
<1>. QED
  BY <1>1, <1>2, <1>3 DEF TrainInv, WeightsOK, BestOK, SavedOK, ExportOK, Late, modelVars

LEMMA BuildTrainInv == TrainInv /\ Build => TrainInv'
<1>. SUFFICES ASSUME TrainInv, Build PROVE TrainInv'
  OBVIOUS
<1>1. CASE Fail
  BY <1>1, FailTrainInv
<1>2. CASE ~Fail
  <2>1. /\ pc = "build" /\ pc' = "floor"
        /\ script' = script /\ started' = started /\ classes' = classes /\ val' = val
        /\ best' = best /\ epoch' = epoch /\ seen' = seen /\ UNCHANGED files
    BY <1>2 DEF Build, runVars
  <2>2. script # <<>> /\ opt' = opt /\ opt \in Options /\ opt.out \in Models
    BY <2>1, OptType DEF TrainInv, TypeOK, opt
  <2>3. weights' \in Trained /\ Len(weights') = Len(classes)
    <3>1. CASE opt.resume # NoFile /\ SameModel(ckpt[opt.resume])
      <4>1. opt.resume \in Models /\ Resumable(ckpt[opt.resume])
        BY <1>2, <2>2, <3>1, OutsAssumption DEF Build
      <4>2. weights' = ckpt[opt.resume].acc
        BY <1>2, <3>1, <4>1 DEF Build
      <4>. QED
        BY <3>1, <4>1, <4>2 DEF TrainInv, DiskOK, SameModel, Checkpoints
    <3>2. CASE ~(opt.resume # NoFile /\ SameModel(ckpt[opt.resume]))
      BY <1>2, <3>2 DEF Build, NewWeights
    <3>. QED
      BY <3>1, <3>2
  <2>4. TypeOK'
    BY <2>1, <2>2, <2>3 DEF TrainInv, TypeOK, files
  <2>5. DiskOK'
    BY <2>1 DEF TrainInv, DiskOK, Resumable, files
  <2>6. SavedOK'
    <3>1. SUFFICES ASSUME opt.resume = opt.out, Resumable(ckpt[opt.out]), SameModel(ckpt[opt.out])
                   PROVE  ckpt[opt.out].acc = weights'
      BY <2>1, <2>2 DEF SavedOK, Late, Resumable, SameModel, files
    <3>2. opt.resume # NoFile
      BY <2>2, <3>1, FilesAssumption
    <3>. QED
      BY <1>2, <3>1, <3>2 DEF Build
  <2>. QED
    BY <2>1, <2>3, <2>4, <2>5, <2>6 DEF TrainInv, WeightsOK, BestOK, ExportOK, Late
<1>. QED
  BY <1>1, <1>2

\* The first checkpoint: its score is the only one seen.
LEMMA FloorTrainInv == TrainInv /\ Floor => TrainInv'
<1>. SUFFICES ASSUME TrainInv, Floor PROVE TrainInv'
  OBVIOUS
<1>1. /\ pc = "floor" /\ pc' = "save" /\ script' = script /\ script # <<>> /\ started' = started
      /\ classes' = classes /\ val' = val /\ weights' = weights /\ epoch' = epoch /\ UNCHANGED files
      /\ weights \in Trained /\ Len(weights) = Len(classes)
  BY DEF Floor, runVars, sourceVars, TrainInv, TypeOK, WeightsOK
<1>2. opt' = opt
  BY <1>1 DEF opt
<1>3. /\ best' = [score |-> Current, state |-> Checkpoint] /\ seen' = {Current}
      /\ best'.state = [acc |-> weights, classes |-> classes, model |-> opt.model]
  BY DEF Floor, Checkpoint
<1>4. Current \in Int /\ Current = Score(opt.model, weights, val)
  BY <1>1, ScoreType DEF Current
<1>5. best' \in [score : Int, state : [acc : Trained, classes : {classes'}, model : {opt'.model}]]
  BY <1>1, <1>2, <1>3, <1>4 DEF Checkpoint
<1>6. TypeOK'
  BY <1>1, <1>3, <1>4, <1>5 DEF TrainInv, TypeOK, files
<1>7. DiskOK'
  BY <1>1 DEF TrainInv, DiskOK, Resumable, files
<1>8. BestOK'
  BY <1>1, <1>2, <1>3, <1>4 DEF BestOK
<1>9. SavedOK'
  <2>1. SUFFICES ASSUME opt.resume = opt.out, Resumable(ckpt[opt.out]), SameModel(ckpt[opt.out])
                 PROVE  Score(opt.model, ckpt[opt.out].acc, val) <= Current
    BY <1>1, <1>2, <1>3 DEF SavedOK, Late, Resumable, SameModel, files
  <2>2. ckpt[opt.out].acc = weights
    BY <1>1, <2>1 DEF TrainInv, SavedOK
  <2>. QED
    BY <1>4, <2>2
<1>. QED
  BY <1>1, <1>6, <1>7, <1>8, <1>9 DEF TrainInv, WeightsOK, ExportOK, Late

\* The best checkpoint is written, and it is of this model and these classes.
LEMMA SaveBestTrainInv == TrainInv /\ SaveBest => TrainInv'
<1>. SUFFICES ASSUME TrainInv, SaveBest PROVE TrainInv'
  OBVIOUS
<1>1. /\ pc = "save" /\ pc' = "train" /\ UNCHANGED <<runVars, sourceVars, val, modelVars, onnx, json>>
      /\ ckpt' = [ckpt EXCEPT ![opt.out] = best.state]
  BY DEF SaveBest
<1>2. script # <<>> /\ opt' = opt /\ opt \in Options /\ opt.out \in Models
  BY <1>1, OptType DEF TrainInv, TypeOK, opt, runVars
<1>3. best.state \in Checkpoints /\ Len(best.state.acc) = Len(best.state.classes)
  BY <1>1, <1>2 DEF TrainInv, TypeOK, BestOK, Late, Checkpoints
<1>4. ckpt \in [Models -> Checkpoints \union {NoFile, Torn}]
  BY DEF TrainInv, TypeOK, Saved
<1>5. ckpt' \in Saved(Checkpoints) /\ ckpt'[opt.out] = best.state
      /\ \A f \in Models : f # opt.out => ckpt'[f] = ckpt[f]
  BY <1>1, <1>2, <1>3, <1>4 DEF Saved
<1>6. TypeOK'
  BY <1>1, <1>2, <1>5 DEF TrainInv, TypeOK, runVars, sourceVars, modelVars
<1>7. DiskOK'
  BY <1>2, <1>3, <1>5 DEF TrainInv, DiskOK, Resumable
<1>8. SavedOK'
  BY <1>1, <1>2, <1>5 DEF SavedOK, modelVars
<1>. QED
  BY <1>1, <1>2, <1>6, <1>7, <1>8
     DEF TrainInv, WeightsOK, BestOK, ExportOK, Late, runVars, sourceVars, modelVars

\* A better epoch becomes the best; another one leaves the best and its file.
LEMMA EpochTrainInv == TrainInv /\ Epoch => TrainInv'
<1>. SUFFICES ASSUME TrainInv, Epoch PROVE TrainInv'
  OBVIOUS
<1>. DEFINE score == Score(opt.model, weights', val)
<1>1. /\ pc = "train" /\ epoch < Epochs /\ epoch' = epoch + 1
      /\ UNCHANGED <<runVars, sourceVars, val, files>>
      /\ weights' \in NewWeights /\ seen' = seen \union {score}
  BY DEF Epoch
<1>2. script # <<>> /\ opt' = opt
  BY <1>1 DEF TrainInv, TypeOK, opt, runVars
<1>3. weights' \in Trained /\ Len(weights') = Len(classes)
  BY <1>1 DEF NewWeights
<1>4. score \in Int
  BY <1>3, ScoreType
<1>5. \/ /\ score > best.score /\ pc' = "save"
         /\ best' = [score |-> score, state |-> [best.state EXCEPT !.acc = weights']]
      \/ ~(score > best.score) /\ best' = best /\ pc' = "train"
  BY <1>1 DEF Epoch
<1>6. best \in [score : Int, state : [acc : Trained, classes : {classes}, model : {opt.model}]]
  BY <1>1 DEF TrainInv, TypeOK
<1>. HIDE DEF score
<1>7. best' \in [score : Int, state : [acc : Trained, classes : {classes'}, model : {opt'.model}]]
  BY <1>1, <1>2, <1>3, <1>4, <1>5, <1>6 DEF sourceVars
<1>8. TypeOK'
  <2>1. epoch' \in 0..Epochs /\ seen' \in SUBSET Int
    BY <1>1, <1>4, BoundsAssumption DEF TrainInv, TypeOK
  <2>. QED
    BY <1>1, <1>2, <1>3, <1>5, <1>7, <2>1 DEF TrainInv, TypeOK, runVars, sourceVars, files
<1>9. DiskOK'
  BY <1>1 DEF TrainInv, DiskOK, Resumable, files
<1>10. BestOK'
  <2>1. \A s \in seen : s \in Int /\ s <= best.score
    BY <1>1 DEF TrainInv, TypeOK, BestOK, Late
  <2>2. CASE score > best.score
    <3>1. best'.score = score /\ best'.state.acc = weights' /\ pc' = "save"
      BY <1>5, <1>6, <2>2
    <3>2. \A s \in seen' : s <= score
      BY <1>1, <1>4, <1>6, <2>1, <2>2
    <3>3. score = Score(opt'.model, best'.state.acc, val')
      BY <1>1, <1>2, <3>1 DEF score
    <3>. QED
      BY <1>1, <1>3, <3>1, <3>2, <3>3 DEF BestOK, sourceVars
  <2>3. CASE ~(score > best.score)
    <3>1. best' = best /\ pc' = "train"
      BY <1>5, <2>3
    <3>2. \A s \in seen' : s <= best.score
      BY <1>1, <1>4, <1>6, <2>1, <2>3
    <3>. QED
      BY <1>1, <1>2, <3>1, <3>2 DEF TrainInv, BestOK, Late, sourceVars
  <2>. QED
    BY <2>2, <2>3
<1>11. SavedOK'
  <2>1. ckpt[opt.out] = best.state
    BY <1>1 DEF TrainInv, SavedOK, Late
  <2>2. CASE score > best.score
    <3>1. best'.score = score /\ pc' = "save"
      BY <1>5, <2>2
    <3>2. Score(opt.model, ckpt[opt.out].acc, val) <= score
      BY <1>1, <1>4, <1>6, <2>1, <2>2 DEF TrainInv, BestOK, Late
    <3>. QED
      BY <1>1, <1>2, <3>1, <3>2 DEF SavedOK, Late, files
  <2>3. CASE ~(score > best.score)
    BY <1>1, <1>2, <1>5, <2>1, <2>3 DEF SavedOK, Late, files
  <2>. QED
    BY <2>2, <2>3
<1>. QED
  BY <1>1, <1>3, <1>5, <1>8, <1>9, <1>10, <1>11 DEF TrainInv, WeightsOK, ExportOK, Late, sourceVars

\* From the end of the training on the weights are those of the checkpoint.
LEMMA EndTrainingTrainInv == TrainInv /\ EndTraining => TrainInv'
<1>. SUFFICES ASSUME TrainInv, EndTraining PROVE TrainInv'
  OBVIOUS
<1>1. /\ pc = "train" /\ pc' = "report" /\ weights' = best.state.acc
      /\ UNCHANGED <<runVars, sourceVars, val, best, epoch, seen, files>>
  BY DEF EndTraining
<1>2. script # <<>> /\ opt' = opt
  BY <1>1 DEF TrainInv, TypeOK, opt, runVars
<1>3. weights' \in Trained /\ Len(weights') = Len(classes)
  BY <1>1 DEF TrainInv, TypeOK, BestOK, Late
<1>4. TypeOK'
  BY <1>1, <1>2, <1>3 DEF TrainInv, TypeOK, runVars, sourceVars, files
<1>5. DiskOK'
  BY <1>1 DEF TrainInv, DiskOK, Resumable, files
<1>6. SavedOK'
  BY <1>1, <1>2 DEF TrainInv, SavedOK, Late, files
<1>. QED
  BY <1>1, <1>2, <1>3, <1>4, <1>5, <1>6
     DEF TrainInv, WeightsOK, BestOK, ExportOK, Late, sourceVars

\* A report that comes to its end changes nothing.
LEMMA ReportTrainInv == TrainInv /\ Report => TrainInv'
<1>. SUFFICES ASSUME TrainInv, Report, ~Fail PROVE TrainInv'
  BY FailTrainInv
<1>1. pc = "report" /\ pc' = "export" /\ UNCHANGED <<runVars, sourceVars, val, modelVars, files>>
  BY DEF Report
<1>2. script # <<>> /\ opt' = opt
  BY <1>1 DEF TrainInv, TypeOK, opt, runVars
<1>3. TypeOK'
  BY <1>1, <1>2 DEF TrainInv, TypeOK, runVars, sourceVars, modelVars, files
<1>4. DiskOK'
  BY <1>1 DEF TrainInv, DiskOK, Resumable, files
<1>. QED
  BY <1>1, <1>2, <1>3, <1>4
     DEF TrainInv, WeightsOK, BestOK, SavedOK, ExportOK, Late, sourceVars, modelVars, files

\* The network is written with the weights and the classes of the checkpoint.
LEMMA ExportTrainInv == TrainInv /\ Export => TrainInv'
<1>. SUFFICES ASSUME TrainInv, Export PROVE TrainInv'
  OBVIOUS
<1>. DEFINE network == [acc |-> weights, classes |-> classes]
<1>1. /\ pc = "export" /\ pc' = "names"
      /\ UNCHANGED <<runVars, sourceVars, val, modelVars, ckpt, json>>
      /\ onnx' = [onnx EXCEPT ![opt.out] = network]
  BY DEF Export
<1>2. script # <<>> /\ opt' = opt /\ opt.out \in Models
  BY <1>1, OptType DEF TrainInv, TypeOK, opt, runVars
<1>3. network \in Networks
  BY <1>1 DEF TrainInv, TypeOK, WeightsOK, Late, Networks
<1>4. onnx \in [Models -> Networks \union {NoFile, Torn}]
  BY DEF TrainInv, TypeOK, Saved
<1>. HIDE DEF network
<1>5. onnx' \in Saved(Networks) /\ onnx'[opt.out] = network
  BY <1>1, <1>2, <1>3, <1>4 DEF Saved
<1>6. TypeOK'
  BY <1>1, <1>2, <1>5 DEF TrainInv, TypeOK, runVars, sourceVars, modelVars
<1>7. DiskOK'
  BY <1>1 DEF TrainInv, DiskOK, Resumable
<1>8. ExportOK'
  BY <1>1, <1>2, <1>5 DEF ExportOK, network, sourceVars, modelVars
<1>. QED
  BY <1>1, <1>2, <1>6, <1>7, <1>8
     DEF TrainInv, WeightsOK, BestOK, SavedOK, Late, sourceVars, modelVars

LEMMA SaveNamesTrainInv == TrainInv /\ SaveNames => TrainInv'
<1>. SUFFICES ASSUME TrainInv, SaveNames PROVE TrainInv'
  OBVIOUS
<1>1. /\ pc = "names" /\ pc' = "done"
      /\ UNCHANGED <<runVars, sourceVars, val, modelVars, ckpt, onnx>>
      /\ json' = [json EXCEPT ![opt.out] = classes]
  BY DEF SaveNames
<1>2. script # <<>> /\ opt' = opt /\ opt.out \in Models
  BY <1>1, OptType DEF TrainInv, TypeOK, opt, runVars
<1>3. json \in [Models -> ClassLists \union {NoFile, Torn}] /\ classes \in ClassLists
  BY DEF TrainInv, TypeOK, Saved
<1>4. json' \in Saved(ClassLists) /\ json'[opt.out] = classes
  BY <1>1, <1>2, <1>3 DEF Saved
<1>5. TypeOK'
  BY <1>1, <1>2, <1>4 DEF TrainInv, TypeOK, runVars, sourceVars, modelVars
<1>6. DiskOK'
  BY <1>1 DEF TrainInv, DiskOK, Resumable
<1>7. ExportOK'
  BY <1>1, <1>2, <1>4 DEF TrainInv, ExportOK, sourceVars, modelVars
<1>. QED
  BY <1>1, <1>2, <1>5, <1>6, <1>7
     DEF TrainInv, WeightsOK, BestOK, SavedOK, Late, sourceVars, modelVars

\* The end of a training, whether another one follows, the script is given up
\* or a file is left torn.
LEMMA EndedTrainInv ==
  ASSUME TrainInv, pc' = "idle", script' \in Seq(Options), Blank, started' = started,
         ckpt' \in Saved(Checkpoints), onnx' \in Saved(Networks), json' \in Saved(ClassLists),
         \A f \in Models : ckpt'[f] = ckpt[f] \/ ckpt'[f] = Torn
  PROVE  TrainInv'
<1>1. classes' = <<>> /\ weights' = <<>> /\ epoch' = 0 /\ seen' = {}
  BY DEF Blank
<1>2. TypeOK'
  BY <1>1, BoundsAssumption DEF TrainInv, TypeOK, ClassLists
<1>3. DiskOK'
  BY DEF TrainInv, DiskOK, Resumable
<1>. QED
  BY <1>1, <1>2, <1>3 DEF TrainInv, WeightsOK, BestOK, SavedOK, ExportOK, Late

LEMMA NextTrainingTrainInv == TrainInv /\ NextTraining => TrainInv'
<1>. SUFFICES ASSUME TrainInv, NextTraining PROVE TrainInv'
  OBVIOUS
<1>1. /\ pc = "done" /\ pc' = "idle" /\ script' = Tail(script) /\ Blank
      /\ started' = started /\ UNCHANGED files
  BY DEF NextTraining
<1>2. script \in Seq(Options) /\ script # <<>>
  BY <1>1 DEF TrainInv, TypeOK
<1>3. Tail(script) \in Seq(Options)
  BY <1>2
<1>. QED
  BY <1>1, <1>3, EndedTrainInv DEF TrainInv, TypeOK, files

\* Only the file that is being written can be torn.
LEMMA CrashTrainInv == TrainInv /\ Crash => TrainInv'
<1>. SUFFICES ASSUME TrainInv, Crash PROVE TrainInv'
  OBVIOUS
<1>1. pc' = "idle" /\ script' = <<>> /\ Blank /\ started' = started /\ pc # "idle"
  BY DEF Crash
<1>2. script' \in Seq(Options)
  BY <1>1
<1>3. opt.out \in Models
  BY <1>1, OptType DEF TrainInv, TypeOK
<1>4. /\ ckpt \in [Models -> Checkpoints \union {NoFile, Torn}]
      /\ onnx \in [Models -> Networks \union {NoFile, Torn}]
      /\ json \in [Models -> ClassLists \union {NoFile, Torn}]
  BY DEF TrainInv, TypeOK, Saved
<1>5. /\ ckpt' = ckpt \/ ckpt' = [ckpt EXCEPT ![opt.out] = Torn]
      /\ onnx' = onnx \/ onnx' = [onnx EXCEPT ![opt.out] = Torn]
      /\ json' = json \/ json' = [json EXCEPT ![opt.out] = Torn]
  BY DEF Crash, files
<1>6. ckpt' \in Saved(Checkpoints) /\ \A f \in Models : ckpt'[f] = ckpt[f] \/ ckpt'[f] = Torn
  BY <1>3, <1>4, <1>5 DEF Saved
<1>7. onnx' \in Saved(Networks) /\ json' \in Saved(ClassLists)
  BY <1>3, <1>4, <1>5 DEF Saved
<1>. QED
  BY <1>1, <1>2, <1>6, <1>7, EndedTrainInv

LEMMA StartScriptTrainInv == TrainInv /\ StartScript => TrainInv'
<1>. SUFFICES ASSUME TrainInv, StartScript PROVE TrainInv'
  OBVIOUS
<1>1. /\ pc = "idle" /\ pc' = "idle" /\ started < MaxScripts /\ started' = started + 1
      /\ script' \in Scripts /\ UNCHANGED <<sourceVars, val, covered, modelVars, files>>
  BY DEF StartScript
<1>2. script' \in Seq(Options)
  BY <1>1, ScriptsAssumption
<1>3. TypeOK'
  BY <1>1, <1>2, BoundsAssumption DEF TrainInv, TypeOK, sourceVars, modelVars, files
<1>4. DiskOK'
  BY <1>1 DEF TrainInv, DiskOK, Resumable, files
<1>. QED
  BY <1>1, <1>3, <1>4 DEF TrainInv, WeightsOK, BestOK, SavedOK, ExportOK, Late, sourceVars, modelVars

\* The steps that read the samples: none of them makes weights or writes a file.
LEMMA ReadingTrainInv ==
  TrainInv /\ (Start \/ Load \/ Select \/ MakeTensors \/ Split) => TrainInv'
<1>. SUFFICES ASSUME TrainInv, ~Fail, Start \/ Load \/ Select \/ MakeTensors \/ Split
              PROVE  TrainInv'
  BY FailTrainInv
<1>. USE EarlyTrainInv
<1>1. classes \in ClassLists /\ (pc # "idle" => script # <<>>)
  BY DEF TrainInv, TypeOK
<1>2. CASE Start
  BY <1>1, <1>2 DEF Start, sourceVars
<1>3. CASE Load
  BY <1>1, <1>3 DEF Load
<1>4. CASE Select
  <2>1. KeptClasses[opt] \in ClassLists
    BY <1>1, <1>4, OptType DEF Select, TrainInv, ClassLists
  <2>. QED
    BY <1>1, <1>4, <2>1 DEF Select
<1>5. CASE MakeTensors
  BY <1>1, <1>5 DEF MakeTensors
<1>6. CASE Split
  BY <1>1, <1>6 DEF Split, sourceVars
<1>. QED
  BY <1>2, <1>3, <1>4, <1>5, <1>6

LEMMA NextTrainInv == TrainInv /\ [Next]_vars => TrainInv'
<1>. SUFFICES ASSUME TrainInv, [Next]_vars PROVE TrainInv'
  OBVIOUS
<1>1. CASE Next
  BY <1>1, StartScriptTrainInv, ReadingTrainInv, BuildTrainInv, FloorTrainInv, SaveBestTrainInv,
     EpochTrainInv, EndTrainingTrainInv, ReportTrainInv, ExportTrainInv, SaveNamesTrainInv,
     NextTrainingTrainInv, CrashTrainInv DEF Next, Step
<1>2. CASE UNCHANGED vars
  <2>1. TypeOK' /\ DiskOK'
    BY <1>2 DEF vars, TrainInv, TypeOK, DiskOK, Resumable, opt
  <2>2. opt' = opt
    BY <1>2 DEF vars, opt
  <2>3. WeightsOK' /\ BestOK' /\ ExportOK'
    BY <1>2, <2>2 DEF vars, TrainInv, WeightsOK, BestOK, ExportOK, Late
  <2>4. SavedOK'
    BY <1>2, <2>2 DEF vars, TrainInv, SavedOK, Resumable, SameModel, Late
  <2>. QED
    BY <2>1, <2>3, <2>4 DEF TrainInv
<1>. QED
  BY <1>1, <1>2

THEOREM TrainInvHolds == Spec => []TrainInv
<1>. QED
  BY InitTrainInv, NextTrainInv, PTL DEF Spec

----------------------------------------------------------------------------
(* What follows. *)

\* The types of the state of a training and of the files of the models: for all
\* scripts, sources and numbers of epochs.
THEOREM TrainingTypeOK == Spec => []TypeOK
<1>1. TrainInv => TypeOK
  BY DEF TrainInv
<1>. QED
  BY <1>1, TrainInvHolds, PTL

\* From its first checkpoint on, a training has in its file the best weights it
\* has measured, the initial ones among them (train.py 456-471, 526-536).
THEOREM TrainingBestIsSaved == Spec => []BestIsSaved
<1>1. TrainInv => BestIsSaved
  BY DEF TrainInv, BestOK, SavedOK, BestIsSaved, Late
<1>. QED
  BY <1>1, TrainInvHolds, PTL

\* A finished training leaves a network with the weights of its checkpoint and
\* the names of its outputs (train.py 533-536, 862-873).
THEOREM TrainingFilesAgree == Spec => []FilesAgree
<1>1. TrainInv => FilesAgree
  <2>. SUFFICES ASSUME TrainInv, pc = "done"
                PROVE  /\ onnx[opt.out] = [acc |-> ckpt[opt.out].acc, classes |-> ckpt[opt.out].classes]
                       /\ json[opt.out] = ckpt[opt.out].classes
                       /\ Len(json[opt.out]) = Len(onnx[opt.out].acc)
    BY DEF FilesAgree
  <2>1. ckpt[opt.out] = best.state /\ weights = best.state.acc /\ Len(weights) = Len(classes)
    BY DEF TrainInv, SavedOK, WeightsOK, Late
  <2>2. best.state.classes = classes
    BY DEF TrainInv, TypeOK
  <2>3. onnx[opt.out] = [acc |-> weights, classes |-> classes] /\ json[opt.out] = classes
    BY DEF TrainInv, ExportOK
  <2>. QED
    BY <2>1, <2>2, <2>3
<1>. QED
  BY <1>1, TrainInvHolds, PTL

\* A training that resumes from its own checkpoint never replaces it by a worse
\* one of the same model and classes (train.py 466-471, 526-531).
THEOREM TrainingNeverRegresses == Spec => NeverRegresses
<1>1. ASSUME TrainInv, [Next]_vars, NEW f \in Models, pc = "save", opt.resume = f, opt.out = f,
             Resumable(ckpt[f]), Resumable(ckpt'[f]), SameModel(ckpt[f])
      PROVE  Score(opt.model, ckpt'[f].acc, val) >= Score(opt.model, ckpt[f].acc, val)
  <2>1. ckpt[f] \in Checkpoints /\ ckpt[f].acc \in Trained
    BY <1>1 DEF TrainInv, DiskOK, Checkpoints
  <2>2. Score(opt.model, ckpt[f].acc, val) \in Int
    BY <2>1, ScoreType
  <2>3. ckpt \in [Models -> Checkpoints \union {NoFile, Torn}]
    BY <1>1 DEF TrainInv, TypeOK, Saved
  <2>4. CASE ckpt'[f] = ckpt[f]
    BY <2>2, <2>4
  <2>5. CASE SaveBest
    <3>1. ckpt'[f] = best.state
      BY <1>1, <2>3, <2>5 DEF SaveBest
    <3>2. /\ best.score \in Int
          /\ best.score = Score(opt.model, best.state.acc, val)
          /\ Score(opt.model, ckpt[f].acc, val) <= best.score
      BY <1>1 DEF TrainInv, TypeOK, BestOK, SavedOK, Late
    <3>. QED
      BY <2>2, <3>1, <3>2
  <2>6. CASE Crash
    <3>1. ckpt' = ckpt \/ ckpt' = [ckpt EXCEPT ![f] = Torn]
      BY <1>1, <2>6 DEF Crash, files
    <3>2. ckpt'[f] = ckpt[f] \/ ckpt'[f] = Torn
      BY <2>3, <3>1
    <3>. QED
      BY <1>1, <2>4, <3>2 DEF Resumable
  <2>7. CASE UNCHANGED vars
    BY <2>4, <2>7 DEF vars
  <2>8. ~(StartScript \/ Start \/ Load \/ Select \/ MakeTensors \/ Split \/ Build \/ Floor
          \/ Epoch \/ EndTraining \/ Report \/ Export \/ SaveNames \/ NextTraining)
    BY <1>1 DEF StartScript, Start, Load, Select, MakeTensors, Split, Build, Floor, Epoch,
                EndTraining, Report, Export, SaveNames, NextTraining
  <2>. QED
    BY <1>1, <2>5, <2>6, <2>7, <2>8 DEF Next, Step
<1>2. TrainInv /\ [Next]_vars =>
        \A f \in Models :
           /\ pc = "save" /\ opt.resume = f /\ opt.out = f
           /\ Resumable(ckpt[f]) /\ Resumable(ckpt'[f])
           /\ SameModel(ckpt[f])
           => Score(opt.model, ckpt'[f].acc, val) >= Score(opt.model, ckpt[f].acc, val)
  BY <1>1
<1>. QED
  BY <1>2, TrainInvHolds, PTL DEF Spec, NeverRegresses

----------------------------------------------------------------------------
(* The domain labels. *)

\* There are domain labels only between the two steps that make and use them,
\* while the options of the training stay what they are.
DomainInv == DomainAligned /\ (pc \notin {"split", "build"} => domain = <<>>)

\* build_tensors() filters all_samples twice and gets the same rows.
LEMMA SameRows ==
  ASSUME NEW o, NEW all, NEW names
  PROVE  LET X == Tensors(all, names)
             D == DomainLabels(o, all, names)
         IN  DOMAIN D = DOMAIN X /\ \A k \in DOMAIN X : D[k] = 1 <=> X[k].of.src \in o.real
<1>. DEFINE kept == Labelled(all, names)
<1>1. /\ Tensors(all, names) = [k \in 1..Len(kept) |-> [y |-> IndexOf(names, kept[k].gt), of |-> kept[k]]]
      /\ DomainLabels(o, all, names) = [k \in 1..Len(kept) |-> IF kept[k].src \in o.real THEN 1 ELSE 0]
  BY DEF Tensors, DomainLabels
<1>. HIDE DEF kept
<1>. QED
  BY <1>1

LEMMA NextDomainInv == DomainInv /\ [Next]_vars => DomainInv'
<1>. SUFFICES ASSUME DomainInv, [Next]_vars PROVE DomainInv'
  OBVIOUS
<1>1. CASE domain' = <<>>
  BY <1>1 DEF DomainInv, DomainAligned
<1>2. CASE domain' # <<>>
  <2>1. ~Blank
    BY <1>2 DEF Blank
  <2>2. CASE UNCHANGED <<domain, data, script, pc>>
    BY <1>2, <2>2 DEF DomainInv, DomainAligned, opt
  <2>3. CASE MakeTensors
    <3>1. /\ data' = Tensors(samples, classes) /\ script' = script /\ pc' = "split"
          /\ domain' = DomainLabels(opt, samples, classes)
      BY <1>2, <2>1, <2>3 DEF MakeTensors, Fail, runVars
    <3>. QED
      BY <3>1, SameRows DEF DomainInv, DomainAligned, opt
  <2>4. CASE Split
    BY <1>2, <2>4 DEF Split, sourceVars, runVars, DomainInv, DomainAligned, opt
  <2>5. CASE Build
    BY <1>2, <2>1, <2>5 DEF Build, Fail
  <2>6. CASE StartScript \/ Start \/ Load \/ Select \/ Floor \/ SaveBest \/ Epoch
             \/ EndTraining \/ Report \/ Export \/ SaveNames
    BY <1>2, <2>1, <2>6 DEF DomainInv, StartScript, Start, Load, Select, Floor, SaveBest, Epoch,
       EndTraining, Report, Export, SaveNames, Fail, sourceVars
  <2>7. ~NextTraining /\ ~Crash
    BY <2>1 DEF NextTraining, Crash
  <2>. QED
    BY <2>2, <2>3, <2>4, <2>5, <2>6, <2>7 DEF Next, Step, vars
<1>. QED
  BY <1>1, <1>2

\* The adversarial domain loss is trained with the origin of each row itself,
\* although the labels are made in a second pass (train.py 215-223).
THEOREM TrainingDomainAligned == Spec => []DomainAligned
<1>1. Init => DomainInv
  BY DEF Init, DomainInv, DomainAligned
<1>2. DomainInv => DomainAligned
  BY DEF DomainInv
<1>. QED
  BY <1>1, <1>2, NextDomainInv, PTL DEF Spec

----------------------------------------------------------------------------
(* Lists. *)

\* Induction over the naturals, for a set rather than a predicate.
LEMMA SetInduction ==
    ASSUME NEW S, 0 \in S, \A n \in Nat : n \in S => n + 1 \in S
    PROVE  Nat \subseteq S
<1>. DEFINE T == Nat \ S
<1>. SUFFICES ASSUME T # {} PROVE FALSE
  OBVIOUS
<1>1. PICK x \in T : \A y \in T : ~ (<<y, x>> \in OpToRel(<, Nat))
  BY WFMin, NatLessThanWellFounded
<1>2. \A y \in T : ~ (y < x)
  BY <1>1 DEF OpToRel
<1>3. x # 0 /\ x - 1 \in Nat /\ x - 1 < x
  OBVIOUS
<1>. QED
  BY <1>2, <1>3

\* What FlattenSeq() computes step by step: f[i] is the first i parts.
Flattens(f, seqs, n) == f = [i \in 1..n |-> IF i = 1 THEN seqs[i] ELSE f[i - 1] \o seqs[i]]

LEMMA FlattenExists ==
    ASSUME NEW seqs, NEW n \in Nat
    PROVE  \E f : Flattens(f, seqs, n)
<1>. DEFINE S == {m \in Nat : \E f : Flattens(f, seqs, m)}
<1>1. 0 \in S
  <2>1. Flattens([i \in 1..0 |-> 0], seqs, 0)
    BY DEF Flattens
  <2>. QED
    BY <2>1
<1>2. ASSUME NEW m \in Nat, m \in S PROVE m + 1 \in S
  <2>1. PICK f : Flattens(f, seqs, m)
    BY <1>2
  <2>. DEFINE g == [i \in 1..(m + 1) |-> IF i = 1 THEN seqs[i] ELSE f[i - 1] \o seqs[i]]
  <2>2. \A i \in 1..(m + 1) : i # 1 => i - 1 \in 1..m /\ g[i - 1] = f[i - 1]
    <3>. SUFFICES ASSUME NEW i \in 1..(m + 1), i # 1 PROVE i - 1 \in 1..m /\ g[i - 1] = f[i - 1]
      OBVIOUS
    <3>1. i - 1 \in 1..m /\ i - 1 \in 1..(m + 1)
      OBVIOUS
    <3>2. f[i - 1] = IF i - 1 = 1 THEN seqs[i - 1] ELSE f[i - 1 - 1] \o seqs[i - 1]
      BY <2>1, <3>1 DEF Flattens
    <3>. QED
      BY <3>1, <3>2
  <2>3. g = [i \in 1..(m + 1) |-> IF i = 1 THEN seqs[i] ELSE g[i - 1] \o seqs[i]]
    BY <2>2
  <2>4. Flattens(g, seqs, m + 1)
    BY <2>3 DEF Flattens
  <2>. QED
    BY <2>4
<1>3. Nat \subseteq S
  <2>. HIDE DEF S
  <2>. QED
    BY <1>1, <1>2, SetInduction
<1>. QED
  BY <1>3

LEMMA FlattenStep ==
    ASSUME NEW f, NEW seqs, NEW n \in Nat, Flattens(f, seqs, n), NEW i \in 1..n
    PROVE  f[i] = IF i = 1 THEN seqs[i] ELSE f[i - 1] \o seqs[i]
<1>. DEFINE e(k) == IF k = 1 THEN seqs[k] ELSE f[k - 1] \o seqs[k]
<1>1. f = [k \in 1..n |-> e(k)]
  BY ZenonT(30) DEF Flattens
<1>2. f[i] = e(i)
  <2>. HIDE DEF e
  <2>. QED
    BY <1>1
<1>. QED
  BY <1>2

\* The last step is the result.
LEMMA FlattenLast ==
    ASSUME NEW seqs, Len(seqs) \in Nat, Len(seqs) # 0
    PROVE  \E f : Flattens(f, seqs, Len(seqs)) /\ FlattenSeq(seqs) = f[Len(seqs)]
<1>. DEFINE f == CHOOSE f : f = [i \in 1..Len(seqs) |-> IF i = 1 THEN seqs[i] ELSE f[i - 1] \o seqs[i]]
<1>1. f = [i \in 1..Len(seqs) |-> IF i = 1 THEN seqs[i] ELSE f[i - 1] \o seqs[i]]
  BY FlattenExists, Zenon DEF Flattens
<1>2. FlattenSeq(seqs) = f[Len(seqs)]
  BY DEF FlattenSeq
<1>. QED
  BY <1>1, <1>2, Zenon DEF Flattens

\* What is in a list of lists is in the flattened one.
LEMMA FlattenIn ==
    ASSUME NEW S, NEW seqs \in Seq(Seq(S))
    PROVE  FlattenSeq(seqs) \in Seq(S)
<1>1. CASE Len(seqs) = 0
  <2>1. FlattenSeq(<<>>) = <<>>
    BY DEF FlattenSeq
  <2>2. seqs = <<>>
    BY <1>1
  <2>3. FlattenSeq(seqs) = <<>>
    BY <2>1, <2>2, Zenon
  <2>. QED
    BY <2>3
<1>2. CASE Len(seqs) # 0
  <2>1. PICK f : Flattens(f, seqs, Len(seqs)) /\ FlattenSeq(seqs) = f[Len(seqs)]
    BY <1>2, FlattenLast
  <2>. DEFINE T == {k \in Nat : k \in 1..Len(seqs) => f[k] \in Seq(S)}
  <2>2. 0 \in T
    OBVIOUS
  <2>3. ASSUME NEW k \in Nat, k \in T PROVE k + 1 \in T
    <3>. SUFFICES ASSUME k + 1 \in 1..Len(seqs) PROVE f[k + 1] \in Seq(S)
      OBVIOUS
    <3>1. f[k + 1] = IF k + 1 = 1 THEN seqs[k + 1] ELSE f[k + 1 - 1] \o seqs[k + 1]
      BY <2>1, FlattenStep
    <3>2. seqs[k + 1] \in Seq(S)
      OBVIOUS
    <3>3. CASE k = 0
      BY <3>1, <3>2, <3>3
    <3>4. CASE k # 0
      <4>1. f[k] \in Seq(S)
        BY <2>3, <3>4
      <4>2. k + 1 # 1 /\ k + 1 - 1 = k
        BY <3>4
      <4>3. f[k + 1] = f[k] \o seqs[k + 1]
        BY <3>1, <4>2
      <4>. QED
        BY <3>2, <4>1, <4>3
    <3>. QED
      BY <3>3, <3>4
  <2>4. Nat \subseteq T
    <3>. HIDE DEF T
    <3>. QED
      BY <2>2, <2>3, SetInduction
  <2>. QED
    BY <1>2, <2>1, <2>4
<1>. QED
  BY <1>1, <1>2

\* A list of anything.
List(b) == b \in Seq({b[k] : k \in DOMAIN b})

LEMMA ListIs ==
    ASSUME NEW b, List(b)
    PROVE  Len(b) \in Nat /\ DOMAIN b = 1..Len(b)
  BY DEF List

LEMMA SeqOfElements ==
    ASSUME NEW S, NEW b \in Seq(S)
    PROVE  List(b)
  BY DEF List

LEMMA FlattenElements ==
    ASSUME NEW seqs, List(seqs), \A i \in 1..Len(seqs) : List(seqs[i])
    PROVE  LET all == FlattenSeq(seqs)
           IN  /\ List(all)
               /\ \A k \in 1..Len(all) : \E i \in 1..Len(seqs) : \E j \in 1..Len(seqs[i]) :
                     all[k] = seqs[i][j]
<1>. DEFINE S == UNION {{seqs[i][j] : j \in 1..Len(seqs[i])} : i \in 1..Len(seqs)}
            all == FlattenSeq(seqs)
<1>1. ASSUME NEW i \in 1..Len(seqs) PROVE seqs[i] \in Seq(S)
  <2>1. seqs[i] \in Seq({seqs[i][j] : j \in 1..Len(seqs[i])})
    BY ListIs DEF List
  <2>2. {seqs[i][j] : j \in 1..Len(seqs[i])} \subseteq S
    OBVIOUS
  <2>. HIDE DEF S
  <2>. QED
    BY <2>1, <2>2
<1>2. seqs \in Seq(Seq(S))
  <2>. HIDE DEF S
  <2>. QED
    BY <1>1, ListIs DEF List
<1>3. all \in Seq(S)
  <2>. HIDE DEF S
  <2>. QED
    BY <1>2, FlattenIn
<1>. HIDE DEF all
<1>4. /\ Len(all) \in Nat /\ DOMAIN all = 1..Len(all)
      /\ \A k \in 1..Len(all) : all[k] \in S
  <2>. HIDE DEF S
  <2>. QED
    BY <1>3
<1>5. List(all)
  <2>. HIDE DEF S
  <2>. QED
    BY <1>3, SeqOfElements
<1>. QED
  BY <1>4, <1>5 DEF all

LEMMA ConcatElements ==
    ASSUME NEW a, NEW b, List(a), List(b)
    PROVE  /\ List(a \o b)
           /\ \A k \in 1..Len(a \o b) : \/ \E j \in 1..Len(a) : (a \o b)[k] = a[j]
                                        \/ \E j \in 1..Len(b) : (a \o b)[k] = b[j]
<1>. DEFINE S == {a[k] : k \in 1..Len(a)} \union {b[k] : k \in 1..Len(b)}
<1>0. /\ {a[k] : k \in DOMAIN a} \subseteq S /\ a \in Seq({a[k] : k \in DOMAIN a})
      /\ {b[k] : k \in DOMAIN b} \subseteq S /\ b \in Seq({b[k] : k \in DOMAIN b})
  BY ListIs DEF List
<1>1. a \in Seq(S) /\ b \in Seq(S)
  <2>. HIDE DEF S
  <2>1. \A A : \A s \in Seq(A) : A \subseteq S => s \in Seq(S)
    OBVIOUS
  <2>. QED
    BY <1>0, <2>1
<1>2. a \o b \in Seq(S)
  <2>. HIDE DEF S
  <2>. QED
    BY <1>1
<1>. DEFINE c == a \o b
<1>. HIDE DEF c
<1>3. Len(c) \in Nat /\ DOMAIN c = 1..Len(c) /\ \A k \in 1..Len(c) : c[k] \in S
  <2>. HIDE DEF S
  <2>. QED
    BY <1>2 DEF c
<1>4. List(c)
  <2>. HIDE DEF S
  <2>1. c \in Seq(S)
    BY <1>2 DEF c
  <2>. QED
    BY <2>1, SeqOfElements
<1>5. \A k \in 1..Len(c) : \/ \E j \in 1..Len(a) : c[k] = a[j]
                           \/ \E j \in 1..Len(b) : c[k] = b[j]
  BY <1>3
<1>. QED
  BY <1>4, <1>5 DEF c

----------------------------------------------------------------------------
(* The rows that are picked. *)

\* InOrder() lists each element of a set of numbers once.
Lists(s, S) ==
    /\ DOMAIN s = 1..Cardinality(S) /\ Len(s) = Cardinality(S) /\ Cardinality(S) \in Nat
    /\ \A k \in 1..Cardinality(S) : s[k] \in S
    /\ \A j, k \in 1..Cardinality(S) : s[j] = s[k] => j = k

LEMMA InOrderLists ==
    ASSUME NEW S \in SUBSET Int, IsFiniteSet(S)
    PROVE  Lists(InOrder(S), S)
<1>. DEFINE up(n) == {m \in S : m <= n}
            n == Cardinality(S)
            f == [l \in S |-> Cardinality(up(l))]
            s == InOrder(S)
<1>1. n \in Nat
  BY FS_CardinalityType
<1>2. ASSUME NEW l \in S PROVE IsFiniteSet(up(l)) /\ Cardinality(up(l)) \in 1..n
  <2>1. up(l) \in SUBSET S /\ l \in up(l)
    OBVIOUS
  <2>. HIDE DEF up
  <2>2. IsFiniteSet(up(l)) /\ Cardinality(up(l)) \in Nat /\ Cardinality(up(l)) <= n
    BY <2>1, FS_Subset, FS_CardinalityType
  <2>3. Cardinality(up(l)) # 0
    BY <2>1, <2>2, FS_EmptySet
  <2>. QED
    BY <1>1, <2>2, <2>3
<1>3. ASSUME NEW l \in S, NEW m \in S, l < m PROVE Cardinality(up(l)) # Cardinality(up(m))
  <2>0. l \in Int /\ m \in Int /\ ~ (m <= l) /\ \A x \in S : x <= l => x <= m
    BY <1>3
  <2>1. up(l) \in SUBSET up(m)
    BY <2>0
  <2>1a. m \in up(m) /\ m \notin up(l)
    BY <2>0
  <2>. HIDE DEF up
  <2>. QED
    BY <1>2, <2>1, <2>1a, FS_Subset
<1>4. ASSUME NEW l \in S, NEW m \in S, Cardinality(up(l)) = Cardinality(up(m)) PROVE l = m
  <2>. HIDE DEF up
  <2>. QED
    BY <1>3, <1>4
<1>. HIDE DEF up, n
<1>5. f \in Injection(S, 1..n)
  BY <1>2, <1>4 DEF Injection, IsInjective
<1>6. IsFiniteSet(1..n) /\ Cardinality(1..n) = n
  BY <1>1, FS_Interval
<1>7. f \in Surjection(S, 1..n)
  BY <1>5, <1>6, FS_Injection DEF n
<1>8. s = [k \in 1..n |-> CHOOSE l \in S : Cardinality(up(l)) = k]
  BY DEF InOrder, n, up
<1>9. ASSUME NEW k \in 1..n PROVE s[k] \in S /\ Cardinality(up(s[k])) = k
  <2>1. \E l \in S : Cardinality(up(l)) = k
    BY <1>7 DEF Surjection
  <2>. QED
    BY <1>8, <2>1
<1>10. DOMAIN s = 1..n /\ Len(s) = n
  BY <1>1, <1>8
<1>. HIDE DEF s
<1>11. \A j, k \in 1..n : s[j] = s[k] => j = k
  BY <1>9
<1>. QED
  BY <1>1, <1>9, <1>10, <1>11 DEF s, n, Lists

\* Picked() has the elements at the places asked for, and no place twice.
LEMMA PickedIs ==
    ASSUME NEW all, Len(all) \in Nat, NEW keep \in SUBSET (1..Len(all))
    PROVE  LET p == Picked(all, keep)
           IN  /\ Lists(InOrder(keep), keep)
               /\ List(p) /\ Len(p) = Cardinality(keep)
               /\ \A k \in 1..Len(p) : InOrder(keep)[k] \in keep /\ p[k] = all[InOrder(keep)[k]]
<1>. DEFINE order == InOrder(keep)
            p == Picked(all, keep)
<1>1. IsFiniteSet(keep) /\ keep \in SUBSET Int
  <2>1. IsFiniteSet(1..Len(all))
    BY FS_Interval
  <2>2. IsFiniteSet(keep)
    BY <2>1, FS_Subset
  <2>. QED
    BY <2>2
<1>2. Lists(order, keep)
  BY <1>1, InOrderLists
<1>3. p = [k \in 1..Len(order) |-> all[order[k]]]
  BY DEF Picked
<1>. HIDE DEF order, p
<1>4. Len(order) \in Nat /\ Len(order) = Cardinality(keep)
  BY <1>2 DEF Lists
<1>5. Len(p) = Len(order) /\ DOMAIN p = 1..Len(p) /\ \A k \in 1..Len(p) : p[k] = all[order[k]]
  BY <1>3, <1>4
<1>6. List(p)
  BY <1>4, <1>5, <1>3 DEF List
<1>. QED
  BY <1>2, <1>4, <1>5, <1>6 DEF order, p, Lists

\* Of a set of places no more are picked than it has.
LEMMA PickedFew ==
    ASSUME NEW all, Len(all) \in Nat, NEW keep \in SUBSET (1..Len(all)), NEW T \in SUBSET keep,
           NEW K \in SUBSET (1..Cardinality(keep)), \A k \in K : InOrder(keep)[k] \in T
    PROVE  Cardinality(K) <= Cardinality(T)
<1>. DEFINE order == InOrder(keep)
            f == [k \in K |-> order[k]]
<1>1. IsFiniteSet(keep) /\ IsFiniteSet(T)
  <2>1. IsFiniteSet(1..Len(all))
    BY FS_Interval
  <2>. QED
    BY <2>1, FS_Subset
<1>2. Lists(order, keep)
  BY PickedIs
<1>. HIDE DEF order
<1>3. f \in Injection(K, T)
  BY <1>2 DEF Injection, IsInjective, Lists, order
<1>. QED
  BY <1>1, <1>3, FS_Injection

----------------------------------------------------------------------------
(* What is loaded. *)

\* A sample is labelled with its true class, and a synthetic one is as long as
\* it was asked for.
Sample(s) == s = [gt |-> s.gt, truth |-> s.truth, len |-> s.len, src |-> s.src]
Honest(o, s) == Sample(s) /\ s.gt = s.truth /\ (s.src = "synthetic" => s.len = o.len)
AllHonest(o, b) == List(b) /\ \A k \in 1..Len(b) : Honest(o, b[k])

LEMMA HonestConcat ==
    ASSUME NEW o, NEW a, NEW b, AllHonest(o, a), AllHonest(o, b)
    PROVE  AllHonest(o, a \o b)
<1>. DEFINE c == a \o b
<1>1. /\ List(c)
      /\ \A k \in 1..Len(c) : \/ \E j \in 1..Len(a) : c[k] = a[j]
                              \/ \E j \in 1..Len(b) : c[k] = b[j]
  BY ConcatElements DEF AllHonest
<1>. HIDE DEF c
<1>2. \A k \in 1..Len(c) : Honest(o, c[k])
  BY <1>1 DEF AllHonest
<1>. QED
  BY <1>1, <1>2 DEF AllHonest, c

LEMMA HonestFlatten ==
    ASSUME NEW o, NEW seqs, List(seqs), \A i \in 1..Len(seqs) : AllHonest(o, seqs[i])
    PROVE  AllHonest(o, FlattenSeq(seqs))
<1>. DEFINE c == FlattenSeq(seqs)
<1>1. /\ List(c)
      /\ \A k \in 1..Len(c) : \E i \in 1..Len(seqs) : \E j \in 1..Len(seqs[i]) : c[k] = seqs[i][j]
  BY FlattenElements DEF AllHonest
<1>. HIDE DEF c
<1>2. \A k \in 1..Len(c) : Honest(o, c[k])
  BY <1>1 DEF AllHonest
<1>. QED
  BY <1>1, <1>2 DEF AllHonest, c

LEMMA HonestNone == \A o : AllHonest(o, <<>>)
  BY DEF AllHonest, List

LEMMA NpzHonest ==
    ASSUME NEW o \in Options, NEW f \in DOMAIN NpzFiles
    PROVE  AllHonest(o, NpzSamples(o, f))
<1>. DEFINE file == NpzFiles[f]
            S == {k \in 1..Len(file.rows) : KeepRow(file.rows, k, SnrMin, o.cap)}
            kept == InOrder(S)
            row(j) == file.rows[kept[j]]
            rows == LoadNumpyNpz(file, SnrMin, o.cap)
            b == NpzSamples(o, f)
<1>1. file.rows \in Seq(Range(file.rows))
  BY LabelsAssumption
<1>2. Len(file.rows) \in Nat /\ DOMAIN file.rows = 1..Len(file.rows)
  BY <1>1
<1>3. \A k \in 1..Len(file.rows) : /\ file.rows[k].y < Len(file.classes)
                                   /\ file.truth[file.rows[k].of] = file.classes[file.rows[k].y + 1]
  BY <1>2, LabelsAssumption
<1>4. Lists(kept, S)
  <2>1. S \in SUBSET (1..Len(file.rows)) /\ IsFiniteSet(1..Len(file.rows))
    BY <1>2, FS_Interval
  <2>. HIDE DEF S
  <2>2. IsFiniteSet(S)
    BY <2>1, FS_Subset
  <2>3. S \in SUBSET Int
    BY <1>2, <2>1
  <2>. QED
    BY <2>2, <2>3, InOrderLists
<1>5. \A j \in 1..Len(kept) : kept[j] \in 1..Len(file.rows)
  BY <1>4 DEF Lists
<1>6. Len(kept) \in Nat
  BY <1>4 DEF Lists
<1>7. rows = [j \in 1..Len(kept) |->
            [gt |-> IF row(j).y < Len(file.classes) THEN file.classes[row(j).y + 1]
                                                    ELSE ToString(row(j).y),
             snr |-> row(j).snr, len |-> file.len, of |-> row(j).of]]
  BY DEF LoadNumpyNpz
<1>. HIDE DEF kept, rows
<1>8. b = [k \in 1..Len(rows) |->
             [gt |-> rows[k].gt, truth |-> file.truth[rows[k].of], len |-> rows[k].len, src |-> f]]
  BY DEF NpzSamples, Tagged, rows
<1>9. Len(rows) = Len(kept)
  BY <1>6, <1>7
<1>10. ASSUME NEW k \in 1..Len(kept) PROVE rows[k].gt = file.truth[rows[k].of]
  <2>1. rows[k].gt = file.classes[row(k).y + 1] /\ rows[k].of = row(k).of
    BY <1>3, <1>5, <1>7
  <2>. QED
    BY <1>3, <1>5, <2>1
<1>. HIDE DEF b, file
<1>11. List(b) /\ Len(b) = Len(rows)
  BY <1>6, <1>8, <1>9 DEF List
<1>12. f # "synthetic"
  BY SourcesAssumption, SMTT(30)
<1>13. \A k \in 1..Len(b) : Honest(o, b[k])
  BY <1>8, <1>9, <1>10, <1>11, <1>12 DEF Honest, Sample
<1>. QED
  BY <1>11, <1>13 DEF AllHonest, b

LEMMA MadeList ==
    ASSUME NEW n \in Nat, NEW b, DOMAIN b = 1..n, b = [k \in 1..n |-> b[k]]
    PROVE  List(b) /\ Len(b) = n
  BY DEF List

\* Rows that are their own truth.
LEMMA OwnHonest ==
    ASSUME NEW o, NEW rows, NEW src, List(rows),
           src = "synthetic" => \A k \in 1..Len(rows) : rows[k].len = o.len
    PROVE  AllHonest(o, Tagged(rows, Own, src))
<1>. DEFINE b == Tagged(rows, Own, src)
<1>1. b = [k \in 1..Len(rows) |->
             [gt |-> rows[k].gt, truth |-> rows[k].gt, len |-> rows[k].len, src |-> src]]
  BY DEF Tagged, Own
<1>. HIDE DEF b
<1>2. Len(rows) \in Nat
  BY ListIs
<1>3. List(b) /\ Len(b) = Len(rows)
  BY <1>1, <1>2, MadeList
<1>4. \A k \in 1..Len(b) : Honest(o, b[k])
  BY <1>1, <1>3 DEF Honest, Sample
<1>. QED
  BY <1>3, <1>4 DEF AllHonest, b

LEMMA Radioml2016Lists ==
    ASSUME NEW keys, Len(keys) \in Nat, NEW cap \in Nat, \A k \in 1..Len(keys) : keys[k].n \in Nat
    PROVE  List(LoadRadioml2016(keys, SnrMin, cap))
<1>. DEFINE part(k) == IF TooNoisy(keys[k].snr, SnrMin) THEN <<>>
                       ELSE [e \in 1..Lesser(keys[k].n, cap) |->
                               [gt |-> keys[k].mod, snr |-> keys[k].snr, len |-> 128,
                                from |-> 128 * (e - 1), seg |-> e - 1]]
            seqs == [k \in 1..Len(keys) |-> part(k)]
<1>1. ASSUME NEW k \in 1..Len(keys) PROVE List(part(k))
  <2>1. Lesser(keys[k].n, cap) \in Nat
    BY DEF Lesser
  <2>2. CASE TooNoisy(keys[k].snr, SnrMin)
    BY <2>2 DEF List
  <2>3. CASE ~TooNoisy(keys[k].snr, SnrMin)
    BY <2>1, <2>3 DEF List
  <2>. QED
    BY <2>2, <2>3
<1>2. LoadRadioml2016(keys, SnrMin, cap) = FlattenSeq(seqs)
  BY DEF LoadRadioml2016
<1>. HIDE DEF part
<1>3. List(seqs) /\ Len(seqs) = Len(keys) /\ \A k \in 1..Len(keys) : seqs[k] = part(k)
  BY DEF List
<1>. HIDE DEF seqs
<1>. QED
  BY <1>1, <1>2, <1>3, FlattenElements

LEMMA RadioModsFinite == IsFiniteSet(RADIOML_2018_MODS)
<1>. DEFINE g == <<"OOK", "4ASK", "8ASK", "BPSK", "QPSK", "8PSK", "16PSK", "32PSK", "16APSK", "32APSK",
                   "64APSK", "128APSK", "16QAM", "32QAM", "64QAM", "128QAM", "256QAM", "AM-SSB-WC",
                   "AM-SSB-SC", "AM-DSB-WC", "AM-DSB-SC", "FM", "GMSK", "OQPSK">>
<1>1. g \in Seq(RADIOML_2018_MODS) /\ Len(g) = 24
  BY DEF RADIOML_2018_MODS
<1>2. RADIOML_2018_MODS \subseteq {g[i] : i \in 1..24}
  BY DEF RADIOML_2018_MODS
<1>3. IsFiniteSet(1..24)
  <2>1. \A n \in Nat : IsFiniteSet(1..n)
    BY FS_Interval
  <2>. QED
    BY <2>1
<1>. HIDE DEF g
<1>4. g \in Surjection(1..24, RADIOML_2018_MODS)
  <2>1. \A n \in Nat : Len(g) = n => g \in [1..n -> RADIOML_2018_MODS]
    BY <1>1
  <2>2. g \in [1..24 -> RADIOML_2018_MODS]
    BY <1>1, <2>1
  <2>. QED
    BY <1>2, <2>2, Zenon DEF Surjection
<1>. QED
  BY <1>3, <1>4, FS_Surjection

LEMMA Radioml2018Lists ==
    ASSUME NEW rows, Len(rows) \in Nat, NEW cap \in Nat
    PROVE  List(LoadRadioml2018(rows, SnrMin, cap))
<1>. DEFINE scanned == 1..Lesser(Len(rows), cap * Cardinality(RADIOML_2018_MODS))
            S == {k \in scanned : ~TooNoisy(rows[k].snr, SnrMin)}
            kept == InOrder(S)
<1>1. Lists(kept, S)
  <2>. DEFINE limit == cap * Cardinality(RADIOML_2018_MODS)
  <2>. HIDE DEF limit
  <2>0. S \subseteq 1..Lesser(Len(rows), limit)
    BY DEF limit
  <2>1. S \in SUBSET Int
    BY <2>0
  <2>2. Lesser(Len(rows), limit) \in {Len(rows), limit}
    BY DEF Lesser
  <2>. HIDE DEF S, scanned
  <2>3. IsFiniteSet(S)
    <3>1. Cardinality(RADIOML_2018_MODS) \in Nat
      BY RadioModsFinite, FS_CardinalityType
    <3>2. limit \in Nat
      BY <3>1 DEF limit
    <3>3. Lesser(Len(rows), limit) \in Nat
      BY <2>2, <3>2
    <3>4. IsFiniteSet(1..Lesser(Len(rows), limit))
      BY <3>3, FS_Interval
    <3>. QED
      BY <2>0, <3>4, FS_Subset
  <2>. QED
    BY <2>1, <2>3, InOrderLists
<1>2. Len(kept) \in Nat
  BY <1>1 DEF Lists
<1>3. LoadRadioml2018(rows, SnrMin, cap) =
        [j \in 1..Len(kept) |->
            [gt |-> rows[kept[j]].mod, snr |-> rows[kept[j]].snr, len |-> 1024,
             from |-> 1024 * (kept[j] - 1), seg |-> kept[j] - 1]]
  BY DEF LoadRadioml2018
<1>. HIDE DEF kept
<1>. QED
  BY <1>2, <1>3, MadeList

LEMMA RadioHonest ==
    ASSUME NEW o \in Options, o.data # NoFile
    PROVE  AllHonest(o, RadioSamples(o))
<1>. DEFINE f == RadioFiles[o.data]
            rows == IF f.version = "2016" THEN LoadRadioml2016(f.rows, SnrMin, o.cap)
                    ELSE LoadRadioml2018(f.rows, SnrMin, o.cap)
<1>1. o.data \in DOMAIN RadioFiles /\ o.cap \in Nat /\ o.data # "synthetic"
  BY SourcesAssumption
<1>2. f.rows \in Seq(Range(f.rows))
  BY <1>1, SourcesAssumption
<1>3. Len(f.rows) \in Nat /\ DOMAIN f.rows = 1..Len(f.rows)
  BY <1>2
<1>4. f.version = "2016" => \A k \in 1..Len(f.rows) : f.rows[k].n \in Nat
  BY <1>1, <1>3, SourcesAssumption
<1>5. List(rows)
  BY <1>1, <1>3, <1>4, Radioml2016Lists, Radioml2018Lists
<1>6. RadioSamples(o) = Tagged(rows, Own, o.data)
  BY DEF RadioSamples
<1>. HIDE DEF rows
<1>. QED
  BY <1>1, <1>5, <1>6, OwnHonest

\* The generators make exactly as many samples as they are asked for.
LEMMA LengthIsAsked ==
    ASSUME NEW mod \in SyntheticMods, NEW n \in Nat
    PROVE  SyntheticLength(mod, n) = n
<1>1. CASE mod = "CSS"
  <2>1. SyntheticUnit(mod) = 2048
    BY <1>1 DEF SyntheticUnit
  <2>2. (n \div 2048 + 1) * 2048 \in Nat /\ n < (n \div 2048 + 1) * 2048
    OBVIOUS
  <2>3. CssLength(n, 2048) = n
    BY <2>2 DEF CssLength, CutAt, Lesser
  <2>. QED
    BY <1>1, <2>1, <2>3 DEF SyntheticLength
<1>2. CASE mod = "OFDM"
  <2>1. SyntheticUnit(mod) = 80
    BY <1>2 DEF SyntheticUnit
  <2>2. ((n + 80 - 1) \div 80) * 80 \in Nat /\ n <= ((n + 80 - 1) \div 80) * 80
    OBVIOUS
  <2>3. OfdmLength(n, 80) = n
    BY <2>2 DEF OfdmLength, CutAt, Lesser
  <2>. QED
    BY <1>2, <2>1, <2>3 DEF SyntheticLength
<1>3. CASE mod \notin {"CSS", "OFDM"}
  <2>1. SyntheticUnit(mod) \in {8, 1, 20, 10}
    BY <1>3 DEF SyntheticUnit, SyntheticMods
  <2>2. ASSUME NEW u \in {8, 1, 20, 10} PROVE RepeatedLength(n, u) = n
    <3>1. (n \div 8 + 1) * 8 \in Nat /\ n < (n \div 8 + 1) * 8
      OBVIOUS
    <3>2. (n \div 1 + 1) * 1 \in Nat /\ n < (n \div 1 + 1) * 1
      OBVIOUS
    <3>3. (n \div 20 + 1) * 20 \in Nat /\ n < (n \div 20 + 1) * 20
      OBVIOUS
    <3>4. (n \div 10 + 1) * 10 \in Nat /\ n < (n \div 10 + 1) * 10
      OBVIOUS
    <3>5. (n \div u + 1) * u \in Nat /\ n < (n \div u + 1) * u
      BY <3>1, <3>2, <3>3, <3>4
    <3>. QED
      BY <3>5 DEF RepeatedLength, CutAt, Lesser
  <2>3. SyntheticLength(mod, n) = RepeatedLength(n, SyntheticUnit(mod))
    BY <1>3 DEF SyntheticLength
  <2>. QED
    BY <2>1, <2>2, <2>3
<1>. QED
  BY <1>1, <1>2, <1>3

LEMMA SyntheticLists ==
    ASSUME NEW perClass \in Nat, NEW n \in Nat
    PROVE  LET b == GenerateSynthetic(SyntheticSeq, SynthSnrs, perClass, n)
           IN  List(b) /\ \A k \in 1..Len(b) : b[k].len = n
<1>. DEFINE mods == SyntheticSeq
            b == GenerateSynthetic(mods, SynthSnrs, perClass, n)
            run(m, s) == [e \in 1..perClass |-> [gt |-> mods[m], snr |-> SynthSnrs[s],
                                                 len |-> SyntheticLength(mods[m], n)]]
            runs(m) == [s \in 1..Len(SynthSnrs) |-> run(m, s)]
            part(m) == IF mods[m] \notin SyntheticMods THEN <<>> ELSE FlattenSeq(runs(m))
            seqs == [m \in 1..Len(mods) |-> part(m)]
<1>0. Len(SyntheticSeq) \in Nat
  BY DEF SyntheticSeq
<1>. HIDE DEF mods
<1>1. b = FlattenSeq(seqs)
  BY DEF GenerateSynthetic
<1>2. ASSUME NEW m \in 1..Len(mods)
      PROVE  List(part(m)) /\ \A j \in 1..Len(part(m)) : part(m)[j].len = n
  <2>1. CASE mods[m] \notin SyntheticMods
    <3>1. part(m) = <<>>
      BY <2>1
    <3>. HIDE DEF part
    <3>. QED
      BY <3>1 DEF List
  <2>2. CASE mods[m] \in SyntheticMods
    <3>1. part(m) = FlattenSeq(runs(m))
      BY <2>2
    <3>2. SyntheticLength(mods[m], n) = n
      BY <2>2, LengthIsAsked
    <3>3. ASSUME NEW s \in 1..Len(SynthSnrs)
          PROVE  List(run(m, s)) /\ \A j \in 1..Len(run(m, s)) : run(m, s)[j].len = n
      <4>. DEFINE r == run(m, s)
      <4>1. DOMAIN r = 1..perClass /\ r = [e \in 1..perClass |-> r[e]]
        OBVIOUS
      <4>2. \A e \in 1..perClass : r[e].len = n
        BY <3>2
      <4>. HIDE DEF r
      <4>3. List(r) /\ Len(r) = perClass
        BY <4>1, MadeList
      <4>. QED
        BY <4>2, <4>3 DEF r
    <3>. HIDE DEF run, part
    <3>4. List(runs(m)) /\ Len(runs(m)) = Len(SynthSnrs)
          /\ \A s \in 1..Len(SynthSnrs) : runs(m)[s] = run(m, s)
      BY SourcesAssumption DEF List
    <3>. HIDE DEF runs
    <3>5. \A s \in 1..Len(runs(m)) : List(runs(m)[s])
      BY <3>3, <3>4
    <3>6. /\ List(part(m))
          /\ \A k \in 1..Len(part(m)) : \E s \in 1..Len(runs(m)) : \E j \in 1..Len(runs(m)[s]) :
                part(m)[k] = runs(m)[s][j]
      <4>. DEFINE all == FlattenSeq(runs(m))
      <4>1. /\ List(all)
            /\ \A k \in 1..Len(all) : \E s \in 1..Len(runs(m)) : \E j \in 1..Len(runs(m)[s]) :
                  all[k] = runs(m)[s][j]
        BY <3>4, <3>5, FlattenElements
      <4>. QED
        BY <3>1, <4>1, ZenonT(30)
    <3>. QED
      BY <3>3, <3>4, <3>6
  <2>. QED
    BY <2>1, <2>2
<1>. HIDE DEF part
<1>3. List(seqs) /\ Len(seqs) = Len(mods) /\ \A m \in 1..Len(mods) : seqs[m] = part(m)
  BY <1>0 DEF List, mods
<1>. HIDE DEF seqs
<1>4. /\ List(b)
      /\ \A k \in 1..Len(b) : \E m \in 1..Len(seqs) : \E j \in 1..Len(seqs[m]) : b[k] = seqs[m][j]
  BY <1>1, <1>2, <1>3, FlattenElements
<1>. HIDE DEF b
<1>5. ASSUME NEW k \in 1..Len(b) PROVE b[k].len = n
  <2>1. PICK m \in 1..Len(seqs) : \E j \in 1..Len(seqs[m]) : b[k] = seqs[m][j]
    BY <1>4
  <2>2. m \in 1..Len(mods) /\ seqs[m] = part(m)
    BY <1>3, <2>1
  <2>. QED
    BY <1>2, <2>1, <2>2
<1>. QED
  BY <1>4, <1>5 DEF b, mods

LEMMA LoadedHonest ==
    ASSUME NEW o \in Options
    PROVE  AllHonest(o, Loaded[o])
<1>. DEFINE radio == IF o.data = NoFile THEN <<>> ELSE RadioSamples(o)
            part(k) == NpzSamples(o, o.npz[k])
            seqs == [k \in 1..Len(o.npz) |-> part(k)]
            gen == GenerateSynthetic(SyntheticSeq, SynthSnrs, o.synthetic, o.len)
            made == IF o.synthetic = 0 THEN <<>> ELSE Tagged(gen, Own, "synthetic")
<1>1. AllHonest(o, radio)
  BY HonestNone, RadioHonest
<1>2. AllHonest(o, FlattenSeq(seqs))
  <2>1. o.npz \in Seq(DOMAIN NpzFiles)
    BY SourcesAssumption
  <2>2. Len(o.npz) \in Nat /\ \A k \in 1..Len(o.npz) : o.npz[k] \in DOMAIN NpzFiles
    BY <2>1
  <2>3. \A k \in 1..Len(o.npz) : AllHonest(o, part(k))
    BY <2>2, NpzHonest
  <2>. HIDE DEF part
  <2>4. List(seqs) /\ Len(seqs) = Len(o.npz) /\ \A k \in 1..Len(o.npz) : seqs[k] = part(k)
    BY <2>2 DEF List
  <2>. HIDE DEF seqs
  <2>. QED
    BY <2>3, <2>4, HonestFlatten
<1>3. AllHonest(o, made)
  <2>1. List(gen) /\ \A k \in 1..Len(gen) : gen[k].len = o.len
    BY SourcesAssumption, SyntheticLists
  <2>. HIDE DEF gen
  <2>2. AllHonest(o, Tagged(gen, Own, "synthetic"))
    BY <2>1, OwnHonest
  <2>. QED
    BY <2>2, HonestNone
<1>4. Loaded[o] = radio \o FlattenSeq(seqs) \o made
  BY DEF Loaded, AllSamples
<1>. HIDE DEF radio, seqs, made
<1>. QED
  BY <1>1, <1>2, <1>3, <1>4, HonestConcat

----------------------------------------------------------------------------
(* What is made of it. *)

\* A sample labelled for the model: with its true class or family, and of the
\* family asked for.
Chosen(o, s) ==
    /\ Sample(s)
    /\ s.gt = TrueLabel(o, s.truth)
    /\ Specialist(o) => FamilyOf(s.truth) = o.family
AllChosen(o, b) == List(b) /\ \A k \in 1..Len(b) : Chosen(o, b[k])

LEMMA KeptChosen ==
    ASSUME NEW o \in Options, ValidOptions(o)
    PROVE  AllChosen(o, Kept[o])
<1>. DEFINE all == Loaded[o]
            ofFamily == {k \in 1..Len(all) : FamilyOf(all[k].gt) = o.family}
            mapped == {k \in 1..Len(all) : FamilyIndex(all[k].gt) # -1}
            kept == Picked(all, mapped)
<1>0. Kept[o] = Selected(o, all)
  BY DEF Kept
<1>1. AllHonest(o, all)
  BY LoadedHonest
<1>. HIDE DEF all
<1>2. Len(all) \in Nat /\ DOMAIN all = 1..Len(all)
  BY <1>1, ListIs DEF AllHonest
<1>3. CASE Specialist(o)
  <2>. DEFINE b == Picked(all, ofFamily)
  <2>1. Kept[o] = b /\ ~o.router
    BY <1>0, <1>3 DEF Selected, ValidOptions
  <2>2. ofFamily \in SUBSET (1..Len(all))
    OBVIOUS
  <2>3. /\ List(b)
        /\ \A k \in 1..Len(b) : InOrder(ofFamily)[k] \in ofFamily /\ b[k] = all[InOrder(ofFamily)[k]]
    BY <1>2, <2>2, PickedIs
  <2>. HIDE DEF b
  <2>4. ASSUME NEW k \in 1..Len(b) PROVE Chosen(o, b[k])
    <3>1. PICK j \in ofFamily : b[k] = all[j]
      BY <2>3
    <3>2. j \in 1..Len(all) /\ FamilyOf(all[j].gt) = o.family /\ Honest(o, all[j])
      BY <1>1, <3>1 DEF AllHonest
    <3>. QED
      BY <2>1, <3>1, <3>2 DEF Chosen, Honest, TrueLabel
  <2>. QED
    BY <2>1, <2>3, <2>4 DEF AllChosen
<1>4. CASE ~Specialist(o) /\ o.router
  <2>. DEFINE b == [k \in 1..Len(kept) |-> [kept[k] EXCEPT !.gt = FamilyOf(@)]]
  <2>1. Kept[o] = b
    BY <1>0, <1>4 DEF Selected
  <2>2. mapped \in SUBSET (1..Len(all))
    OBVIOUS
  <2>3. /\ List(kept)
        /\ \A k \in 1..Len(kept) : InOrder(mapped)[k] \in mapped /\ kept[k] = all[InOrder(mapped)[k]]
    BY <1>2, <2>2, PickedIs
  <2>. HIDE DEF kept
  <2>4. Len(kept) \in Nat
    BY <2>3, ListIs
  <2>5. DOMAIN b = 1..Len(kept) /\ b = [k \in 1..Len(kept) |-> b[k]]
    OBVIOUS
  <2>6. List(b) /\ Len(b) = Len(kept)
    <3>. HIDE DEF b
    <3>. QED
      BY <2>4, <2>5, MadeList
  <2>7. ASSUME NEW k \in 1..Len(kept) PROVE Chosen(o, b[k])
    <3>1. PICK j \in 1..Len(all) : kept[k] = all[j]
      BY <2>3
    <3>2. Honest(o, kept[k])
      BY <1>1, <3>1 DEF AllHonest
    <3>3. b[k] = [kept[k] EXCEPT !.gt = FamilyOf(@)]
      OBVIOUS
    <3>. DEFINE s == kept[k]
                t == b[k]
    <3>4. /\ s = [gt |-> s.gt, truth |-> s.truth, len |-> s.len, src |-> s.src] /\ s.gt = s.truth
          /\ t = [s EXCEPT !.gt = FamilyOf(@)]
      BY <3>2, <3>3 DEF Honest, Sample
    <3>. HIDE DEF s, t
    <3>5. t = [gt |-> FamilyOf(s.gt), truth |-> s.truth, len |-> s.len, src |-> s.src]
      BY <3>4
    <3>6. Chosen(o, t)
      BY <1>4, <3>4, <3>5 DEF Chosen, Sample, TrueLabel
    <3>. QED
      BY <3>6 DEF t
  <2>. QED
    BY <2>1, <2>6, <2>7 DEF AllChosen
<1>5. CASE ~Specialist(o) /\ ~o.router
  <2>1. Kept[o] = all
    BY <1>0, <1>5 DEF Selected
  <2>2. \A k \in 1..Len(all) : Chosen(o, all[k])
    BY <1>1, <1>5 DEF AllHonest, Honest, Chosen, TrueLabel
  <2>. QED
    BY <1>1, <2>1, <2>2 DEF AllChosen, AllHonest
<1>. QED
  BY <1>3, <1>4, <1>5

\* The places of the samples with a label, and whether they keep to the cap.
PlacesOf(b, c) == {k \in 1..Len(b) : b[k].gt = c}
Fits(o, b) == o.cap > 0 => \A c : Cardinality(PlacesOf(b, c)) <= o.cap

LEMMA PlacesFinite ==
    ASSUME NEW b, Len(b) \in Nat, NEW c
    PROVE  IsFiniteSet(PlacesOf(b, c)) /\ Cardinality(PlacesOf(b, c)) \in Nat
<1>1. PlacesOf(b, c) \in SUBSET (1..Len(b))
  BY DEF PlacesOf
<1>2. IsFiniteSet(1..Len(b))
  BY FS_Interval
<1>. QED
  BY <1>1, <1>2, FS_Subset, FS_CardinalityType

LEMMA CappedIs ==
    ASSUME NEW o \in Options, NEW all, AllChosen(o, all), NEW b \in Capped(o, all)
    PROVE  AllChosen(o, b) /\ Fits(o, b)
<1>. DEFINE of(k) == {j \in 1..Len(all) : all[j].gt = all[k].gt}
            fits(keep) == \A k \in 1..Len(all) :
                             Cardinality(keep \intersect of(k)) = Lesser(Cardinality(of(k)), o.cap)
<1>0. o.cap \in Nat
  BY SourcesAssumption
<1>1. CASE o.cap = 0
  <2>1. b = all
    BY <1>1 DEF Capped
  <2>. QED
    BY <1>1, <2>1 DEF Fits
<1>2. CASE o.cap # 0
  <2>1. PICK keep \in SUBSET (1..Len(all)) : fits(keep) /\ b = Picked(all, keep)
    BY <1>2 DEF Capped
  <2>2. Len(all) \in Nat
    BY ListIs DEF AllChosen
  <2>3. /\ Lists(InOrder(keep), keep)
        /\ List(b) /\ Len(b) = Cardinality(keep)
        /\ \A k \in 1..Len(b) : InOrder(keep)[k] \in keep /\ b[k] = all[InOrder(keep)[k]]
    BY <2>1, <2>2, PickedIs
  <2>4. \A k \in 1..Len(b) : Chosen(o, b[k])
    BY <2>3 DEF AllChosen
  <2>5. ASSUME NEW c PROVE Cardinality(PlacesOf(b, c)) <= o.cap
    <3>1. CASE PlacesOf(b, c) = {}
      BY <1>0, <3>1, FS_EmptySet
    <3>2. CASE PlacesOf(b, c) # {}
      <4>1. PICK k \in 1..Len(b) : b[k].gt = c
        BY <3>2 DEF PlacesOf
      <4>2. PICK l \in 1..Len(all) : all[l].gt = c
        BY <2>3, <4>1
      <4>. DEFINE T == keep \intersect of(l)
      <4>3. \A j \in PlacesOf(b, c) : InOrder(keep)[j] \in T
        BY <2>3, <4>2 DEF PlacesOf
      <4>4. Cardinality(T) = Lesser(Cardinality(of(l)), o.cap)
        BY <2>1, <4>2
      <4>5. T \in SUBSET keep /\ IsFiniteSet(T) /\ of(l) = PlacesOf(all, c)
        <5>1. IsFiniteSet(1..Len(all)) /\ T \in SUBSET (1..Len(all))
          BY <2>2, FS_Interval
        <5>2. IsFiniteSet(T)
          BY <5>1, FS_Subset
        <5>. QED
          BY <4>2, <5>2 DEF PlacesOf
      <4>. HIDE DEF T, of
      <4>6. Cardinality(PlacesOf(b, c)) <= Cardinality(T)
        <5>1. PlacesOf(b, c) \in SUBSET (1..Cardinality(keep))
          BY <2>3 DEF PlacesOf
        <5>. QED
          BY <2>2, <4>3, <4>5, <5>1, PickedFew
      <4>7. Cardinality(of(l)) \in Nat /\ Cardinality(T) \in Nat
        BY <2>2, <4>5, PlacesFinite, FS_CardinalityType
      <4>8. Cardinality(T) <= o.cap
        BY <1>0, <4>4, <4>7 DEF Lesser
      <4>9. Cardinality(PlacesOf(b, c)) \in Nat
        BY <2>3, ListIs, PlacesFinite
      <4>. QED
        BY <1>0, <4>6, <4>7, <4>8, <4>9
    <3>. QED
      BY <3>1, <3>2
  <2>. QED
    BY <2>3, <2>4, <2>5 DEF AllChosen, Fits
<1>. QED
  BY <1>1, <1>2

\* Rows of X: a sample for the model, numbered with its label.
Numbered(o, names, X) ==
    /\ \A k \in DOMAIN X : names[X[k].y] = X[k].of.gt /\ Chosen(o, X[k].of)
    /\ o.cap > 0 => \A i \in DOMAIN names : Cardinality({k \in DOMAIN X : X[k].y = i}) <= o.cap

LEMMA TensorsNumbered ==
    ASSUME NEW o \in Options, NEW all, AllChosen(o, all), Fits(o, all), NEW names
    PROVE  Numbered(o, names, Tensors(all, names))
<1>. DEFINE keep == {k \in 1..Len(all) : \E i \in DOMAIN names : names[i] = all[k].gt}
            kept == Labelled(all, names)
            X == Tensors(all, names)
<1>0. o.cap \in Nat
  BY SourcesAssumption
<1>1. X = [k \in 1..Len(kept) |-> [y |-> IndexOf(names, kept[k].gt), of |-> kept[k]]]
  BY DEF Tensors
<1>2. Len(all) \in Nat /\ keep \in SUBSET (1..Len(all))
  BY ListIs DEF AllChosen
<1>3. /\ List(kept) /\ Len(kept) = Cardinality(keep)
      /\ \A k \in 1..Len(kept) : InOrder(keep)[k] \in keep /\ kept[k] = all[InOrder(keep)[k]]
  BY <1>2, PickedIs, ZenonT(30) DEF Labelled
<1>. HIDE DEF kept, X
<1>4. Len(kept) \in Nat /\ DOMAIN X = 1..Len(kept)
  BY <1>1, <1>3, ListIs
<1>5. ASSUME NEW k \in 1..Len(kept)
      PROVE  /\ X[k].y \in DOMAIN names /\ names[X[k].y] = kept[k].gt
             /\ X[k].of = kept[k] /\ Chosen(o, kept[k])
  <2>1. PICK j \in keep : kept[k] = all[j]
    BY <1>3
  <2>2. \E i \in DOMAIN names : names[i] = kept[k].gt
    BY <2>1
  <2>3. X[k].y = IndexOf(names, kept[k].gt) /\ X[k].of = kept[k]
    BY <1>1
  <2>4. X[k].y \in DOMAIN names /\ names[X[k].y] = kept[k].gt
    BY <2>2, <2>3 DEF IndexOf
  <2>5. j \in 1..Len(all)
    BY <1>2, <2>1
  <2>. QED
    BY <2>1, <2>3, <2>4, <2>5 DEF AllChosen
<1>6. ASSUME o.cap > 0, NEW i \in DOMAIN names
      PROVE  Cardinality({k \in DOMAIN X : X[k].y = i}) <= o.cap
  <2>. DEFINE K == {k \in DOMAIN X : X[k].y = i}
              T == keep \intersect PlacesOf(all, names[i])
  <2>1. K \in SUBSET (1..Cardinality(keep))
    BY <1>3, <1>4
  <2>2. \A k \in K : InOrder(keep)[k] \in T
    <3>. SUFFICES ASSUME NEW k \in K PROVE InOrder(keep)[k] \in T
      OBVIOUS
    <3>1. k \in 1..Len(kept) /\ kept[k].gt = names[i]
      BY <1>4, <1>5
    <3>. QED
      BY <1>2, <1>3, <3>1 DEF PlacesOf
  <2>3. IsFiniteSet(PlacesOf(all, names[i])) /\ Cardinality(PlacesOf(all, names[i])) \in Nat
    BY <1>2, PlacesFinite
  <2>4. T \in SUBSET keep /\ T \in SUBSET PlacesOf(all, names[i])
    OBVIOUS
  <2>. HIDE DEF K, T, keep
  <2>5. Cardinality(K) <= Cardinality(T)
    BY <1>2, <2>1, <2>2, <2>4, PickedFew
  <2>6. Cardinality(T) \in Nat /\ Cardinality(T) <= Cardinality(PlacesOf(all, names[i]))
    BY <2>3, <2>4, FS_Subset, FS_CardinalityType
  <2>7. Cardinality(PlacesOf(all, names[i])) <= o.cap
    BY <1>6 DEF Fits
  <2>8. Cardinality(K) \in Nat
    <3>0. Cardinality(keep) \in Nat
      BY <1>3, <1>4
    <3>1. IsFiniteSet(1..Cardinality(keep))
      BY <3>0, FS_Interval
    <3>. QED
      BY <2>1, <3>1, FS_Subset, FS_CardinalityType
  <2>. QED
    BY <1>0, <2>3, <2>5, <2>6, <2>7, <2>8 DEF K
<1>. QED
  BY <1>4, <1>5, <1>6 DEF Numbered, X

\* The labels of the holdout, renumbered for the model, are those of its rows.
LEMMA HoldoutHonest ==
    ASSUME NEW o \in Options, o.val # NoFile, NEW names
    PROVE  \A p \in Holdout(o, names) : names[p[1]] = p[2]
<1>. DEFINE f == NpzFiles[o.val]
            name(k) == HoldoutName(o, f.classes[f.rows[k].y + 1])
            truth(k) == HoldoutName(o, f.truth[f.rows[k].of])
            known == {k \in DOMAIN f.rows : \E i \in DOMAIN names : names[i] = name(k)}
<1>1. o.val \in DOMAIN NpzFiles
  BY SourcesAssumption
<1>2. \A k \in DOMAIN f.rows : truth(k) = name(k)
  BY <1>1, LabelsAssumption
<1>. HIDE DEF name, truth, f
<1>3. \A k \in known : names[IndexOf(names, name(k))] = truth(k)
  BY <1>2 DEF IndexOf
<1>4. Holdout(o, names) = {<<IndexOf(names, name(k)), truth(k)>> : k \in known}
  BY DEF Holdout, name, truth, f
<1>. HIDE DEF known
<1>. QED
  BY <1>3, <1>4

\* What is in the variables of build_tensors() while it runs.
RowsInv ==
    /\ pc = "idle" => classes = <<>>
    /\ pc \in {"load", "select", "tensors", "split", "build"} => ValidOptions(opt)
    /\ pc = "select" => samples = Loaded[opt]
    /\ pc = "tensors" => samples \in Draws[opt]
    /\ pc \in {"split", "build"} => Numbered(opt, classes, data)
    /\ pc \notin {"split", "build"} => data = <<>>

LEMMA NextRowsInv == TypeOK /\ RowsInv /\ [Next]_vars => RowsInv'
<1>. SUFFICES ASSUME TypeOK, RowsInv, [Next]_vars PROVE RowsInv'
  OBVIOUS
<1>1. ASSUME Blank, pc' = "idle" PROVE RowsInv'
  BY <1>1 DEF Blank, RowsInv
<1>2. ASSUME Fail PROVE RowsInv'
  BY <1>1, <1>2 DEF Fail
<1>3. CASE UNCHANGED vars
  BY <1>3 DEF RowsInv, vars, opt
<1>4. CASE StartScript
  BY <1>4 DEF StartScript, RowsInv, sourceVars
<1>5. CASE Start
  <2>1. CASE ~Fail
    BY <1>5, <2>1 DEF Start, RowsInv, runVars, sourceVars, opt
  <2>. QED
    BY <1>2, <2>1
<1>6. CASE Load
  <2>1. CASE ~Fail
    BY <1>6, <2>1 DEF Load, RowsInv, runVars, opt
  <2>. QED
    BY <1>2, <2>1
<1>7. CASE Select
  <2>1. CASE ~Fail
    BY <1>7, <2>1 DEF Select, RowsInv, runVars, opt
  <2>. QED
    BY <1>2, <2>1
<1>8. CASE MakeTensors
  <2>1. CASE ~Fail
    <3>1. /\ pc = "tensors" /\ pc' = "split" /\ script' = script /\ classes' = classes
          /\ data' = Tensors(samples, classes)
      BY <1>8, <2>1 DEF MakeTensors, runVars
    <3>2. opt \in Options /\ opt' = opt
      BY <3>1, OptType DEF TypeOK, opt
    <3>3. ValidOptions(opt) /\ samples \in Capped(opt, Kept[opt])
      BY <3>1, <3>2 DEF RowsInv, Draws
    <3>4. AllChosen(opt, samples) /\ Fits(opt, samples)
      BY <3>2, <3>3, KeptChosen, CappedIs
    <3>5. Numbered(opt, classes, Tensors(samples, classes))
      BY <3>2, <3>4, TensorsNumbered
    <3>6. Numbered(opt', classes', data')
      BY <3>1, <3>2, <3>5
    <3>. QED
      BY <3>1, <3>2, <3>3, <3>6 DEF RowsInv
  <2>. QED
    BY <1>2, <2>1
<1>9. CASE Split
  BY <1>9 DEF Split, RowsInv, sourceVars, runVars, opt
<1>10. CASE Build
  <2>1. CASE ~Fail
    BY <1>10, <2>1 DEF Build, RowsInv, runVars
  <2>. QED
    BY <1>2, <2>1
<1>11. CASE Floor \/ SaveBest \/ Epoch \/ EndTraining \/ Export \/ SaveNames
  BY <1>11 DEF Floor, SaveBest, Epoch, EndTraining, Export, SaveNames, RowsInv, sourceVars
<1>12. CASE Report
  <2>1. CASE ~Fail
    BY <1>12, <2>1 DEF Report, RowsInv, sourceVars
  <2>. QED
    BY <1>2, <2>1
<1>13. CASE NextTraining \/ Crash
  BY <1>1, <1>13 DEF NextTraining, Crash
<1>. QED
  BY <1>3, <1>4, <1>5, <1>6, <1>7, <1>8, <1>9, <1>10, <1>11, <1>12, <1>13 DEF Next, Step

LEMMA InvRows == TypeOK /\ DomainAligned /\ RowsInv => RowsSound
<1>. SUFFICES ASSUME TypeOK, DomainAligned, RowsInv PROVE RowsSound
  OBVIOUS
<1>1. LabelsHonest
  <2>1. ASSUME NEW k \in DOMAIN data
        PROVE  /\ classes[data[k].y] = TrueLabel(opt, data[k].of.truth)
               /\ Specialist(opt) => FamilyOf(data[k].of.truth) = opt.family
    <3>1. pc \in {"split", "build"}
      BY <2>1 DEF RowsInv
    <3>2. Numbered(opt, classes, data)
      BY <3>1 DEF RowsInv
    <3>. QED
      BY <3>2 DEF Numbered, Chosen
  <2>2. ASSUME pc = "build", opt.val # NoFile
        PROVE  \A p \in Holdout(opt, classes) : classes[p[1]] = p[2]
    <3>1. opt \in Options
      BY <2>2, OptType DEF TypeOK
    <3>. QED
      BY <2>2, <3>1, HoldoutHonest
  <2>. QED
    BY <2>1, <2>2 DEF LabelsHonest
<1>2. CapHolds
  <2>. SUFFICES ASSUME NEW i \in DOMAIN classes, opt.cap > 0
                PROVE  Cardinality({k \in DOMAIN data : data[k].y = i}) <= opt.cap
    BY DEF CapHolds
  <2>1. pc # "idle"
    BY DEF RowsInv
  <2>2. opt \in Options
    BY <2>1, OptType DEF TypeOK
  <2>3. CASE pc \in {"split", "build"}
    BY <2>3 DEF RowsInv, Numbered
  <2>4. CASE pc \notin {"split", "build"}
    <3>1. {k \in DOMAIN data : data[k].y = i} = {}
      BY <2>4 DEF RowsInv
    <3>2. opt.cap \in Nat
      BY <2>2, SourcesAssumption
    <3>. QED
      BY <3>1, <3>2, FS_EmptySet
  <2>. QED
    BY <2>3, <2>4
<1>3. SyntheticFits
  <2>. SUFFICES ASSUME pc = "select", NEW k \in DOMAIN samples, samples[k].src = "synthetic"
                PROVE  samples[k].len = opt.len
    BY DEF SyntheticFits
  <2>1. opt \in Options /\ samples = Loaded[opt]
    BY OptType DEF TypeOK, RowsInv
  <2>2. AllHonest(opt, samples)
    BY <2>1, LoadedHonest
  <2>3. k \in 1..Len(samples)
    BY <2>2, ListIs DEF AllHonest
  <2>. QED
    BY <2>2, <2>3 DEF AllHonest, Honest
<1>. QED
  BY <1>1, <1>2, <1>3 DEF RowsSound

\* A model is trained with rows of true labels, or families, and of their own
\* domains, with no more of a class than asked for, and with synthetic windows of
\* the length asked for, whatever sources are combined (train.py 78-225).
THEOREM TrainingRowsAreSound == Spec => []RowsSound
<1>1. Init => RowsInv
  BY DEF Init, RowsInv
<1>. QED
  BY <1>1, NextRowsInv, InvRows, TrainingTypeOK, TrainingDomainAligned, PTL DEF Spec

\* Where the elements of two lists are in their concatenation.
LEMMA ConcatPlaces ==
    ASSUME NEW a, NEW b, List(a), List(b)
    PROVE  /\ Len(a \o b) = Len(a) + Len(b)
           /\ \A k \in 1..Len(a) : k \in 1..Len(a \o b) /\ (a \o b)[k] = a[k]
           /\ \A k \in 1..Len(b) : Len(a) + k \in 1..Len(a \o b) /\ (a \o b)[Len(a) + k] = b[k]
           /\ \A k \in 1..Len(a \o b) : k \in 1..Len(a) \/ k - Len(a) \in 1..Len(b)
<1>. DEFINE S == {a[k] : k \in DOMAIN a} \union {b[k] : k \in DOMAIN b}
<1>1. /\ {a[k] : k \in DOMAIN a} \subseteq S /\ a \in Seq({a[k] : k \in DOMAIN a})
      /\ {b[k] : k \in DOMAIN b} \subseteq S /\ b \in Seq({b[k] : k \in DOMAIN b})
  BY DEF List
<1>. HIDE DEF S
<1>2. \A A : \A s \in Seq(A) : A \subseteq S => s \in Seq(S)
  OBVIOUS
<1>3. a \in Seq(S) /\ b \in Seq(S)
  BY <1>1, <1>2
<1>. QED
  BY <1>3

LEMMA LeastOf ==
    ASSUME NEW T, T \subseteq Nat, T # {}
    PROVE  \E m \in T : \A l \in T : ~ (l < m)
<1>1. PICK m \in T : \A l \in T : ~ (<<l, m>> \in OpToRel(<, Nat))
  BY WFMin, NatLessThanWellFounded, Zenon
<1>2. \A l \in T : l \in Nat /\ m \in Nat
  OBVIOUS
<1>. QED
  BY <1>1, <1>2 DEF OpToRel

\* A list of lists is flattened part by part.
LEMMA FlattenPart ==
    ASSUME NEW f, NEW seqs, NEW n \in Nat, Flattens(f, seqs, n), NEW k \in Nat, k + 1 \in 1..n
    PROVE  /\ k = 0 => f[k + 1] = seqs[k + 1]
           /\ k # 0 => k \in 1..n /\ f[k + 1] = f[k] \o seqs[k + 1]
<1>1. f[k + 1] = IF k + 1 = 1 THEN seqs[k + 1] ELSE f[k + 1 - 1] \o seqs[k + 1]
  BY FlattenStep
<1>2. k + 1 - 1 = k
  OBVIOUS
<1>3. k = 0 => k + 1 = 1
  OBVIOUS
<1>4. k # 0 => k + 1 # 1 /\ k \in 1..n
  OBVIOUS
<1>. QED
  BY <1>1, <1>2, <1>3, <1>4

\* Every place asked for is picked.
LEMMA InOrderAll ==
    ASSUME NEW S \in SUBSET Int, IsFiniteSet(S), NEW x \in S
    PROVE  \E k \in 1..Cardinality(S) : InOrder(S)[k] = x
<1>. DEFINE n == Cardinality(S)
            f == [k \in 1..n |-> InOrder(S)[k]]
<1>1. Lists(InOrder(S), S)
  BY InOrderLists
<1>2. f \in Injection(1..n, S)
  BY <1>1 DEF Injection, IsInjective, Lists
<1>3. n \in Nat /\ IsFiniteSet(1..n) /\ Cardinality(1..n) = n
  BY FS_CardinalityType, FS_Interval
<1>4. f \in Surjection(1..n, S)
  <2>. HIDE DEF f
  <2>. QED
    BY <1>2, <1>3, FS_Injection
<1>. QED
  BY <1>4 DEF Surjection

LEMMA PickedAll ==
    ASSUME NEW all, Len(all) \in Nat, NEW keep \in SUBSET (1..Len(all)), NEW x \in keep
    PROVE  \E k \in 1..Len(Picked(all, keep)) :
              InOrder(keep)[k] = x /\ Picked(all, keep)[k] = all[x]
<1>1. IsFiniteSet(keep) /\ keep \in SUBSET Int
  <2>1. IsFiniteSet(1..Len(all))
    BY FS_Interval
  <2>2. IsFiniteSet(keep)
    BY <2>1, FS_Subset
  <2>. QED
    BY <2>2
<1>2. PICK k \in 1..Cardinality(keep) : InOrder(keep)[k] = x
  BY <1>1, InOrderAll
<1>3. /\ Len(Picked(all, keep)) = Cardinality(keep)
      /\ \A i \in 1..Len(Picked(all, keep)) : Picked(all, keep)[i] = all[InOrder(keep)[i]]
  BY PickedIs
<1>. QED
  BY <1>2, <1>3

\* What is in one of the lists is in the flattened one.
Has(b, x) == List(b) /\ \E k \in 1..Len(b) : b[k] = x

LEMMA ConcatHas ==
    ASSUME NEW a, NEW b, NEW x, List(a), List(b), Has(a, x) \/ Has(b, x)
    PROVE  Has(a \o b, x)
  BY ConcatElements, ConcatPlaces DEF Has

LEMMA FlattenAll ==
    ASSUME NEW seqs, List(seqs), \A i \in 1..Len(seqs) : List(seqs[i]),
           NEW i \in 1..Len(seqs), NEW x, Has(seqs[i], x)
    PROVE  Has(FlattenSeq(seqs), x)
<1>. DEFINE n == Len(seqs)
<1>1. n \in Nat /\ n # 0 /\ i \in Nat
  BY ListIs
<1>2. PICK f : Flattens(f, seqs, n) /\ FlattenSeq(seqs) = f[n]
  BY <1>1, FlattenLast
<1>. DEFINE T == {m \in Nat : m \in 1..n => List(f[m]) /\ (i <= m => Has(f[m], x))}
<1>3. 0 \in T
  OBVIOUS
<1>4. ASSUME NEW m \in Nat, m \in T PROVE m + 1 \in T
  <2>. SUFFICES ASSUME m + 1 \in 1..n PROVE List(f[m + 1]) /\ (i <= m + 1 => Has(f[m + 1], x))
    OBVIOUS
  <2>1. /\ m = 0 => f[m + 1] = seqs[m + 1]
        /\ m # 0 => m \in 1..n /\ f[m + 1] = f[m] \o seqs[m + 1]
    <3>1. Flattens(f, seqs, n) /\ m \in Nat /\ m + 1 \in 1..n
      BY <1>2
    <3>. HIDE DEF n
    <3>. QED
      BY <1>1, <3>1, FlattenPart, ZenonT(30)
  <2>2. List(seqs[m + 1]) /\ (i = m + 1 => Has(seqs[m + 1], x))
    OBVIOUS
  <2>3. i <= m + 1 => i <= m \/ i = m + 1
    BY <1>1
  <2>4. m = 0 => ~(i <= m)
    BY <1>1
  <2>5. CASE m = 0
    BY <2>1, <2>2, <2>3, <2>4, <2>5
  <2>6. CASE m # 0
    <3>1. List(f[m]) /\ (i <= m => Has(f[m], x))
      BY <1>4, <2>1, <2>6
    <3>2. List(f[m] \o seqs[m + 1])
      BY <2>2, <3>1, ConcatElements
    <3>3. i <= m + 1 => Has(f[m] \o seqs[m + 1], x)
      BY <2>2, <2>3, <3>1, ConcatHas
    <3>. QED
      BY <2>1, <2>6, <3>2, <3>3
  <2>. QED
    BY <2>5, <2>6
<1>5. Nat \subseteq T
  <2>. HIDE DEF T
  <2>. QED
    BY <1>3, <1>4, SetInduction
<1>. QED
  BY <1>1, <1>2, <1>5

\* The first places of the elements of a list name each of them once.
LEMMA NamedIs ==
    ASSUME NEW list, List(list)
    PROVE  /\ List(Named(list))
           /\ \A k \in 1..Len(Named(list)) : \E j \in 1..Len(list) : Named(list)[k] = list[j]
           /\ \A j \in 1..Len(list) : \E k \in 1..Len(Named(list)) : Named(list)[k] = list[j]
<1>. DEFINE keep == {k \in DOMAIN list : \A j \in 1..(k - 1) : list[j] # list[k]}
<1>1. Len(list) \in Nat /\ DOMAIN list = 1..Len(list)
  BY ListIs
<1>2. Named(list) = Picked(list, keep)
  BY DEF Named
<1>3. keep \in SUBSET (1..Len(list))
  BY <1>1
<1>4. ASSUME NEW j \in 1..Len(list) PROVE \E k \in keep : list[k] = list[j]
  <2>. DEFINE T == {m \in 1..Len(list) : list[m] = list[j]}
  <2>1. T \subseteq Nat /\ T # {}
    BY <1>1
  <2>2. PICK m \in T : \A l \in T : ~ (l < m)
    <3>. HIDE DEF T
    <3>. QED
      BY <2>1, LeastOf
  <2>3. \A l \in 1..(m - 1) : list[l] # list[m]
    BY <1>1, <2>2
  <2>. QED
    BY <1>1, <2>3
<1>. HIDE DEF keep
<1>5. /\ List(Picked(list, keep))
      /\ \A k \in 1..Len(Picked(list, keep)) :
            InOrder(keep)[k] \in keep /\ Picked(list, keep)[k] = list[InOrder(keep)[k]]
  BY <1>1, <1>3, PickedIs
<1>6. \A k \in keep : \E i \in 1..Len(Picked(list, keep)) : Picked(list, keep)[i] = list[k]
  BY <1>1, <1>3, PickedAll
<1>7. \A k \in 1..Len(Picked(list, keep)) : \E j \in 1..Len(list) : Picked(list, keep)[k] = list[j]
  BY <1>3, <1>5
<1>8. \A j \in 1..Len(list) : \E i \in 1..Len(Picked(list, keep)) : Picked(list, keep)[i] = list[j]
  BY <1>4, <1>6
<1>. QED
  BY <1>2, <1>5, <1>7, <1>8

----------------------------------------------------------------------------
(* The rows of the data sets. *)

\* A row, and a row whose label names the class its samples were made for.
DataRow(r) == r = [cls |-> r.cls, y |-> r.y, snr |-> r.snr, s |-> r.s, fresh |-> r.fresh, id |-> r.id]
LabelTrue(names, r) ==
    DataRow(r) /\ r.y \in Nat /\ r.y + 1 \in 1..Len(names) /\ names[r.y + 1] = r.cls
LabelsTrue(names, rows) ==
    List(names) /\ List(rows) /\ \A k \in 1..Len(rows) : LabelTrue(names, rows[k])

\* Two rows that differ in their labels at most.
Like(a, b) == a.cls = b.cls /\ a.snr = b.snr /\ a.s = b.s /\ a.fresh = b.fresh /\ a.id = b.id

LEMMA HasRange ==
    ASSUME NEW b, List(b), NEW x
    PROVE  Has(b, x) <=> x \in Range(b)
<1>1. DOMAIN b = 1..Len(b)
  BY ListIs
<1>. QED
  BY <1>1 DEF Has, Range

LEMMA ClassIdIs ==
    ASSUME NEW names, NEW c, Has(names, c)
    PROVE  ClassId(names, c) \in Nat /\ ClassId(names, c) + 1 \in 1..Len(names)
             /\ names[ClassId(names, c) + 1] = c
<1>. DEFINE i == CHOOSE i \in DOMAIN names : names[i] = c
<1>1. DOMAIN names = 1..Len(names) /\ Len(names) \in Nat
  BY ListIs DEF Has
<1>2. \E k \in DOMAIN names : names[k] = c
  BY <1>1 DEF Has
<1>3. i \in DOMAIN names /\ names[i] = c
  BY <1>2
<1>4. ClassId(names, c) = i - 1
  BY DEF ClassId
<1>. HIDE DEF i
<1>. QED
  BY <1>1, <1>3, <1>4

\* The relabelled rows bear labels of the other list, which name their classes.
LEMMA RelabelledIs ==
    ASSUME NEW d, NEW names, LabelsTrue(d.classes, d.rows), List(names),
           \A k \in 1..Len(d.rows) : Has(names, d.rows[k].cls)
    PROVE  LET new == Relabelled(d, names)
           IN  /\ LabelsTrue(names, new) /\ Len(new) = Len(d.rows)
               /\ \A k \in 1..Len(new) : Like(new[k], d.rows[k])
<1>. DEFINE new == Relabelled(d, names)
            old == d.rows
            num(k) == ClassId(names, d.classes[old[k].y + 1])
<1>1. Len(old) \in Nat /\ DOMAIN old = 1..Len(old)
  BY ListIs DEF LabelsTrue
<1>2. new = [k \in 1..Len(old) |-> [old[k] EXCEPT !.y = num(k)]]
  BY <1>1 DEF Relabelled
<1>3. ASSUME NEW k \in 1..Len(old)
      PROVE  /\ old[k] = [cls |-> old[k].cls, y |-> old[k].y, snr |-> old[k].snr, s |-> old[k].s,
                          fresh |-> old[k].fresh, id |-> old[k].id]
             /\ num(k) \in Nat /\ num(k) + 1 \in 1..Len(names) /\ names[num(k) + 1] = old[k].cls
  <2>1. LabelTrue(d.classes, old[k])
    BY DEF LabelsTrue
  <2>2. d.classes[old[k].y + 1] = old[k].cls
    BY <2>1 DEF LabelTrue
  <2>3. Has(names, d.classes[old[k].y + 1])
    BY <2>2
  <2>4. num(k) \in Nat /\ num(k) + 1 \in 1..Len(names) /\ names[num(k) + 1] = d.classes[old[k].y + 1]
    BY <2>3, ClassIdIs
  <2>. QED
    BY <2>1, <2>2, <2>4 DEF LabelTrue, DataRow
<1>. HIDE DEF new, old, num
<1>4. ASSUME NEW k \in 1..Len(old)
      PROVE  new[k] = [cls |-> old[k].cls, y |-> num(k), snr |-> old[k].snr, s |-> old[k].s,
                       fresh |-> old[k].fresh, id |-> old[k].id]
  <2>1. new[k] = [old[k] EXCEPT !.y = num(k)]
    BY <1>1, <1>2
  <2>. QED
    BY <1>3, <2>1
<1>5. Len(new) = Len(old) /\ DOMAIN new = 1..Len(new) /\ List(new)
  BY <1>1, <1>2, MadeList
<1>6. \A k \in 1..Len(new) : Like(new[k], old[k])
  BY <1>4, <1>5 DEF Like
<1>7. ASSUME NEW k \in 1..Len(new) PROVE LabelTrue(names, new[k])
  <2>1. k \in 1..Len(old)
    BY <1>5
  <2>2. new[k] = [cls |-> old[k].cls, y |-> num(k), snr |-> old[k].snr, s |-> old[k].s,
                  fresh |-> old[k].fresh, id |-> old[k].id]
    BY <1>4, <2>1
  <2>2a. new[k].cls = old[k].cls /\ new[k].y = num(k)
    BY <2>2
  <2>3. DataRow(new[k])
    BY <2>2 DEF DataRow
  <2>. QED
    BY <1>3, <2>1, <2>2a, <2>3 DEF LabelTrue
<1>. QED
  BY <1>5, <1>6, <1>7 DEF LabelsTrue, new, old

LEMMA PickedTrue ==
    ASSUME NEW names, NEW rows, LabelsTrue(names, rows), NEW keep \in SUBSET (1..Len(rows))
    PROVE  LabelsTrue(names, Picked(rows, keep))
<1>1. Len(rows) \in Nat
  BY ListIs DEF LabelsTrue
<1>. DEFINE p == Picked(rows, keep)
<1>2. List(p) /\ \A k \in 1..Len(p) : InOrder(keep)[k] \in keep /\ p[k] = rows[InOrder(keep)[k]]
  BY <1>1, PickedIs
<1>. HIDE DEF p
<1>3. \A k \in 1..Len(p) : LabelTrue(names, p[k])
  BY <1>2 DEF LabelsTrue
<1>. QED
  BY <1>2, <1>3 DEF LabelsTrue, p

LEMMA ConcatTrue ==
    ASSUME NEW names, NEW a, NEW b, LabelsTrue(names, a), LabelsTrue(names, b)
    PROVE  LabelsTrue(names, a \o b)
<1>. DEFINE c == a \o b
<1>1. List(c) /\ \A k \in 1..Len(c) : \/ \E j \in 1..Len(a) : c[k] = a[j]
                                      \/ \E j \in 1..Len(b) : c[k] = b[j]
  BY ConcatElements DEF LabelsTrue
<1>. HIDE DEF c
<1>2. \A k \in 1..Len(c) : LabelTrue(names, c[k])
  BY <1>1 DEF LabelsTrue
<1>. QED
  BY <1>1, <1>2 DEF LabelsTrue, c

LEMMA FlattenTrue ==
    ASSUME NEW names, List(names), NEW seqs, List(seqs),
           \A i \in 1..Len(seqs) : LabelsTrue(names, seqs[i])
    PROVE  LabelsTrue(names, FlattenSeq(seqs))
<1>. DEFINE c == FlattenSeq(seqs)
<1>1. /\ List(c)
      /\ \A k \in 1..Len(c) : \E i \in 1..Len(seqs) : \E j \in 1..Len(seqs[i]) : c[k] = seqs[i][j]
  BY FlattenElements DEF LabelsTrue
<1>. HIDE DEF c
<1>2. \A k \in 1..Len(c) : LabelTrue(names, c[k])
  BY <1>1 DEF LabelsTrue
<1>. QED
  BY <1>1, <1>2 DEF LabelsTrue, c

LEMMA DivMod ==
    ASSUME NEW x \in Nat, NEW p \in Nat \ {0}
    PROVE  x \div p \in Nat /\ x % p \in 0..(p - 1) /\ x = p * (x \div p) + (x % p)
  OBVIOUS

LEMMA DivUnique ==
    ASSUME NEW q \in Nat, NEW p \in Nat \ {0}, NEW e \in 0..(p - 1), NEW x \in Nat, x = p * q + e
    PROVE  x \div p = q /\ x % p = e
  OBVIOUS

\* generate() fills its arrays class by class, SNR by SNR: place i is row e of
\* class c at SNR k.
PlaceClass(i, m, p) == (i - 1) \div (m * p) + 1
PlaceSnr(i, m, p) == (((i - 1) \div p) % m) + 1
PlaceRow(i, p) == (i - 1) % p
Place(c, k, e, m, p) == (m * p) * (c - 1) + p * (k - 1) + e + 1
InPlace(i, m, p) == i = Place(PlaceClass(i, m, p), PlaceSnr(i, m, p), PlaceRow(i, p), m, p)

LEMMA PlaceAt ==
    ASSUME NEW n \in Nat, NEW m \in Nat, NEW p \in Nat \ {0},
           NEW c \in 1..n, NEW k \in 1..m, NEW e \in 0..(p - 1)
    PROVE  LET i == Place(c, k, e, m, p)
           IN  i \in 1..(n * (m * p)) /\ PlaceClass(i, m, p) = c /\ PlaceSnr(i, m, p) = k
<1>. DEFINE i == Place(c, k, e, m, p)
            x == i - 1
            r == p * (k - 1) + e
            q == m * (c - 1) + (k - 1)
            b == m * p
<1>1. b \in Nat \ {0} /\ m \in Nat \ {0}
  OBVIOUS
<1>2. r \in 0..(b - 1)
  <2>1. p * (k - 1) \in Nat /\ p * (k - 1) <= p * (m - 1)
    OBVIOUS
  <2>2. p * (m - 1) = b - p
    OBVIOUS
  <2>. QED
    BY <2>1, <2>2
<1>3. c - 1 \in Nat /\ k - 1 \in 0..(m - 1) /\ q \in Nat
  OBVIOUS
<1>4. x = b * (c - 1) + r
  BY <1>2 DEF Place
<1>5. x = p * q + e
  <2>1. p * q = p * (m * (c - 1)) + p * (k - 1)
    OBVIOUS
  <2>2. p * (m * (c - 1)) = b * (c - 1)
    OBVIOUS
  <2>. QED
    BY <1>4, <2>1, <2>2
<1>. HIDE DEF x, r, q
<1>6. x \in Nat
  <2>1. b * (c - 1) \in Nat
    BY <1>1, <1>3
  <2>. HIDE DEF b
  <2>. QED
    BY <1>2, <1>4, <2>1
<1>7. x \div b = c - 1
  <2>. HIDE DEF b
  <2>. QED
    BY <1>1, <1>2, <1>3, <1>4, <1>6, DivUnique
<1>8. x \div p = q
  BY <1>3, <1>5, <1>6, DivUnique
<1>9. q % m = k - 1
  BY <1>1, <1>3, DivUnique DEF q
<1>10. x + 1 <= n * b
  <2>1. b * (c - 1) <= b * (n - 1)
    BY <1>1, <1>3
  <2>2. b * (n - 1) = n * b - b
    BY <1>1
  <2>3. b * (c - 1) \in Nat /\ n * b \in Nat
    BY <1>1, <1>3
  <2>. HIDE DEF b
  <2>. QED
    BY <1>1, <1>2, <1>4, <2>1, <2>2, <2>3
<1>11. i = x + 1
  BY <1>6 DEF x, Place
<1>12. i \in 1..(n * b)
  <2>1. n * b \in Nat
    BY <1>1
  <2>. HIDE DEF b, i
  <2>. QED
    BY <1>6, <1>10, <1>11, <2>1
<1>13. i - 1 = x
  BY DEF x
<1>. HIDE DEF i
<1>. QED
  BY <1>7, <1>8, <1>9, <1>12, <1>13 DEF PlaceClass, PlaceSnr, i

LEMMA PlaceOf ==
    ASSUME NEW n \in Nat, NEW m \in Nat, NEW p \in Nat \ {0}, NEW i \in 1..(n * (m * p))
    PROVE  /\ PlaceClass(i, m, p) \in 1..n /\ PlaceSnr(i, m, p) \in 1..m
           /\ PlaceRow(i, p) \in 0..(p - 1)
           /\ InPlace(i, m, p)
<1>. DEFINE x == i - 1
            b == m * p
            q == x \div p
            e == x % p
            a == q \div m
            k == q % m
<1>1. m # 0 /\ b \in Nat \ {0} /\ x \in Nat
  OBVIOUS
<1>2. q \in Nat /\ e \in 0..(p - 1) /\ x = p * q + e
  BY <1>1, DivMod
<1>3. a \in Nat /\ k \in 0..(m - 1) /\ q = m * a + k
  BY <1>1, <1>2, DivMod
<1>. HIDE DEF q, e, a, k, x
<1>4. p * q = b * a + p * k
  <2>1. p * q = p * (m * a) + p * k
    BY <1>3
  <2>2. p * (m * a) = b * a
    BY <1>3
  <2>. QED
    BY <2>1, <2>2
<1>5. p * k + e \in 0..(b - 1)
  <2>1. p * k \in Nat /\ p * k <= p * (m - 1)
    BY <1>1, <1>3
  <2>2. p * (m - 1) = b - p
    BY <1>1
  <2>3. b \in Nat
    OBVIOUS
  <2>. HIDE DEF b
  <2>. QED
    BY <1>1, <1>2, <2>1, <2>2, <2>3
<1>6. x = b * a + (p * k + e)
  <2>1. p * k \in Nat /\ b * a \in Nat
    BY <1>1, <1>3
  <2>. HIDE DEF b
  <2>. QED
    BY <1>2, <1>4, <2>1
<1>7. x \div b = a
  <2>. DEFINE r == p * k + e
  <2>1. r \in 0..(b - 1) /\ x = b * a + r
    BY <1>5, <1>6
  <2>. HIDE DEF b, r
  <2>. QED
    BY <1>1, <1>3, <2>1, DivUnique
<1>8. a < n
  <2>1. CASE a >= n
    <3>1. b * a >= b * n
      BY <1>1, <1>3, <2>1
    <3>2. x < b * n /\ b * n \in Nat /\ b * a \in Nat
      BY <1>1, <1>3 DEF x
    <3>. HIDE DEF b
    <3>. QED
      BY <1>1, <1>5, <1>6, <3>1, <3>2
  <2>. QED
    BY <1>3, <2>1
<1>9. PlaceClass(i, m, p) = a + 1 /\ PlaceSnr(i, m, p) = k + 1 /\ PlaceRow(i, p) = e
  BY <1>7 DEF PlaceClass, PlaceSnr, PlaceRow, x, q, k, e
<1>10. i = Place(a + 1, k + 1, e, m, p)
  <2>1. i = x + 1
    BY DEF x
  <2>2. (a + 1) - 1 = a /\ (k + 1) - 1 = k
    BY <1>3
  <2>3. p * k \in Nat /\ b * a \in Nat
    BY <1>1, <1>3
  <2>4. Place(a + 1, k + 1, e, m, p) = b * ((a + 1) - 1) + p * ((k + 1) - 1) + e + 1
    BY DEF Place
  <2>5. Place(a + 1, k + 1, e, m, p) = b * a + p * k + e + 1
    BY <2>2, <2>4
  <2>. HIDE DEF b
  <2>. QED
    BY <1>2, <1>6, <2>1, <2>3, <2>5
<1>11. InPlace(i, m, p)
  BY <1>9, <1>10, Zenon DEF InPlace
<1>. QED
  BY <1>2, <1>3, <1>8, <1>9, <1>11

\* The layout generate() leaves, and what else it writes.
Laid(names, snrs, p, rows) ==
    /\ Len(rows) = Len(names) * (Len(snrs) * p)
    /\ \A i \in 1..Len(rows) :
          /\ rows[i].cls = names[PlaceClass(i, Len(snrs), p)]
          /\ rows[i].y = PlaceClass(i, Len(snrs), p) - 1
          /\ rows[i].snr = snrs[PlaceSnr(i, Len(snrs), p)]
Distinct(list) == \A j, k \in 1..Len(list) : list[j] = list[k] => j = k
Made(rows, fresh, seed, names) ==
    \A i \in 1..Len(rows) :
        rows[i].s = rows[i].snr /\ rows[i].fresh = fresh /\ rows[i].id = <<seed, names, i>>

Complete(d, len) == d = Whole(len, d.classes, d.rows)

LEMMA ClassesListed ==
    /\ List(ClassOrder) /\ Distinct(ClassOrder) /\ List(Snrs) /\ Distinct(Snrs)
    /\ Len(ClassOrder) \in Nat /\ DOMAIN ClassOrder = 1..Len(ClassOrder) /\ Len(Snrs) \in Nat
<1>1. ClassOrder \in Seq(ClassNames) /\ Snrs \in Seq(Int)
  BY ClassesAssumption
<1>2. List(ClassOrder) /\ List(Snrs)
  BY <1>1, SeqOfElements
<1>3. /\ Len(ClassOrder) \in Nat /\ DOMAIN ClassOrder = 1..Len(ClassOrder)
      /\ Len(Snrs) \in Nat /\ DOMAIN Snrs = 1..Len(Snrs)
  BY <1>2, ListIs
<1>. QED
  BY <1>2, <1>3, ClassesAssumption DEF Distinct

\* The classes that are wanted, each once.
LEMMA ClassesWanted ==
    ASSUME NEW wanted
    PROVE  LET names == Picked(ClassOrder, {k \in DOMAIN ClassOrder : ClassOrder[k] \in wanted})
           IN  /\ List(names) /\ Distinct(names)
               /\ \A c : Has(names, c) <=> c \in wanted /\ c \in Range(ClassOrder)
               /\ Range(names) = wanted \cap Range(ClassOrder)
<1>. DEFINE keep == {k \in DOMAIN ClassOrder : ClassOrder[k] \in wanted}
            names == Picked(ClassOrder, keep)
<1>1. keep \in SUBSET (1..Len(ClassOrder)) /\ Len(ClassOrder) \in Nat /\ DOMAIN ClassOrder = 1..Len(ClassOrder)
  BY ClassesListed
<1>2. /\ Lists(InOrder(keep), keep) /\ List(names) /\ Len(names) = Cardinality(keep)
      /\ \A k \in 1..Len(names) : InOrder(keep)[k] \in keep /\ names[k] = ClassOrder[InOrder(keep)[k]]
  <2>. HIDE DEF keep
  <2>. QED
    BY <1>1, PickedIs
<1>3. \A x \in keep : \E k \in 1..Len(names) : names[k] = ClassOrder[x]
  <2>. HIDE DEF keep
  <2>. QED
    BY <1>1, PickedAll
<1>4. \A x \in keep : x \in 1..Len(ClassOrder) /\ ClassOrder[x] \in wanted
  BY <1>1
<1>5. \A x \in 1..Len(ClassOrder) : ClassOrder[x] \in wanted => x \in keep
  BY <1>1
<1>. HIDE DEF keep, names
<1>6. Distinct(names)
  <2>1. SUFFICES ASSUME NEW j \in 1..Len(names), NEW k \in 1..Len(names), names[j] = names[k]
                 PROVE  j = k
    BY DEF Distinct
  <2>. DEFINE x == InOrder(keep)[j]
              y == InOrder(keep)[k]
  <2>2. x \in keep /\ y \in keep /\ ClassOrder[x] = ClassOrder[y]
    BY <1>2, <2>1
  <2>3. x = y
    BY <1>4, <2>2, ClassesListed DEF Distinct
  <2>. QED
    BY <1>2, <2>3 DEF Lists
<1>7. ASSUME NEW c PROVE Has(names, c) <=> c \in wanted /\ c \in Range(ClassOrder)
  <2>1. Has(names, c) => c \in wanted /\ c \in Range(ClassOrder)
    BY <1>1, <1>2, <1>4 DEF Has, Range
  <2>2. ASSUME c \in wanted, c \in Range(ClassOrder) PROVE Has(names, c)
    <3>1. PICK x \in 1..Len(ClassOrder) : ClassOrder[x] = c
      BY <1>1, <2>2 DEF Range
    <3>. QED
      BY <1>2, <1>3, <1>5, <2>2, <3>1 DEF Has
  <2>. QED
    BY <2>1, <2>2
<1>8. Range(names) = wanted \cap Range(ClassOrder)
  BY <1>2, <1>7, HasRange
<1>. QED
  BY <1>2, <1>6, <1>7, <1>8 DEF names, keep

LEMMA GeneratedIs ==
    ASSUME NEW seed, NEW wanted, NEW snrs, List(snrs), NEW perSnr \in Nat \ {0}, NEW fresh
    PROVE  LET d == Generated(seed, wanted, snrs, perSnr, fresh)
           IN  /\ Complete(d, LEN)
               /\ List(d.classes) /\ Distinct(d.classes)
               /\ \A c : Has(d.classes, c) <=> c \in wanted /\ c \in Range(ClassOrder)
               /\ Laid(d.classes, snrs, perSnr, d.rows)
               /\ LabelsTrue(d.classes, d.rows)
               /\ Made(d.rows, fresh, seed, wanted \cap Range(ClassOrder))
<1>. DEFINE d == Generated(seed, wanted, snrs, perSnr, fresh)
            names == Picked(ClassOrder, {k \in DOMAIN ClassOrder : ClassOrder[k] \in wanted})
            m == Len(snrs)
            C(i) == PlaceClass(i, m, perSnr)
            K(i) == PlaceSnr(i, m, perSnr)
            rows == [i \in 1..(Len(names) * (m * perSnr)) |->
                       [cls |-> names[C(i)], y |-> C(i) - 1, snr |-> snrs[K(i)], s |-> snrs[K(i)],
                        fresh |-> fresh, id |-> <<seed, Range(names), i>>]]
<1>1. d = Whole(LEN, names, rows)
  BY DEF Generated, PlaceClass, PlaceSnr
<1>2. /\ List(names) /\ Distinct(names) /\ Range(names) = wanted \cap Range(ClassOrder)
      /\ \A c : Has(names, c) <=> c \in wanted /\ c \in Range(ClassOrder)
  BY ClassesWanted
<1>. HIDE DEF d, names
<1>. DEFINE n == Len(names) * (m * perSnr)
<1>3. m \in Nat /\ Len(names) \in Nat /\ n \in Nat
  BY <1>2, ListIs
<1>4. DOMAIN rows = 1..n /\ List(rows) /\ Len(rows) = n
  <2>1. rows = [i \in 1..n |-> rows[i]] /\ DOMAIN rows = 1..n
    OBVIOUS
  <2>. HIDE DEF rows, n
  <2>. QED
    BY <1>3, <2>1, MadeList
<1>5. ASSUME NEW i \in 1..n PROVE C(i) \in 1..Len(names)
  BY <1>3, PlaceOf
<1>6. ASSUME NEW i \in 1..n
      PROVE  rows[i] = [cls |-> names[C(i)], y |-> C(i) - 1, snr |-> snrs[K(i)], s |-> snrs[K(i)],
                        fresh |-> fresh, id |-> <<seed, Range(names), i>>]
  OBVIOUS
<1>. HIDE DEF rows, n, C, K
<1>7. ASSUME NEW i \in 1..n PROVE LabelTrue(names, rows[i])
  <2>0. rows[i] = [cls |-> names[C(i)], y |-> C(i) - 1, snr |-> snrs[K(i)], s |-> snrs[K(i)],
                   fresh |-> fresh, id |-> <<seed, Range(names), i>>]
    BY <1>6
  <2>1. DataRow(rows[i])
    BY <2>0 DEF DataRow
  <2>2. rows[i].y = C(i) - 1 /\ rows[i].cls = names[C(i)]
    BY <2>0
  <2>3. C(i) - 1 \in Nat /\ (C(i) - 1) + 1 = C(i)
    BY <1>5
  <2>. QED
    BY <1>5, <2>1, <2>2, <2>3 DEF LabelTrue
<1>8. LabelsTrue(names, rows)
  BY <1>2, <1>4, <1>7 DEF LabelsTrue
<1>9. Laid(names, snrs, perSnr, rows)
  BY <1>4, <1>6 DEF Laid, n, C, K
<1>10. Made(rows, fresh, seed, wanted \cap Range(ClassOrder))
  BY <1>2, <1>4, <1>6 DEF Made
<1>11. d.classes = names /\ d.rows = rows /\ Complete(d, LEN)
  BY <1>1 DEF Whole, Complete
<1>. QED
  BY <1>2, <1>8, <1>9, <1>10, <1>11 DEF d

\* n_per_snr rows of every class at every SNR: the rows can be numbered so that
\* each number is there once for each class and SNR, and no two rows of a class
\* are the same.
Enumerated(g, rows, names, p) ==
    /\ \A k \in 1..Len(rows) :
          rows[k].cls \in names /\ rows[k].snr \in Range(Snrs) /\ g[k] \in 0..(p - 1)
    /\ \A j, k \in 1..Len(rows) :
          rows[j].cls = rows[k].cls /\ rows[j].snr = rows[k].snr /\ g[j] = g[k] => j = k
    /\ \A c \in names : \A x \in Range(Snrs) : \A e \in 0..(p - 1) :
          \E k \in 1..Len(rows) : rows[k].cls = c /\ rows[k].snr = x /\ g[k] = e
Unlike(rows) ==
    \A j, k \in 1..Len(rows) : rows[j].cls = rows[k].cls /\ rows[j].id = rows[k].id => j = k
Even(rows, names, p) == List(rows) /\ Unlike(rows) /\ \E g : Enumerated(g, rows, names, p)

\* A generated file is even.
LEMMA EvenLaid ==
    ASSUME NEW rows, List(rows), NEW names, List(names), Distinct(names), NEW p \in Nat \ {0},
           Laid(names, Snrs, p, rows), Unlike(rows)
    PROVE  Even(rows, Range(names), p)
<1>. DEFINE m == Len(Snrs)
            n == Len(names)
            N == Len(rows)
            C(i) == PlaceClass(i, m, p)
            K(i) == PlaceSnr(i, m, p)
            g == [i \in 1..N |-> PlaceRow(i, p)]
<1>1. /\ m \in Nat /\ n \in Nat /\ N \in Nat /\ DOMAIN names = 1..n /\ DOMAIN Snrs = 1..m
      /\ \A j, k \in 1..m : Snrs[j] = Snrs[k] => j = k
      /\ \A j, k \in 1..n : names[j] = names[k] => j = k
      /\ N = n * (m * p)
  BY ListIs, ClassesListed DEF Laid, Distinct
<1>2. ASSUME NEW i \in 1..N
      PROVE  /\ C(i) \in 1..n /\ K(i) \in 1..m /\ g[i] \in 0..(p - 1)
             /\ i = Place(C(i), K(i), g[i], m, p)
             /\ rows[i].cls = names[C(i)] /\ rows[i].snr = Snrs[K(i)]
  <2>1. i \in 1..(n * (m * p))
    BY <1>1
  <2>2. C(i) \in 1..n /\ K(i) \in 1..m /\ PlaceRow(i, p) \in 0..(p - 1)
    <3>1. m \in Nat /\ n \in Nat
      BY <1>1
    <3>. HIDE DEF m, n
    <3>. QED
      BY <2>1, <3>1, PlaceOf
  <2>2a. InPlace(i, m, p)
    <3>1. m \in Nat /\ n \in Nat
      BY <1>1
    <3>. HIDE DEF m, n
    <3>. QED
      BY <2>1, <3>1, PlaceOf
  <2>3. g[i] = PlaceRow(i, p)
    OBVIOUS
  <2>. HIDE DEF g, C, K, m
  <2>4. g[i] \in 0..(p - 1) /\ i = Place(C(i), K(i), g[i], m, p)
    <3>1. i = Place(C(i), K(i), PlaceRow(i, p), m, p)
      BY <2>2a DEF InPlace, C, K
    <3>. QED
      BY <2>2, <2>3, <3>1, Zenon
  <2>5. rows[i].cls = names[C(i)] /\ rows[i].snr = Snrs[K(i)]
    BY DEF Laid, C, K, m
  <2>. QED
    BY <2>2, <2>4, <2>5
<1>. HIDE DEF g, N
<1>3. ASSUME NEW i \in 1..N, NEW j \in 1..N, rows[i].cls = rows[j].cls, rows[i].snr = rows[j].snr
      PROVE  C(i) = C(j) /\ K(i) = K(j)
  <2>. HIDE DEF C, K, m, n
  <2>. QED
    BY <1>1, <1>2, <1>3
<1>4. \A i, j \in 1..N : rows[i].cls = rows[j].cls /\ rows[i].snr = rows[j].snr /\ g[i] = g[j] => i = j
  <2>. HIDE DEF C, K, m, n
  <2>. QED
    BY <1>2, <1>3
<1>5. ASSUME NEW i \in 1..N PROVE rows[i].cls \in Range(names) /\ rows[i].snr \in Range(Snrs)
  <2>. HIDE DEF C, K, m, n
  <2>. QED
    BY <1>1, <1>2 DEF Range
<1>6. ASSUME NEW c \in Range(names), NEW x \in Range(Snrs), NEW e \in 0..(p - 1)
      PROVE  \E i \in 1..N : rows[i].cls = c /\ rows[i].snr = x /\ g[i] = e
  <2>1. PICK a \in 1..n : names[a] = c
    <3>. HIDE DEF n, m
    <3>. QED
      BY <1>1 DEF Range
  <2>2. PICK k \in 1..m : Snrs[k] = x
    <3>. HIDE DEF n, m
    <3>. QED
      BY <1>1 DEF Range
  <2>. DEFINE i == Place(a, k, e, m, p)
  <2>3. i \in 1..(n * (m * p)) /\ C(i) = a /\ K(i) = k
    <3>. HIDE DEF m, n
    <3>. QED
      BY <1>1, PlaceAt, SMTT(30)
  <2>4. i \in 1..N
    BY <1>1, <2>3
  <2>5. i = Place(a, k, g[i], m, p) /\ g[i] \in 0..(p - 1)
    <3>. HIDE DEF C, K, m, n, i
    <3>. QED
      BY <1>2, <2>3, <2>4
  <2>6. ASSUME NEW u \in 0..(p - 1), i = Place(a, k, u, m, p) PROVE u = e
    <3>1. (m * p) * (a - 1) \in Nat /\ p * (k - 1) \in Nat
      <4>1. m * p \in Nat /\ a - 1 \in Nat /\ k - 1 \in Nat
        BY <1>1
      <4>. QED
        BY <4>1
    <3>. DEFINE w == (m * p) * (a - 1) v == p * (k - 1)
    <3>2. w + v + e + 1 = w + v + u + 1
      BY <2>6 DEF Place
    <3>3. w \in Nat /\ v \in Nat
      BY <3>1
    <3>. HIDE DEF w, v
    <3>. QED
      BY <3>2, <3>3
  <2>7. g[i] = e
    <3>. HIDE DEF i
    <3>. QED
      BY <2>5, <2>6
  <2>8. rows[i].cls = names[C(i)] /\ rows[i].snr = Snrs[K(i)]
    BY <1>2, <2>4
  <2>. HIDE DEF C, K, i
  <2>. QED
    BY <2>1, <2>2, <2>3, <2>4, <2>7, <2>8
<1>7. Enumerated(g, rows, Range(names), p)
  BY <1>2, <1>4, <1>5, <1>6 DEF Enumerated, N
<1>. QED
  BY <1>7 DEF Even

LEMMA EvenLike ==
    ASSUME NEW a, NEW b, NEW names, NEW p, Even(a, names, p), List(b), Len(b) = Len(a),
           \A k \in 1..Len(b) : Like(b[k], a[k])
    PROVE  Even(b, names, p)
<1>1. PICK g : Enumerated(g, a, names, p)
  BY DEF Even
<1>2. \A k \in 1..Len(b) : b[k].cls = a[k].cls /\ b[k].snr = a[k].snr /\ b[k].id = a[k].id
  BY DEF Like
<1>3. Unlike(b)
  BY <1>2 DEF Even, Unlike
<1>4. Enumerated(g, b, names, p)
  <2>1. \A j, k \in 1..Len(a) :
           a[j].cls = a[k].cls /\ a[j].snr = a[k].snr /\ g[j] = g[k] => j = k
    BY <1>1 DEF Enumerated
  <2>2. \A j, k \in 1..Len(b) :
           b[j].cls = b[k].cls /\ b[j].snr = b[k].snr /\ g[j] = g[k] => j = k
    BY <1>2, <2>1
  <2>. QED
    <3>1. \A k \in 1..Len(b) : b[k].cls \in names /\ b[k].snr \in Range(Snrs) /\ g[k] \in 0..(p - 1)
      BY <1>1, <1>2 DEF Enumerated
    <3>2. ASSUME NEW c \in names, NEW x \in Range(Snrs), NEW e \in 0..(p - 1)
          PROVE  \E k \in 1..Len(b) : b[k].cls = c /\ b[k].snr = x /\ g[k] = e
      <4>1. PICK k \in 1..Len(a) : a[k].cls = c /\ a[k].snr = x /\ g[k] = e
        BY <1>1 DEF Enumerated
      <4>. QED
        BY <1>2, <4>1
    <3>. QED
      BY <2>2, <3>1, <3>2 DEF Enumerated
<1>. QED
  BY <1>3, <1>4 DEF Even

\* The rows of some of the classes.
LEMMA EvenPicked ==
    ASSUME NEW rows, NEW names, NEW p, Even(rows, names, p), NEW keep, NEW wanted \in SUBSET names,
           keep = {k \in 1..Len(rows) : rows[k].cls \in wanted}
    PROVE  Even(Picked(rows, keep), wanted, p)
<1>. DEFINE b == Picked(rows, keep)
            order == InOrder(keep)
<1>1. PICK g : Enumerated(g, rows, names, p)
  BY DEF Even
<1>2. Len(rows) \in Nat /\ keep \in SUBSET (1..Len(rows))
  BY ListIs DEF Even
<1>3. /\ Lists(order, keep) /\ List(b) /\ Len(b) = Cardinality(keep)
      /\ \A k \in 1..Len(b) : order[k] \in keep /\ b[k] = rows[order[k]]
  BY <1>2, PickedIs
<1>4. \A x \in keep : \E k \in 1..Len(b) : order[k] = x /\ b[k] = rows[x]
  BY <1>2, PickedAll
<1>. HIDE DEF b, order
<1>5. \A j, k \in 1..Len(b) : order[j] = order[k] => j = k
  BY <1>3 DEF Lists
<1>6. Unlike(b)
  <2>1. \A j, k \in keep : rows[j].cls = rows[k].cls /\ rows[j].id = rows[k].id => j = k
    BY <1>2 DEF Even, Unlike
  <2>. QED
    BY <1>3, <1>5, <2>1, SMTT(30) DEF Unlike
<1>. DEFINE h == [k \in 1..Len(b) |-> g[order[k]]]
<1>7. Enumerated(h, b, wanted, p)
  <2>1. \A k \in 1..Len(b) : h[k] = g[order[k]]
    OBVIOUS
  <2>. HIDE DEF h
  <2>2. ASSUME NEW k \in 1..Len(b)
        PROVE  b[k].cls \in wanted /\ b[k].snr \in Range(Snrs) /\ h[k] \in 0..(p - 1)
    <3>1. order[k] \in keep /\ order[k] \in 1..Len(rows) /\ b[k] = rows[order[k]]
      BY <1>2, <1>3
    <3>2. b[k].cls \in wanted
      BY <3>1
    <3>3. b[k].snr \in Range(Snrs) /\ h[k] \in 0..(p - 1)
      BY <1>1, <2>1, <3>1 DEF Enumerated
    <3>. QED
      BY <3>2, <3>3
  <2>3. ASSUME NEW j \in 1..Len(b), NEW k \in 1..Len(b),
               b[j].cls = b[k].cls, b[j].snr = b[k].snr, h[j] = h[k]
        PROVE  j = k
    <3>1. \A l, i \in 1..Len(rows) :
             rows[l].cls = rows[i].cls /\ rows[l].snr = rows[i].snr /\ g[l] = g[i] => l = i
      BY <1>1 DEF Enumerated
    <3>2. order[j] \in 1..Len(rows) /\ order[k] \in 1..Len(rows) /\ b[j] = rows[order[j]] /\ b[k] = rows[order[k]]
      BY <1>2, <1>3
    <3>3. order[j] = order[k]
      BY <2>1, <2>3, <3>1, <3>2
    <3>. QED
      BY <1>5, <3>3
  <2>4. ASSUME NEW c \in wanted, NEW x \in Range(Snrs), NEW e \in 0..(p - 1)
        PROVE  \E k \in 1..Len(b) : b[k].cls = c /\ b[k].snr = x /\ h[k] = e
    <3>1. PICK i \in 1..Len(rows) : rows[i].cls = c /\ rows[i].snr = x /\ g[i] = e
      BY <1>1 DEF Enumerated
    <3>2. i \in keep
      BY <3>1
    <3>. QED
      BY <1>4, <2>1, <3>1, <3>2
  <2>. QED
    BY <2>2, <2>3, <2>4 DEF Enumerated
<1>. QED
  BY <1>3, <1>6, <1>7 DEF Even, b

\* Two lists of rows that share no class.
LEMMA EvenConcat ==
    ASSUME NEW a, NEW b, NEW some, NEW others, some \cap others = {}, NEW p,
           Even(a, some, p), Even(b, others, p)
    PROVE  Even(a \o b, some \cup others, p)
<1>. DEFINE c == a \o b
<1>1. PICK g : Enumerated(g, a, some, p)
  BY DEF Even
<1>2. PICK h : Enumerated(h, b, others, p)
  BY DEF Even
<1>3. /\ List(c) /\ Len(a) \in Nat /\ Len(b) \in Nat /\ Len(c) = Len(a) + Len(b)
      /\ \A k \in 1..Len(a) : k \in 1..Len(c) /\ c[k] = a[k]
      /\ \A k \in 1..Len(b) : Len(a) + k \in 1..Len(c) /\ c[Len(a) + k] = b[k]
      /\ \A k \in 1..Len(c) : k \in 1..Len(a) \/ k - Len(a) \in 1..Len(b)
  BY ConcatPlaces, ConcatElements, ListIs DEF Even
<1>. DEFINE f == [k \in 1..Len(c) |-> IF k \in 1..Len(a) THEN g[k] ELSE h[k - Len(a)]]
<1>. HIDE DEF c
<1>4. \A k \in 1..Len(c) : \/ k \in 1..Len(a) /\ c[k] = a[k] /\ f[k] = g[k] /\ c[k].cls \in some
                           \/ /\ k - Len(a) \in 1..Len(b) /\ c[k] = b[k - Len(a)]
                              /\ f[k] = h[k - Len(a)] /\ c[k].cls \in others
  <2>. SUFFICES ASSUME NEW k \in 1..Len(c)
                PROVE  \/ k \in 1..Len(a) /\ c[k] = a[k] /\ f[k] = g[k] /\ c[k].cls \in some
                       \/ /\ k - Len(a) \in 1..Len(b) /\ c[k] = b[k - Len(a)]
                          /\ f[k] = h[k - Len(a)] /\ c[k].cls \in others
    OBVIOUS
  <2>1. CASE k \in 1..Len(a)
    BY <1>1, <1>3, <2>1 DEF Enumerated
  <2>2. CASE k \notin 1..Len(a)
    <3>1. k - Len(a) \in 1..Len(b) /\ Len(a) + (k - Len(a)) = k
      BY <1>3, <2>2
    <3>2. c[k] = b[k - Len(a)]
      BY <1>3, <3>1
    <3>. QED
      BY <1>2, <2>2, <3>1, <3>2 DEF Enumerated
  <2>. QED
    BY <2>1, <2>2
<1>. HIDE DEF f
<1>5. Unlike(c)
  <2>. SUFFICES ASSUME NEW j \in 1..Len(c), NEW k \in 1..Len(c), c[j].cls = c[k].cls, c[j].id = c[k].id
                PROVE  j = k
    BY DEF Unlike
  <2>1. \/ c[j].cls \in some /\ j \in 1..Len(a) /\ k \in 1..Len(a) /\ c[j] = a[j] /\ c[k] = a[k]
        \/ /\ j - Len(a) \in 1..Len(b) /\ c[j] = b[j - Len(a)]
           /\ k - Len(a) \in 1..Len(b) /\ c[k] = b[k - Len(a)]
    BY <1>4
  <2>2. CASE j \in 1..Len(a) /\ k \in 1..Len(a) /\ c[j] = a[j] /\ c[k] = a[k]
    BY <2>2 DEF Even, Unlike
  <2>3. CASE /\ j - Len(a) \in 1..Len(b) /\ c[j] = b[j - Len(a)]
             /\ k - Len(a) \in 1..Len(b) /\ c[k] = b[k - Len(a)]
    <3>1. j - Len(a) = k - Len(a)
      BY <2>3 DEF Even, Unlike
    <3>. QED
      BY <1>3, <3>1
  <2>. QED
    BY <2>1, <2>2, <2>3
<1>6. \A k \in 1..Len(c) : /\ c[k].cls \in some \cup others /\ c[k].snr \in Range(Snrs)
                           /\ f[k] \in 0..(p - 1)
  BY <1>1, <1>2, <1>4, SMTT(30) DEF Enumerated
<1>7. ASSUME NEW j \in 1..Len(c), NEW k \in 1..Len(c),
             c[j].cls = c[k].cls, c[j].snr = c[k].snr, f[j] = f[k]
      PROVE  j = k
  <2>1. \/ /\ j \in 1..Len(a) /\ k \in 1..Len(a) /\ c[j] = a[j] /\ c[k] = a[k]
           /\ f[j] = g[j] /\ f[k] = g[k]
        \/ /\ j - Len(a) \in 1..Len(b) /\ c[j] = b[j - Len(a)] /\ f[j] = h[j - Len(a)]
           /\ k - Len(a) \in 1..Len(b) /\ c[k] = b[k - Len(a)] /\ f[k] = h[k - Len(a)]
    BY <1>4, <1>7
  <2>2. CASE /\ j \in 1..Len(a) /\ k \in 1..Len(a) /\ c[j] = a[j] /\ c[k] = a[k]
             /\ f[j] = g[j] /\ f[k] = g[k]
    <3>1. \A l, i \in 1..Len(a) :
             a[l].cls = a[i].cls /\ a[l].snr = a[i].snr /\ g[l] = g[i] => l = i
      BY <1>1 DEF Enumerated
    <3>. QED
      BY <1>7, <2>2, <3>1
  <2>3. CASE /\ j - Len(a) \in 1..Len(b) /\ c[j] = b[j - Len(a)] /\ f[j] = h[j - Len(a)]
             /\ k - Len(a) \in 1..Len(b) /\ c[k] = b[k - Len(a)] /\ f[k] = h[k - Len(a)]
    <3>0. \A l, i \in 1..Len(b) :
             b[l].cls = b[i].cls /\ b[l].snr = b[i].snr /\ h[l] = h[i] => l = i
      BY <1>2 DEF Enumerated
    <3>1. j - Len(a) = k - Len(a)
      BY <1>7, <2>3, <3>0
    <3>. QED
      BY <1>3, <3>1
  <2>. QED
    BY <2>1, <2>2, <2>3
<1>8. ASSUME NEW d \in some \cup others, NEW x \in Range(Snrs), NEW e \in 0..(p - 1)
      PROVE  \E k \in 1..Len(c) : c[k].cls = d /\ c[k].snr = x /\ f[k] = e
  <2>1. CASE d \in some
    <3>1. PICK i \in 1..Len(a) : a[i].cls = d /\ a[i].snr = x /\ g[i] = e
      BY <1>1, <2>1 DEF Enumerated
    <3>2. i \in 1..Len(c) /\ c[i] = a[i]
      BY <1>3
    <3>3. f[i] = g[i]
      BY <3>2 DEF f
    <3>. QED
      BY <3>1, <3>2, <3>3
  <2>2. CASE d \in others
    <3>1. PICK i \in 1..Len(b) : b[i].cls = d /\ b[i].snr = x /\ h[i] = e
      BY <1>2, <2>2 DEF Enumerated
    <3>2. Len(a) + i \in 1..Len(c) /\ c[Len(a) + i] = b[i]
      BY <1>3
    <3>3. (Len(a) + i) - Len(a) = i /\ Len(a) + i \notin 1..Len(a)
      BY <1>3
    <3>4. f[Len(a) + i] = h[i]
      BY <3>2, <3>3 DEF f
    <3>. QED
      BY <3>1, <3>2, <3>4
  <2>. QED
    BY <2>1, <2>2
<1>9. Enumerated(f, c, some \cup others, p)
  BY <1>6, <1>7, <1>8 DEF Enumerated
<1>. QED
  BY <1>3, <1>5, <1>9 DEF Even, c

\* Sets that can be paired off have as many elements.
LEMMA PairedOff ==
    ASSUME NEW S, IsFiniteSet(S), NEW T, NEW f \in [S -> T],
           \A a, b \in S : f[a] = f[b] => a = b, \A t \in T : \E a \in S : f[a] = t
    PROVE  IsFiniteSet(T) /\ Cardinality(T) = Cardinality(S)
<1>1. f \in Bijection(S, T)
  BY DEF Bijection, Injection, Surjection, IsInjective
<1>2. ExistsBijection(S, T)
  BY <1>1 DEF ExistsBijection
<1>. QED
  BY <1>2, FS_Bijection

LEMMA Numbers ==
    ASSUME NEW n \in Nat
    PROVE  /\ IsFiniteSet(1..n) /\ Cardinality(1..n) = n
           /\ IsFiniteSet(0..(n - 1)) /\ Cardinality(0..(n - 1)) = n
<1>1. IsFiniteSet(1..n) /\ Cardinality(1..n) = IF 1 > n THEN 0 ELSE n - 1 + 1
  BY FS_Interval
<1>2. n - 1 \in Int /\ 0 \in Int
  OBVIOUS
<1>3. IsFiniteSet(0..(n - 1)) /\ Cardinality(0..(n - 1)) = IF 0 > n - 1 THEN 0 ELSE (n - 1) - 0 + 1
  BY <1>2, FS_Interval
<1>. QED
  BY <1>1, <1>3

\* A list without repetitions is as long as its set is large.
LEMMA DistinctSize ==
    ASSUME NEW list, List(list), Distinct(list)
    PROVE  IsFiniteSet(Range(list)) /\ Cardinality(Range(list)) = Len(list)
<1>. DEFINE n == Len(list)
            f == [k \in 1..n |-> list[k]]
<1>1. n \in Nat /\ DOMAIN list = 1..n /\ IsFiniteSet(1..n) /\ Cardinality(1..n) = n
  BY ListIs, Numbers
<1>2. \A k \in 1..n : f[k] = list[k]
  OBVIOUS
<1>3. f \in [1..n -> Range(list)] /\ \A t \in Range(list) : \E a \in 1..n : f[a] = t
  BY <1>1 DEF Range
<1>4. \A a, b \in 1..n : f[a] = f[b] => a = b
  BY <1>2 DEF Distinct
<1>. HIDE DEF f, n
<1>. QED
  BY <1>1, <1>3, <1>4, PairedOff DEF n

\* How many rows an even file has, and how many of each class at each SNR.
LEMMA EvenCounts ==
    ASSUME NEW rows, NEW p \in Nat \ {0}, Even(rows, Range(ClassOrder), p)
    PROVE  /\ Len(rows) = Len(ClassOrder) * Len(Snrs) * p
           /\ \A c \in Range(ClassOrder) : \A x \in Range(Snrs) :
                 Cardinality({r.id : r \in {q \in Range(rows) : q.cls = c /\ q.snr = x}}) = p
<1>. DEFINE S == Range(ClassOrder)
            X == Range(Snrs)
            E == 0..(p - 1)
            n == Len(rows)
<1>1. PICK g : Enumerated(g, rows, S, p)
  BY DEF Even
<1>2. n \in Nat /\ DOMAIN rows = 1..n /\ IsFiniteSet(1..n) /\ Cardinality(1..n) = n
  BY ListIs, Numbers DEF Even
<1>3. IsFiniteSet(E) /\ Cardinality(E) = p
  BY Numbers
<1>4. /\ \A k \in 1..n : rows[k].cls \in S /\ rows[k].snr \in X /\ g[k] \in E
      /\ \A c \in S : \A x \in X : \A e \in E : \E k \in 1..n : rows[k].cls = c /\ rows[k].snr = x /\ g[k] = e
  BY <1>1 DEF Enumerated
<1>5. \A j, k \in 1..n : rows[j].cls = rows[k].cls /\ rows[j].snr = rows[k].snr /\ g[j] = g[k] => j = k
  BY <1>1 DEF Enumerated
<1>. HIDE DEF S, X, E, n
<1>6. n = Len(ClassOrder) * Len(Snrs) * p
  <2>. DEFINE T == S \X (X \X E)
              f == [k \in 1..n |-> <<rows[k].cls, <<rows[k].snr, g[k]>>>>]
  <2>1. f \in [1..n -> T]
    BY <1>4
  <2>2. \A j, k \in 1..n : f[j] = f[k] => j = k
    BY <1>5
  <2>3. ASSUME NEW t \in T PROVE \E k \in 1..n : f[k] = t
    <3>1. PICK c \in S, x \in X, e \in E : t = <<c, <<x, e>>>>
      OBVIOUS
    <3>2. PICK k \in 1..n : rows[k].cls = c /\ rows[k].snr = x /\ g[k] = e
      BY <1>4
    <3>. QED
      BY <3>1, <3>2
  <2>4. Cardinality(T) = n
    <3>. HIDE DEF T, f
    <3>. QED
      BY <1>2, <2>1, <2>2, <2>3, PairedOff
  <2>5. IsFiniteSet(S) /\ Cardinality(S) = Len(ClassOrder)
    BY ClassesListed, DistinctSize DEF S
  <2>6. IsFiniteSet(X) /\ Cardinality(X) = Len(Snrs)
    BY ClassesListed, DistinctSize DEF X
  <2>7. IsFiniteSet(X \X E) /\ Cardinality(X \X E) = Len(Snrs) * p
    <3>1. IsFiniteSet(X \X E) /\ Cardinality(X \X E) = Cardinality(X) * Cardinality(E)
      BY <1>3, <2>6, FS_Product
    <3>. QED
      BY <1>3, <2>6, <3>1
  <2>8. Cardinality(T) = Cardinality(S) * Cardinality(X \X E)
    BY <2>5, <2>7, FS_Product
  <2>9. Cardinality(T) = Len(ClassOrder) * (Len(Snrs) * p)
    BY <2>5, <2>7, <2>8
  <2>10. Len(ClassOrder) \in Nat /\ Len(Snrs) \in Nat
    BY ClassesListed
  <2>11. Len(ClassOrder) * (Len(Snrs) * p) = Len(ClassOrder) * Len(Snrs) * p
    BY <2>10
  <2>. QED
    BY <2>4, <2>9, <2>11
<1>7. ASSUME NEW c \in S, NEW x \in X
      PROVE  Cardinality({r.id : r \in {q \in Range(rows) : q.cls = c /\ q.snr = x}}) = p
  <2>. DEFINE T == {r.id : r \in {q \in Range(rows) : q.cls = c /\ q.snr = x}}
              At(e) == CHOOSE k \in 1..n : rows[k].cls = c /\ rows[k].snr = x /\ g[k] = e
              f == [e \in E |-> rows[At(e)].id]
  <2>1. ASSUME NEW e \in E
        PROVE  /\ At(e) \in 1..n /\ rows[At(e)].cls = c /\ rows[At(e)].snr = x /\ g[At(e)] = e
               /\ f[e] = rows[At(e)].id
    <3>1. \E k \in 1..n : rows[k].cls = c /\ rows[k].snr = x /\ g[k] = e
      BY <1>4
    <3>2. f[e] = rows[At(e)].id
      OBVIOUS
    <3>. QED
      BY <3>1, <3>2
  <2>2. \A j, k \in 1..n : rows[j].cls = c /\ rows[k].cls = c /\ rows[j].id = rows[k].id => j = k
    BY DEF Even, Unlike, n
  <2>3. \A a, b \in E : f[a] = f[b] => a = b
    <3>. HIDE DEF At, f
    <3>. QED
      BY <2>1, <2>2
  <2>4. \A k \in 1..n : rows[k] \in Range(rows)
    BY <1>2 DEF Range
  <2>5. f \in [E -> T]
    <3>1. ASSUME NEW e \in E PROVE f[e] \in T
      <4>. HIDE DEF At, f
      <4>. QED
        BY <2>1, <2>4
    <3>. HIDE DEF T, At
    <3>. QED
      BY <3>1
  <2>6. ASSUME NEW t \in T PROVE \E e \in E : f[e] = t
    <3>1. PICK k \in 1..n : rows[k].cls = c /\ rows[k].snr = x /\ rows[k].id = t
      BY <1>2 DEF Range
    <3>2. g[k] \in E
      BY <1>4
    <3>3. At(g[k]) = k
      <4>. HIDE DEF At, f
      <4>. QED
        BY <1>5, <2>1, <3>1, <3>2
    <3>. HIDE DEF At, f, T
    <3>. QED
      BY <2>1, <3>1, <3>2, <3>3
  <2>. HIDE DEF T, f
  <2>7. Cardinality(T) = p
    BY <1>3, <2>3, <2>5, <2>6, PairedOff
  <2>. QED
    BY <2>7 DEF T
<1>. QED
  BY <1>6, <1>7 DEF S, X, n

\* Rows at the SNR stored beside them, of the given streams, and new ones of
\* the classes that were fixed.
Sourced(rows, fixed, seeds) ==
    \A k \in 1..Len(rows) : /\ rows[k].s = rows[k].snr /\ rows[k].id[1] \in seeds
                            /\ rows[k].cls \in fixed => rows[k].fresh = TRUE

\* What the training files and the holdouts are at all times.
Good(d, p, fixed, seeds) ==
    /\ Complete(d, LEN)
    /\ LabelsTrue(d.classes, d.rows) /\ Distinct(d.classes) /\ Range(d.classes) = Range(ClassOrder)
    /\ Even(d.rows, Range(ClassOrder), p)
    /\ Sourced(d.rows, fixed, seeds)

LEMMA SourcedPicked ==
    ASSUME NEW rows, List(rows), NEW fixed, NEW seeds, Sourced(rows, fixed, seeds),
           NEW keep \in SUBSET (1..Len(rows))
    PROVE  Sourced(Picked(rows, keep), fixed, seeds)
<1>. DEFINE b == Picked(rows, keep)
<1>1. Len(rows) \in Nat
  BY ListIs
<1>2. \A k \in 1..Len(b) : InOrder(keep)[k] \in keep /\ b[k] = rows[InOrder(keep)[k]]
  BY <1>1, PickedIs
<1>. HIDE DEF b
<1>3. ASSUME NEW k \in 1..Len(b)
      PROVE  /\ b[k].s = b[k].snr /\ b[k].id[1] \in seeds
             /\ b[k].cls \in fixed => b[k].fresh = TRUE
  <2>1. InOrder(keep)[k] \in 1..Len(rows) /\ b[k] = rows[InOrder(keep)[k]]
    BY <1>2
  <2>. QED
    BY <2>1 DEF Sourced
<1>. QED
  BY <1>3 DEF Sourced, b

LEMMA SourcedLike ==
    ASSUME NEW a, NEW b, NEW fixed, NEW seeds, Sourced(a, fixed, seeds), Len(b) = Len(a),
           \A k \in 1..Len(b) : Like(b[k], a[k])
    PROVE  Sourced(b, fixed, seeds)
  BY DEF Sourced, Like

LEMMA SourcedConcat ==
    ASSUME NEW a, NEW b, List(a), List(b), NEW fixed, NEW seeds,
           Sourced(a, fixed, seeds), Sourced(b, fixed, seeds)
    PROVE  Sourced(a \o b, fixed, seeds)
<1>. DEFINE c == a \o b
<1>1. \A k \in 1..Len(c) : \/ \E j \in 1..Len(a) : c[k] = a[j]
                           \/ \E j \in 1..Len(b) : c[k] = b[j]
  BY ConcatElements
<1>. HIDE DEF c
<1>. QED
  BY <1>1 DEF Sourced, c

\* A generated file before its rows are put anywhere.
LEMMA GeneratedRows ==
    ASSUME NEW seed, NEW wanted \in SUBSET Range(ClassOrder), NEW p \in Nat \ {0}, NEW fresh
    PROVE  LET d == Generated(seed, wanted, Snrs, p, fresh)
           IN  /\ Complete(d, LEN)
               /\ List(d.classes) /\ Distinct(d.classes) /\ Range(d.classes) = wanted
               /\ LabelsTrue(d.classes, d.rows) /\ Laid(d.classes, Snrs, p, d.rows)
               /\ \A k \in 1..Len(d.rows) : d.rows[k].cls \in wanted
               /\ Even(d.rows, wanted, p)
               /\ Made(d.rows, fresh, seed, wanted)
<1>. DEFINE d == Generated(seed, wanted, Snrs, p, fresh)
<1>1. /\ Complete(d, LEN)
      /\ List(d.classes) /\ Distinct(d.classes)
      /\ \A c : Has(d.classes, c) <=> c \in wanted /\ c \in Range(ClassOrder)
      /\ Laid(d.classes, Snrs, p, d.rows)
      /\ LabelsTrue(d.classes, d.rows)
      /\ Made(d.rows, fresh, seed, wanted \cap Range(ClassOrder))
  BY ClassesListed, GeneratedIs
<1>. HIDE DEF d
<1>2. Range(d.classes) = wanted
  <2>1. \A c : c \in Range(d.classes) <=> c \in wanted
    BY <1>1, HasRange
  <2>. QED
    BY <2>1
<1>3. Unlike(d.rows)
  <2>. SUFFICES ASSUME NEW j \in 1..Len(d.rows), NEW k \in 1..Len(d.rows), d.rows[j].id = d.rows[k].id
                PROVE  j = k
    BY DEF Unlike
  <2>1. d.rows[j].id = <<seed, wanted \cap Range(ClassOrder), j>>
    BY <1>1 DEF Made
  <2>2. d.rows[k].id = <<seed, wanted \cap Range(ClassOrder), k>>
    BY <1>1 DEF Made
  <2>. DEFINE W == wanted \cap Range(ClassOrder)
  <2>. HIDE DEF W
  <2>3. <<seed, W, j>> = <<seed, W, k>>
    BY <2>1, <2>2 DEF W
  <2>. QED
    BY <2>3
<1>4. List(d.rows)
  BY <1>1 DEF LabelsTrue
<1>5. Even(d.rows, wanted, p)
  BY <1>1, <1>2, <1>3, <1>4, EvenLaid
<1>6. Made(d.rows, fresh, seed, wanted)
  <2>1. wanted \cap Range(ClassOrder) = wanted
    OBVIOUS
  <2>. QED
    BY <1>1, <2>1
<1>7. ASSUME NEW k \in 1..Len(d.rows) PROVE d.rows[k].cls \in wanted
  <2>1. LabelTrue(d.classes, d.rows[k])
    BY <1>1 DEF LabelsTrue
  <2>2. Has(d.classes, d.rows[k].cls)
    BY <1>1, <2>1 DEF LabelTrue, Has
  <2>. QED
    BY <1>1, <2>2
<1>. QED
  BY <1>1, <1>2, <1>5, <1>6, <1>7 DEF d

LEMMA SourcedMade ==
    ASSUME NEW rows, NEW fresh, NEW seed, NEW names, Made(rows, fresh, seed, names),
           NEW fixed, NEW seeds, seed \in seeds, fresh = TRUE \/ fixed = {}
    PROVE  Sourced(rows, fixed, seeds)
<1>1. ASSUME NEW k \in 1..Len(rows)
      PROVE  /\ rows[k].s = rows[k].snr /\ rows[k].id[1] \in seeds
             /\ rows[k].cls \in fixed => rows[k].fresh = TRUE
  <2>1. rows[k].s = rows[k].snr
    BY DEF Made
  <2>2. rows[k].id = <<seed, names, k>>
    BY DEF Made
  <2>3. rows[k].id[1] = seed
    BY <2>2
  <2>4. rows[k].fresh = fresh
    BY DEF Made
  <2>5. rows[k].cls \in fixed => rows[k].fresh = TRUE
    BY <2>4, Zenon
  <2>. QED
    BY <2>1, <2>3, <2>5
<1>. QED
  BY <1>1 DEF Sourced

LEMMA GeneratedGood ==
    ASSUME NEW seed, NEW p \in Nat \ {0}, NEW seeds, seed \in seeds
    PROVE  Good(OldFile(seed, p), p, {}, seeds) /\ Laid(OldFile(seed, p).classes, Snrs, p, OldFile(seed, p).rows)
<1>. DEFINE S == Range(ClassOrder)
            none == {}
            no == FALSE
            d == Generated(seed, S, Snrs, p, no)
<1>1. S \in SUBSET Range(ClassOrder) /\ none = {}
  OBVIOUS
<1>2. /\ Complete(d, LEN)
      /\ List(d.classes) /\ Distinct(d.classes) /\ Range(d.classes) = S
      /\ LabelsTrue(d.classes, d.rows) /\ Even(d.rows, S, p) /\ Sourced(d.rows, none, seeds)
      /\ Laid(d.classes, Snrs, p, d.rows)
  <2>1. /\ Complete(d, LEN)
        /\ List(d.classes) /\ Distinct(d.classes) /\ Range(d.classes) = S
        /\ LabelsTrue(d.classes, d.rows) /\ Even(d.rows, S, p)
        /\ Laid(d.classes, Snrs, p, d.rows) /\ Made(d.rows, no, seed, S)
    <3>. HIDE DEF S, no
    <3>. QED
      BY <1>1, GeneratedRows
  <2>2. Sourced(d.rows, none, seeds)
    <3>. HIDE DEF d, none, S, no
    <3>. QED
      BY <1>1, <2>1, SourcedMade
  <2>. HIDE DEF d
  <2>. QED
    BY <2>1, <2>2
<1>. HIDE DEF d
<1>3. Good(d, p, none, seeds)
  BY <1>2 DEF Good
<1>. QED
  BY <1>2, <1>3 DEF d, OldFile

\* The rows of a patched file that stay.
Remaining(d, wanted) ==
    {k \in DOMAIN d.rows : d.rows[k].y \notin {ClassId(d.classes, c) : c \in wanted}}

LEMMA KeptRows ==
    ASSUME NEW d, LabelsTrue(d.classes, d.rows), Distinct(d.classes), Range(d.classes) = Range(ClassOrder),
           NEW wanted \in SUBSET Range(ClassOrder)
    PROVE  Remaining(d, wanted) = {k \in 1..Len(d.rows) : d.rows[k].cls \in Range(ClassOrder) \ wanted}
<1>1. DOMAIN d.rows = 1..Len(d.rows) /\ List(d.classes)
  BY ListIs DEF LabelsTrue
<1>2. ASSUME NEW k \in 1..Len(d.rows)
      PROVE  /\ d.rows[k].cls \in Range(ClassOrder)
             /\ d.rows[k].y \in {ClassId(d.classes, c) : c \in wanted} <=> d.rows[k].cls \in wanted
  <2>1. LabelTrue(d.classes, d.rows[k])
    BY DEF LabelsTrue
  <2>. DEFINE y == d.rows[k].y
              l == d.rows[k].cls
  <2>2. y \in Nat /\ y + 1 \in 1..Len(d.classes) /\ d.classes[y + 1] = l
    BY <2>1 DEF LabelTrue
  <2>. HIDE DEF y, l
  <2>3. Has(d.classes, l)
    BY <1>1, <2>2 DEF Has
  <2>4. l \in Range(ClassOrder)
    BY <1>1, <2>3, HasRange
  <2>5. \A c \in Range(ClassOrder) : /\ ClassId(d.classes, c) \in Nat
                                     /\ ClassId(d.classes, c) + 1 \in 1..Len(d.classes)
                                     /\ d.classes[ClassId(d.classes, c) + 1] = c
    <3>1. \A c \in Range(ClassOrder) : Has(d.classes, c)
      BY <1>1, HasRange
    <3>. QED
      BY <3>1, ClassIdIs
  <2>6. \A c \in wanted : y = ClassId(d.classes, c) => l = c
    BY <2>2, <2>5
  <2>7. y = ClassId(d.classes, l)
    <3>1. y + 1 = ClassId(d.classes, l) + 1
      BY <2>2, <2>4, <2>5 DEF Distinct
    <3>. QED
      BY <2>2, <2>4, <2>5, <3>1
  <2>8. y \in {ClassId(d.classes, c) : c \in wanted} <=> l \in wanted
    BY <2>6, <2>7
  <2>. QED
    BY <2>4, <2>8 DEF y, l
<1>. QED
  BY <1>1, <1>2 DEF Remaining

\* A patched file has the new rows for the classes wanted and the old ones for
\* the others.
LEMMA PatchedGood ==
    ASSUME NEW src, NEW p \in Nat \ {0}, NEW fixed, NEW seeds, Good(src, p, fixed, seeds),
           NEW wanted \in SUBSET Range(ClassOrder), NEW seed \in seeds
    PROVE  Good(Patched(src, wanted, Generated(seed, wanted, Snrs, p, TRUE)), p, fixed \cup wanted, seeds)
<1>. DEFINE S == Range(ClassOrder)
            new == Generated(seed, wanted, Snrs, p, TRUE)
            keep == {k \in 1..Len(src.rows) : src.rows[k].cls \in S \ wanted}
            kept == Picked(src.rows, keep)
            rel == Relabelled(new, src.classes)
            fix == fixed \cup wanted
            d == Patched(src, wanted, new)
<1>1. /\ LabelsTrue(new.classes, new.rows)
      /\ \A k \in 1..Len(new.rows) : new.rows[k].cls \in wanted
      /\ Even(new.rows, wanted, p) /\ Sourced(new.rows, fix, seeds)
  <2>1. /\ LabelsTrue(new.classes, new.rows)
        /\ \A k \in 1..Len(new.rows) : new.rows[k].cls \in wanted
        /\ Even(new.rows, wanted, p) /\ Made(new.rows, TRUE, seed, wanted)
    BY GeneratedRows
  <2>2. Sourced(new.rows, fix, seeds)
    <3>. HIDE DEF new, fix
    <3>. QED
      BY <2>1, SourcedMade
  <2>. HIDE DEF new, fix
  <2>. QED
    BY <2>1, <2>2
<1>. HIDE DEF new
<1>2. /\ Complete(src, LEN) /\ LabelsTrue(src.classes, src.rows)
      /\ Distinct(src.classes) /\ Range(src.classes) = S /\ Even(src.rows, S, p)
      /\ Sourced(src.rows, fixed, seeds) /\ List(src.classes) /\ List(src.rows)
  BY DEF Good, LabelsTrue
<1>3. Remaining(src, wanted) = keep
  BY <1>2, KeptRows
<1>4. d = Whole(src.len, src.classes, kept \o rel)
  <2>1. d = Whole(src.len, src.classes, Picked(src.rows, Remaining(src, wanted)) \o rel)
    BY DEF Patched, Remaining
  <2>. HIDE DEF keep, d, rel
  <2>. QED
    BY <1>3, <2>1
<1>5. src.len = LEN
  BY <1>2 DEF Whole, Complete
<1>6. Complete(d, LEN) /\ d.classes = src.classes /\ d.rows = kept \o rel
  <2>. HIDE DEF kept, rel, d
  <2>. QED
    BY <1>4, <1>5 DEF Whole, Complete
<1>7. /\ LabelsTrue(src.classes, rel) /\ Len(rel) = Len(new.rows)
      /\ \A k \in 1..Len(rel) : Like(rel[k], new.rows[k])
  <2>1. \A k \in 1..Len(new.rows) : Has(src.classes, new.rows[k].cls)
    BY <1>1, <1>2, HasRange
  <2>. QED
    BY <1>1, <1>2, <2>1, RelabelledIs
<1>8. keep \in SUBSET (1..Len(src.rows))
  OBVIOUS
<1>9. LabelsTrue(src.classes, kept)
  <2>. HIDE DEF keep
  <2>. QED
    BY <1>2, <1>8, PickedTrue
<1>10. Even(kept, S \ wanted, p)
  <2>1. S \ wanted \in SUBSET S
    OBVIOUS
  <2>2. keep = {k \in 1..Len(src.rows) : src.rows[k].cls \in S \ wanted}
    OBVIOUS
  <2>. HIDE DEF keep
  <2>. DEFINE W == S \ wanted
  <2>. HIDE DEF W
  <2>3. Even(kept, W, p)
    BY <1>2, <2>1, <2>2, EvenPicked DEF W
  <2>. QED
    BY <2>3 DEF W
<1>11. Sourced(kept, fix, seeds)
  <2>1. Sourced(kept, fixed, seeds)
    <3>. HIDE DEF keep
    <3>. QED
      BY <1>2, <1>8, SourcedPicked
  <2>2. \A k \in 1..Len(kept) : kept[k].cls \notin wanted
    <3>1. Len(src.rows) \in Nat
      BY <1>2, ListIs
    <3>2. \A k \in 1..Len(kept) : InOrder(keep)[k] \in keep /\ kept[k] = src.rows[InOrder(keep)[k]]
      <4>. HIDE DEF keep
      <4>. QED
        BY <1>8, <3>1, PickedIs
    <3>3. \A k \in keep : src.rows[k].cls \notin wanted
      OBVIOUS
    <3>. HIDE DEF keep, kept
    <3>. QED
      BY <3>2, <3>3
  <2>. HIDE DEF kept
  <2>. QED
    BY <2>1, <2>2 DEF Sourced
<1>. HIDE DEF keep, kept
<1>12. Sourced(rel, fix, seeds)
  <2>. HIDE DEF rel, fix
  <2>. QED
    BY <1>1, <1>7, SourcedLike
<1>13. Even(rel, wanted, p)
  <2>1. List(rel)
    BY <1>7 DEF LabelsTrue
  <2>. HIDE DEF rel
  <2>. QED
    BY <1>1, <1>7, <2>1, EvenLike
<1>. HIDE DEF rel
<1>14. LabelsTrue(src.classes, kept \o rel)
  BY <1>7, <1>9, ConcatTrue
<1>15. Even(kept \o rel, S, p)
  <2>1. (S \ wanted) \cap wanted = {} /\ (S \ wanted) \cup wanted = S
    OBVIOUS
  <2>. DEFINE W == S \ wanted
  <2>. HIDE DEF W
  <2>2. Even(kept \o rel, W \cup wanted, p)
    BY <1>10, <1>13, <2>1, EvenConcat DEF W
  <2>. QED
    BY <2>1, <2>2 DEF W
<1>16. Sourced(kept \o rel, fix, seeds)
  <2>1. List(kept) /\ List(rel)
    BY <1>7, <1>9 DEF LabelsTrue
  <2>. HIDE DEF fix
  <2>. QED
    BY <1>11, <1>12, <2>1, SourcedConcat
<1>. HIDE DEF d
<1>17. Good(d, p, fix, seeds)
  BY <1>2, <1>6, <1>14, <1>15, <1>16 DEF Good
<1>. QED
  BY <1>17 DEF d, new

\* The holdout that is made anew under the labels of the old one.
LEMMA AnewGood ==
    ASSUME NEW names, List(names), Distinct(names), Range(names) = Range(ClassOrder),
           NEW p \in Nat \ {0}, NEW seeds, NEW seed \in seeds
    PROVE  LET new == Generated(seed, Range(ClassOrder), Snrs, p, TRUE)
           IN  Good(Whole(LEN, names, Relabelled(Known(new, names), names)), p, {}, seeds)
<1>. DEFINE S == Range(ClassOrder)
            new == Generated(seed, S, Snrs, p, TRUE)
            keep == {k \in DOMAIN new.rows : new.rows[k].cls \in Range(names)}
            known == Known(new, names)
            rel == Relabelled(known, names)
            d == Whole(LEN, names, rel)
            none == {}
<1>1. /\ Complete(new, LEN)
      /\ LabelsTrue(new.classes, new.rows)
      /\ \A k \in 1..Len(new.rows) : new.rows[k].cls \in S
      /\ Even(new.rows, S, p) /\ Sourced(new.rows, none, seeds)
  <2>1. S \in SUBSET Range(ClassOrder)
    OBVIOUS
  <2>2. /\ Complete(new, LEN)
        /\ LabelsTrue(new.classes, new.rows)
        /\ \A k \in 1..Len(new.rows) : new.rows[k].cls \in S
        /\ Even(new.rows, S, p) /\ Made(new.rows, TRUE, seed, S)
    <3>. HIDE DEF S
    <3>. QED
      BY <2>1, GeneratedRows
  <2>3. Sourced(new.rows, none, seeds)
    <3>. HIDE DEF new, none, S
    <3>. QED
      BY <2>2, SourcedMade
  <2>. HIDE DEF new
  <2>. QED
    BY <2>2, <2>3
<1>. HIDE DEF new
<1>2. known = Whole(LEN, new.classes, Picked(new.rows, keep))
  <2>1. known = [new EXCEPT !.rows = Picked(new.rows, keep)]
    BY DEF Known
  <2>. DEFINE b == Picked(new.rows, keep)
  <2>. HIDE DEF b, keep
  <2>2. new = [state |-> "whole", len |-> LEN, classes |-> new.classes, rows |-> new.rows]
    BY <1>1 DEF Whole, Complete
  <2>. DEFINE s == new.classes t == new.rows
  <2>. HIDE DEF s, t
  <2>3. [new EXCEPT !.rows = b] = [state |-> "whole", len |-> LEN, classes |-> s, rows |-> b]
    BY <2>2 DEF s, t
  <2>. QED
    BY <2>1, <2>3 DEF Whole, b, s
<1>3. known.classes = new.classes /\ known.rows = Picked(new.rows, keep)
  BY <1>2 DEF Whole
<1>4. DOMAIN new.rows = 1..Len(new.rows) /\ List(new.rows)
  BY <1>1, ListIs DEF LabelsTrue
<1>5. keep = {k \in 1..Len(new.rows) : new.rows[k].cls \in S}
  BY <1>4
<1>. HIDE DEF keep, known
<1>6. keep \in SUBSET (1..Len(new.rows))
  BY <1>5
<1>7. LabelsTrue(known.classes, known.rows)
  BY <1>1, <1>3, <1>6, PickedTrue
<1>8. Even(known.rows, S, p)
  <2>1. S \in SUBSET S
    OBVIOUS
  <2>. HIDE DEF S
  <2>. QED
    BY <1>1, <1>3, <1>5, <2>1, EvenPicked
<1>9. Sourced(known.rows, none, seeds)
  BY <1>1, <1>3, <1>4, <1>6, SourcedPicked
<1>10. /\ LabelsTrue(names, rel) /\ Len(rel) = Len(known.rows)
       /\ \A k \in 1..Len(rel) : Like(rel[k], known.rows[k])
  <2>1. \A k \in 1..Len(known.rows) : known.rows[k].cls \in S
    BY <1>8 DEF Even, Enumerated
  <2>2. \A k \in 1..Len(known.rows) : Has(names, known.rows[k].cls)
    BY <2>1, HasRange
  <2>. QED
    BY <1>7, <2>2, RelabelledIs
<1>. HIDE DEF rel
<1>11. List(rel)
  BY <1>10 DEF LabelsTrue
<1>12. Even(rel, S, p)
  <2>. HIDE DEF S
  <2>. QED
    BY <1>8, <1>10, <1>11, EvenLike
<1>13. Sourced(rel, none, seeds)
  <2>. HIDE DEF none
  <2>. QED
    BY <1>9, <1>10, SourcedLike
<1>14. Complete(d, LEN) /\ d.classes = names /\ d.rows = rel
  BY DEF Whole, Complete
<1>. HIDE DEF d
<1>15. Good(d, p, none, seeds)
  BY <1>10, <1>12, <1>13, <1>14 DEF Good
<1>. QED
  BY <1>15 DEF d, rel, known, new

\* The places of a class are one stretch of the file, in which the SNRs come
\* in the order they have in a file of that class alone.
InStretch(i, c, m, p) ==
    LET first == (m * p) * (c - 1)
    IN  /\ first \in Nat
        /\ PlaceClass(i, m, p) = c <=> i \in (first + 1)..(first + m * p)
        /\ PlaceClass(i, m, p) = c => /\ i - first \in 1..(m * p)
                                      /\ PlaceSnr(i - first, m, p) = PlaceSnr(i, m, p)

LEMMA Stretch ==
    ASSUME NEW n \in Nat, NEW m \in Nat, NEW p \in Nat \ {0}, NEW c \in 1..n,
           NEW i \in 1..(n * (m * p))
    PROVE  InStretch(i, c, m, p)
<1>. DEFINE b == m * p
            first == b * (c - 1)
            a == PlaceClass(i, m, p)
            k == PlaceSnr(i, m, p)
            e == PlaceRow(i, p)
<1>1. m \in Nat \ {0} /\ b \in Nat \ {0} /\ c - 1 \in Nat
  OBVIOUS
<1>2. first \in Nat
  <2>. HIDE DEF b
  <2>. QED
    BY <1>1
<1>3. a \in 1..n /\ k \in 1..m /\ e \in 0..(p - 1) /\ InPlace(i, m, p)
  BY PlaceOf
<1>. HIDE DEF a, k, e
<1>4. i = b * (a - 1) + p * (k - 1) + e + 1
  BY <1>3 DEF InPlace, Place, a, k, e
<1>. DEFINE r == p * (k - 1) + e
<1>5. r \in 0..(b - 1)
  <2>1. k - 1 \in Nat /\ p * (k - 1) \in Nat /\ p * (k - 1) <= p * (m - 1)
    BY <1>1, <1>3
  <2>2. p * (m - 1) = b - p
    BY <1>1
  <2>3. b \in Nat
    BY <1>1
  <2>. HIDE DEF b
  <2>. QED
    BY <1>3, <2>1, <2>2, <2>3
<1>6. i = b * (a - 1) + r + 1
  <2>1. b * (a - 1) \in Nat /\ p * (k - 1) \in Nat
    BY <1>1, <1>3
  <2>. HIDE DEF b
  <2>. QED
    BY <1>3, <1>4, <2>1
<1>. HIDE DEF r
<1>7. ASSUME a = c PROVE i \in (first + 1)..(first + b) /\ i - first = r + 1
  <2>1. i = first + r + 1
    BY <1>6, <1>7
  <2>. HIDE DEF b, first
  <2>. QED
    BY <1>1, <1>2, <1>5, <2>1
<1>8. ASSUME i \in (first + 1)..(first + b) PROVE a = c
  <2>1. CASE a < c
    <3>1. b * (a - 1) + b <= first
      <4>1. b * (a - 1) + b = b * a
        BY <1>1, <1>3
      <4>2. b * a <= b * (c - 1)
        <5>. HIDE DEF b
        <5>. QED
          BY <1>1, <1>3, <2>1
      <4>. QED
        BY <4>1, <4>2
    <3>2. b * (a - 1) \in Nat
      <4>. HIDE DEF b
      <4>. QED
        BY <1>1, <1>3
    <3>. HIDE DEF b, first
    <3>. QED
      BY <1>1, <1>2, <1>5, <1>6, <1>8, <3>1, <3>2
  <2>2. CASE a > c
    <3>1. b * (a - 1) >= first + b
      <4>1. first + b = b * c
        BY <1>1
      <4>2. b * (a - 1) >= b * c
        <5>. HIDE DEF b
        <5>. QED
          BY <1>1, <1>3, <2>2
      <4>. QED
        BY <4>1, <4>2
    <3>2. b * (a - 1) \in Nat
      <4>. HIDE DEF b
      <4>. QED
        BY <1>1, <1>3
    <3>. HIDE DEF b, first
    <3>. QED
      BY <1>1, <1>2, <1>5, <1>6, <1>8, <3>1, <3>2
  <2>. QED
    BY <1>3, <2>1, <2>2
<1>9. ASSUME a = c PROVE i - first \in 1..b /\ PlaceSnr(i - first, m, p) = k
  <2>1. i - first = r + 1
    BY <1>7, <1>9
  <2>2. r + 1 \in 1..b
    <3>. HIDE DEF b
    <3>. QED
      BY <1>1, <1>5
  <2>3. r + 1 = Place(1, k, e, m, p)
    <3>1. (m * p) * (1 - 1) = 0
      BY <1>1
    <3>2. p * (k - 1) \in Nat
      BY <1>1, <1>3
    <3>. QED
      BY <1>3, <3>1, <3>2 DEF Place, r
  <2>4. PlaceSnr(Place(1, k, e, m, p), m, p) = k
    <3>1. 1 \in 1..1 /\ 1 \in Nat
      OBVIOUS
    <3>. HIDE DEF b
    <3>. QED
      BY <1>3, <3>1, PlaceAt, SMTT(30)
  <2>. HIDE DEF b, first
  <2>. QED
    BY <2>1, <2>2, <2>3, <2>4
<1>. QED
  BY <1>2, <1>7, <1>8, <1>9 DEF a, k, InStretch

\* The rank of a row among those of its class.
LEMMA RankIs ==
    ASSUME NEW first \in Nat, NEW b \in Nat, NEW i \in (first + 1)..(first + b), NEW earlier,
           earlier = (first + 1)..i
    PROVE  Cardinality(earlier) = i - first
<1>1. first + 1 \in Int /\ i \in Int
  OBVIOUS
<1>2. Cardinality((first + 1)..i) = IF first + 1 > i THEN 0 ELSE i - (first + 1) + 1
  BY <1>1, FS_Interval
<1>3. ~(first + 1 > i) /\ i - (first + 1) + 1 = i - first
  OBVIOUS
<1>. QED
  BY <1>2, <1>3

\* Replacing the rows of one class of a generated file in their places.
SplicedWell(src, d, p, seeds) ==
    /\ Good(d, p, {}, seeds) /\ Laid(d.classes, Snrs, p, d.rows)
    /\ Len(d.rows) = Len(src.rows)
    /\ \A i \in 1..Len(src.rows) :
          /\ d.rows[i].cls = src.rows[i].cls /\ d.rows[i].snr = src.rows[i].snr
          /\ src.rows[i].cls # "AM_DSB_SC" => d.rows[i] = src.rows[i]

LEMMA SplicedIs ==
    ASSUME NEW src, NEW p \in Nat \ {0}, NEW seeds, Good(src, p, {}, seeds),
           Laid(src.classes, Snrs, p, src.rows), NEW seed \in seeds,
           "AM_DSB_SC" \in Range(src.classes)
    PROVE  SplicedWell(src, Spliced(src, Generated(seed, {"AM_DSB_SC"}, Snrs, p, TRUE)), p, seeds)
<1>. DEFINE am == "AM_DSB_SC"
            W == {am}
            none == {}
            yes == TRUE
            new == Generated(seed, W, Snrs, p, yes)
            names == src.classes
            old == src.rows
            m == Len(Snrs)
            b == m * p
            n == Len(names)
            N == Len(old)
            lab == ClassId(names, am)
            first == b * lab
            C(i) == PlaceClass(i, m, p)
            K(i) == PlaceSnr(i, m, p)
            Rank(i) == Cardinality({j \in 1..i : old[j].y = lab})
            rows == [i \in DOMAIN old |-> IF old[i].y = lab THEN [new.rows[Rank(i)] EXCEPT !.y = lab]
                                           ELSE old[i]]
            d == Spliced(src, new)
<1>1. /\ Complete(src, LEN) /\ LabelsTrue(names, old) /\ Distinct(names)
      /\ Range(names) = Range(ClassOrder) /\ Even(old, Range(ClassOrder), p)
      /\ Sourced(old, none, seeds) /\ List(names) /\ List(old)
  BY DEF Good, LabelsTrue
<1>2. /\ n \in Nat /\ N \in Nat /\ m \in Nat /\ DOMAIN old = 1..N /\ N = n * (m * p)
  BY <1>1, ListIs, ClassesListed DEF Laid
<1>3. /\ Len(new.rows) = 1 * (m * p) /\ List(new.classes) /\ Range(new.classes) = W
      /\ Laid(new.classes, Snrs, p, new.rows) /\ LabelsTrue(new.classes, new.rows)
      /\ \A k \in 1..Len(new.rows) : new.rows[k].cls \in W
      /\ Made(new.rows, TRUE, seed, W)
  <2>1. W \in SUBSET Range(ClassOrder)
    BY <1>1
  <2>2. /\ List(new.classes) /\ Distinct(new.classes) /\ Range(new.classes) = W
        /\ Laid(new.classes, Snrs, p, new.rows) /\ LabelsTrue(new.classes, new.rows)
        /\ \A k \in 1..Len(new.rows) : new.rows[k].cls \in W
        /\ Made(new.rows, yes, seed, W)
    <3>. HIDE DEF W, yes
    <3>. QED
      BY <2>1, GeneratedRows
  <2>. HIDE DEF new
  <2>3. Cardinality(W) = 1
    BY FS_Singleton
  <2>4. Cardinality(Range(new.classes)) = Len(new.classes)
    BY <2>2, DistinctSize
  <2>5. Len(new.classes) = 1
    BY <2>2, <2>3, <2>4
  <2>. QED
    BY <2>2, <2>5 DEF Laid
<1>. HIDE DEF new, W, none
<1>4. d = [src EXCEPT !.rows = rows]
  BY DEF Spliced
<1>5. lab \in Nat /\ lab + 1 \in 1..n /\ names[lab + 1] = am
  <2>1. Has(names, am)
    BY <1>1, HasRange
  <2>. QED
    BY <2>1, ClassIdIs
<1>. HIDE DEF d, lab
<1>6. ASSUME NEW i \in 1..N
      PROVE  /\ C(i) \in 1..n /\ old[i].cls = names[C(i)] /\ old[i].y = C(i) - 1 /\ old[i].snr = Snrs[K(i)]
             /\ old[i].y = lab <=> C(i) = lab + 1
             /\ old[i].cls = am <=> C(i) = lab + 1
  <2>1. i \in 1..(n * (m * p))
    BY <1>2
  <2>2. C(i) \in 1..n
    <3>. HIDE DEF m, n
    <3>. QED
      BY <1>2, <2>1, PlaceOf
  <2>3. old[i].cls = names[C(i)] /\ old[i].y = C(i) - 1 /\ old[i].snr = Snrs[K(i)]
    BY DEF Laid
  <2>. HIDE DEF C, K
  <2>4. old[i].y = lab <=> C(i) = lab + 1
    BY <1>5, <2>2, <2>3
  <2>5. old[i].cls = am <=> C(i) = lab + 1
    BY <1>1, <1>5, <2>2, <2>3 DEF Distinct
  <2>. QED
    BY <2>2, <2>3, <2>4, <2>5
<1>7. ASSUME NEW i \in 1..N
      PROVE  /\ first \in Nat
             /\ C(i) = lab + 1 <=> i \in (first + 1)..(first + b)
             /\ C(i) = lab + 1 => i - first \in 1..b /\ PlaceSnr(i - first, m, p) = K(i)
  <2>1. i \in 1..(n * (m * p))
    BY <1>2
  <2>2. (lab + 1) - 1 = lab
    BY <1>5
  <2>. DEFINE c == lab + 1
  <2>3. c \in 1..n /\ c - 1 = lab
    BY <1>5, <2>2
  <2>. HIDE DEF c
  <2>4. InStretch(i, c, m, p)
    <3>. HIDE DEF m, n
    <3>. QED
      BY <1>2, <2>1, <2>3, Stretch
  <2>5. (m * p) * (c - 1) = first
    BY <2>3
  <2>. QED
    BY <2>4, <2>5 DEF c, InStretch
<1>. HIDE DEF C, K
<1>8. ASSUME NEW i \in 1..N, C(i) = lab + 1 PROVE Rank(i) = i - first /\ i - first \in 1..b
  <2>1. first \in Nat /\ i \in (first + 1)..(first + b) /\ i - first \in 1..b
    BY <1>7, <1>8
  <2>2. b \in Nat
    BY <1>2
  <2>3. \A j \in 1..i : old[j].y = lab <=> j \in (first + 1)..(first + b)
    <3>1. \A j \in 1..i : j \in 1..N
      <4>1. N \in Nat
        BY <1>2
      <4>. HIDE DEF N
      <4>. QED
        BY <4>1
    <3>. HIDE DEF first, b
    <3>. QED
      BY <1>6, <1>7, <3>1
  <2>. DEFINE earlier == {j \in 1..i : old[j].y = lab}
  <2>4. earlier = (first + 1)..i
    <3>. HIDE DEF first, b, old
    <3>. QED
      BY <2>1, <2>2, <2>3
  <2>5. Cardinality(earlier) = i - first
    <3>. HIDE DEF first, b, earlier
    <3>. QED
      BY <2>1, <2>2, <2>4, RankIs
  <2>. QED
    BY <2>1, <2>5
<1>. HIDE DEF Rank
<1>9. ASSUME NEW k \in 1..b
      PROVE  new.rows[k] = [cls |-> am, y |-> new.rows[k].y, snr |-> Snrs[PlaceSnr(k, m, p)],
                            s |-> Snrs[PlaceSnr(k, m, p)], fresh |-> yes, id |-> <<seed, W, k>>]
  <2>1. k \in 1..Len(new.rows)
    BY <1>2, <1>3
  <2>2. DataRow(new.rows[k])
    BY <1>3, <2>1 DEF LabelsTrue, LabelTrue
  <2>3. new.rows[k].cls = am
    BY <1>3, <2>1 DEF W
  <2>4. new.rows[k].snr = Snrs[PlaceSnr(k, m, p)]
    BY <1>3, <2>1 DEF Laid
  <2>5. new.rows[k].s = new.rows[k].snr /\ new.rows[k].id = <<seed, W, k>>
    BY <1>3, <2>1 DEF Made
  <2>6. new.rows[k].fresh = yes
    BY <1>3, <2>1 DEF Made
  <2>. QED
    BY <2>2, <2>3, <2>4, <2>5, <2>6 DEF DataRow
<1>10. ASSUME NEW i \in 1..N, C(i) = lab + 1
       PROVE  rows[i] = [cls |-> am, y |-> lab, snr |-> Snrs[K(i)], s |-> Snrs[K(i)],
                         fresh |-> yes, id |-> <<seed, W, i - first>>]
  <2>1. rows[i] = [new.rows[Rank(i)] EXCEPT !.y = lab]
    BY <1>2, <1>6, <1>10
  <2>2. Rank(i) = i - first /\ i - first \in 1..b
    BY <1>8, <1>10
  <2>3. PlaceSnr(i - first, m, p) = K(i)
    BY <1>7, <1>10
  <2>. DEFINE k == i - first
              x == Snrs[K(i)]
              l == new.rows[k].y
              w == <<seed, W, k>>
  <2>4. new.rows[k] = [cls |-> am, y |-> l, snr |-> x, s |-> x, fresh |-> yes, id |-> w]
    <3>. HIDE DEF first
    <3>. QED
      BY <1>9, <2>2, <2>3
  <2>. HIDE DEF k, x, l, w, yes, am
  <2>5. [new.rows[k] EXCEPT !.y = lab] = [cls |-> am, y |-> lab, snr |-> x, s |-> x, fresh |-> yes, id |-> w]
    BY <2>4
  <2>. QED
    BY <2>1, <2>2, <2>5 DEF k, x, w
<1>11. ASSUME NEW i \in 1..N, C(i) # lab + 1 PROVE rows[i] = old[i]
  BY <1>2, <1>6, <1>11
<1>12. List(rows) /\ Len(rows) = N
  <2>1. rows = [i \in 1..N |-> rows[i]] /\ DOMAIN rows = 1..N
    BY <1>2
  <2>. HIDE DEF rows, N
  <2>. QED
    BY <1>2, <2>1, MadeList
<1>. HIDE DEF rows
<1>13. d = Whole(LEN, names, rows) /\ d.classes = names /\ d.rows = rows
  <2>1. src = [state |-> "whole", len |-> LEN, classes |-> names, rows |-> old]
    BY <1>1 DEF Complete, Whole
  <2>. HIDE DEF names, old
  <2>. QED
    BY <1>4, <2>1 DEF Whole
<1>14. ASSUME NEW i \in 1..N
       PROVE  /\ rows[i].cls = old[i].cls /\ rows[i].y = old[i].y /\ rows[i].snr = old[i].snr
              /\ LabelTrue(names, rows[i])
              /\ rows[i].s = rows[i].snr /\ rows[i].id[1] \in seeds
              /\ old[i].cls # am => rows[i] = old[i]
              /\ old[i].cls = am => rows[i].id = <<seed, W, i - first>>
  <2>1. LabelTrue(names, old[i])
    BY <1>1 DEF LabelsTrue
  <2>2. CASE C(i) = lab + 1
    <3>1. rows[i] = [cls |-> am, y |-> lab, snr |-> Snrs[K(i)], s |-> Snrs[K(i)],
                     fresh |-> yes, id |-> <<seed, W, i - first>>]
      BY <1>10, <2>2
    <3>2. rows[i].cls = am /\ rows[i].y = lab /\ rows[i].snr = Snrs[K(i)] /\ rows[i].s = Snrs[K(i)]
      BY <3>1
    <3>3. rows[i].id = <<seed, W, i - first>>
      BY <3>1
    <3>4. rows[i].id[1] = seed
      BY <3>3
    <3>5. DataRow(rows[i])
      <4>. DEFINE x == Snrs[K(i)] w == <<seed, W, i - first>>
      <4>. HIDE DEF x, w, am, yes
      <4>1. rows[i] = [cls |-> am, y |-> lab, snr |-> x, s |-> x, fresh |-> yes, id |-> w]
        BY <3>1 DEF x, w
      <4>. QED
        BY <4>1 DEF DataRow
    <3>6. old[i].cls = am /\ old[i].y = lab /\ old[i].snr = Snrs[K(i)]
      BY <1>6, <2>2
    <3>7. LabelTrue(names, rows[i])
      BY <1>5, <3>2, <3>5 DEF LabelTrue
    <3>. QED
      BY <3>2, <3>3, <3>4, <3>6, <3>7
  <2>3. CASE C(i) # lab + 1
    <3>1. rows[i] = old[i] /\ old[i].cls # am
      BY <1>6, <1>11, <2>3
    <3>2. old[i].s = old[i].snr /\ old[i].id[1] \in seeds
      BY <1>1 DEF Sourced
    <3>. QED
      BY <2>1, <3>1, <3>2
  <2>. QED
    BY <2>2, <2>3
<1>15. LabelsTrue(names, rows)
  BY <1>1, <1>12, <1>14 DEF LabelsTrue
<1>16. Sourced(rows, none, seeds)
  BY <1>12, <1>14 DEF Sourced, none
<1>17. Laid(names, Snrs, p, rows)
  BY <1>12, <1>14 DEF Laid
<1>18. Unlike(rows)
  <2>. SUFFICES ASSUME NEW j \in 1..N, NEW k \in 1..N, rows[j].cls = rows[k].cls, rows[j].id = rows[k].id
                PROVE  j = k
    BY <1>12 DEF Unlike
  <2>1. CASE rows[j].cls = am
    <3>1. rows[j].id = <<seed, W, j - first>> /\ rows[k].id = <<seed, W, k - first>>
      BY <1>14, <2>1
    <3>2. j - first = k - first
      <4>. DEFINE u == j - first v == k - first
      <4>. HIDE DEF u, v
      <4>1. <<seed, W, u>> = <<seed, W, v>>
        BY <3>1 DEF u, v
      <4>2. u = v
        BY <4>1
      <4>. QED
        BY <4>2 DEF u, v
    <3>3. first \in Nat /\ j \in Nat /\ k \in Nat
      BY <1>2, <1>7
    <3>. HIDE DEF first
    <3>. QED
      BY <3>2, <3>3
  <2>2. CASE rows[j].cls # am
    <3>1. rows[j] = old[j] /\ rows[k] = old[k]
      BY <1>14, <2>2
    <3>2. Unlike(old)
      BY <1>1 DEF Even
    <3>. QED
      BY <3>1, <3>2 DEF Unlike
  <2>. QED
    BY <2>1, <2>2
<1>19. Even(rows, Range(names), p)
  BY <1>1, <1>12, <1>17, <1>18, EvenLaid
<1>20. Complete(d, LEN)
  BY <1>13 DEF Complete
<1>21. Good(d, p, none, seeds)
  BY <1>1, <1>13, <1>15, <1>16, <1>19, <1>20 DEF Good
<1>22. \A i \in 1..N : /\ d.rows[i].cls = old[i].cls /\ d.rows[i].snr = old[i].snr
                       /\ old[i].cls # am => d.rows[i] = old[i]
  BY <1>13, <1>14
<1>23. Laid(d.classes, Snrs, p, d.rows) /\ Len(d.rows) = N
  BY <1>12, <1>13, <1>17
<1>24. SplicedWell(src, d, p, seeds)
  <2>1. Good(d, p, {}, seeds)
    BY <1>21 DEF none
  <2>2. \A i \in 1..Len(src.rows) :
           /\ d.rows[i].cls = src.rows[i].cls /\ d.rows[i].snr = src.rows[i].snr
           /\ src.rows[i].cls # "AM_DSB_SC" => d.rows[i] = src.rows[i]
    BY <1>22
  <2>3. Laid(d.classes, Snrs, p, d.rows) /\ Len(d.rows) = Len(src.rows)
    BY <1>23
  <2>. QED
    BY <2>1, <2>2, <2>3, Zenon DEF SplicedWell
<1>. QED
  BY <1>24 DEF d, new, W, yes

\* No row twice, but for those of the capture that may be merged again.
Once(rows) ==
    \A i, j \in 1..Len(rows) : rows[i].id = rows[j].id => i = j \/ rows[i].id[2] = {"real_missing7"}
Apart(parts) ==
    \A i, j \in 1..Len(parts) : \A a \in 1..Len(parts[i]) : \A b \in 1..Len(parts[j]) :
        parts[i][a].id = parts[j][b].id =>
            (i = j /\ a = b) \/ parts[i][a].id[2] = {"real_missing7"}

LEMMA FlattenOnce ==
    ASSUME NEW seqs, List(seqs), \A i \in 1..Len(seqs) : List(seqs[i]), Apart(seqs)
    PROVE  Once(FlattenSeq(seqs))
<1>. DEFINE n == Len(seqs)
            again == {"real_missing7"}
<1>1. n \in Nat
  BY ListIs
<1>2. CASE n = 0
  <2>. DEFINE all == FlattenSeq(seqs)
  <2>1. List(all) /\ \A k \in 1..Len(all) : \E i \in 1..n : \E j \in 1..Len(seqs[i]) : all[k] = seqs[i][j]
    BY FlattenElements
  <2>. HIDE DEF all
  <2>2. 1..n = {}
    BY <1>2
  <2>. HIDE DEF n
  <2>3. \A k \in 1..Len(all) : FALSE
    BY <2>1, <2>2
  <2>. QED
    BY <2>3 DEF Once, all
<1>3. CASE n # 0
  <2>1. PICK f : Flattens(f, seqs, n) /\ FlattenSeq(seqs) = f[n]
    BY <1>1, <1>3, FlattenLast
  <2>. DEFINE From(m) == \A k \in 1..Len(f[m]) : \E i \in 1..m : \E a \in 1..Len(seqs[i]) : f[m][k] = seqs[i][a]
              T == {m \in Nat : m \in 1..n => List(f[m]) /\ Once(f[m]) /\ From(m)}
  <2>2. 0 \in T
    OBVIOUS
  <2>3. ASSUME NEW m \in Nat, m \in T PROVE m + 1 \in T
    <3>. SUFFICES ASSUME m + 1 \in 1..n PROVE List(f[m + 1]) /\ Once(f[m + 1]) /\ From(m + 1)
      <4>1. m + 1 \in Nat
        OBVIOUS
      <4>. HIDE DEF From
      <4>. QED
        BY <4>1
    <3>1. /\ m = 0 => f[m + 1] = seqs[m + 1]
          /\ m # 0 => m \in 1..n /\ f[m + 1] = f[m] \o seqs[m + 1]
      <4>1. Flattens(f, seqs, n) /\ m \in Nat /\ m + 1 \in 1..n
        BY <2>1
      <4>. HIDE DEF n
      <4>. QED
        BY <1>1, <4>1, FlattenPart, ZenonT(30)
    <3>. DEFINE s == seqs[m + 1]
    <3>2. List(s)
      OBVIOUS
    <3>3. \A j, k \in 1..Len(s) : s[j].id = s[k].id => j = k \/ s[j].id[2] = again
      BY DEF Apart
    <3>4. CASE m = 0
      <4>1. Once(s)
        BY <3>3 DEF Once
      <4>2. From(m + 1)
        BY <3>1, <3>4
      <4>. QED
        BY <3>1, <3>2, <3>4, <4>1, <4>2
    <3>5. CASE m # 0
      <4>. DEFINE g == f[m]
                  h == g \o s
      <4>1. List(g) /\ Once(g) /\ From(m) /\ m \in 1..n /\ f[m + 1] = h
        BY <2>3, <3>1, <3>5
      <4>2. /\ List(h) /\ Len(g) \in Nat /\ Len(s) \in Nat /\ Len(h) = Len(g) + Len(s)
            /\ \A k \in 1..Len(g) : k \in 1..Len(h) /\ h[k] = g[k]
            /\ \A k \in 1..Len(s) : Len(g) + k \in 1..Len(h) /\ h[Len(g) + k] = s[k]
            /\ \A k \in 1..Len(h) : k \in 1..Len(g) \/ k - Len(g) \in 1..Len(s)
        <5>. HIDE DEF g, s
        <5>1. List(g) /\ List(s) /\ List(h)
          BY <3>2, <4>1, ConcatElements
        <5>2. Len(g) \in Nat /\ Len(s) \in Nat
          BY <5>1, ListIs
        <5>. QED
          BY <5>1, <5>2, ConcatPlaces
      <4>3. \A k \in 1..Len(g) : \E i \in 1..m : \E a \in 1..Len(seqs[i]) : g[k] = seqs[i][a]
        BY <4>1
      <4>. HIDE DEF h, g
      <4>4. \A k \in 1..Len(h) : \/ k \in 1..Len(g) /\ h[k] = g[k]
                                 \/ k - Len(g) \in 1..Len(s) /\ h[k] = s[k - Len(g)]
        <5>. SUFFICES ASSUME NEW k \in 1..Len(h)
                      PROVE  \/ k \in 1..Len(g) /\ h[k] = g[k]
                             \/ k - Len(g) \in 1..Len(s) /\ h[k] = s[k - Len(g)]
          OBVIOUS
        <5>. HIDE DEF s
        <5>1. CASE k \in 1..Len(g)
          BY <4>2, <5>1
        <5>2. CASE k \notin 1..Len(g)
          <6>1. k - Len(g) \in 1..Len(s) /\ Len(g) + (k - Len(g)) = k
            BY <4>2, <5>2
          <6>. QED
            BY <4>2, <6>1
        <5>. QED
          BY <5>1, <5>2
      <4>5. ASSUME NEW j \in 1..Len(g), NEW k \in 1..Len(s)
            PROVE  /\ g[j].id = s[k].id => g[j].id[2] = again
                   /\ s[k].id = g[j].id => s[k].id[2] = again
        <5>1. PICK i \in 1..m : \E a \in 1..Len(seqs[i]) : g[j] = seqs[i][a]
          BY <4>3
        <5>2. PICK a \in 1..Len(seqs[i]) : g[j] = seqs[i][a]
          BY <5>1
        <5>3. i \in 1..n /\ m + 1 \in 1..n /\ i # m + 1
          BY <1>1
        <5>4. seqs[i][a].id = seqs[m + 1][k].id => seqs[i][a].id[2] = again
          BY <5>3 DEF Apart
        <5>. QED
          BY <5>2, <5>4
      <4>6. Once(h)
        <5>. SUFFICES ASSUME NEW j \in 1..Len(h), NEW k \in 1..Len(h), h[j].id = h[k].id
                      PROVE  j = k \/ h[j].id[2] = again
          BY DEF Once
        <5>. HIDE DEF s, again
        <5>1. CASE j \in 1..Len(g) /\ h[j] = g[j]
          <6>1. CASE k \in 1..Len(g) /\ h[k] = g[k]
            BY <4>1, <5>1, <6>1 DEF Once, again
          <6>2. CASE k - Len(g) \in 1..Len(s) /\ h[k] = s[k - Len(g)]
            BY <4>5, <5>1, <6>2
          <6>. QED
            BY <4>4, <6>1, <6>2
        <5>2. CASE j - Len(g) \in 1..Len(s) /\ h[j] = s[j - Len(g)]
          <6>1. CASE k \in 1..Len(g) /\ h[k] = g[k]
            BY <4>5, <5>2, <6>1
          <6>2. CASE k - Len(g) \in 1..Len(s) /\ h[k] = s[k - Len(g)]
            <7>1. j - Len(g) = k - Len(g) \/ h[j].id[2] = again
              BY <3>3, <5>2, <6>2
            <7>2. Len(g) \in Nat /\ j \in Int /\ k \in Int
              BY <4>2
            <7>3. j - Len(g) = k - Len(g) => j = k
              BY <7>2
            <7>. QED
              BY <7>1, <7>3
          <6>. QED
            BY <4>4, <6>1, <6>2
        <5>. QED
          BY <4>4, <5>1, <5>2
      <4>7. \A k \in 1..Len(h) : \E i \in 1..(m + 1) : \E a \in 1..Len(seqs[i]) : h[k] = seqs[i][a]
        <5>. SUFFICES ASSUME NEW k \in 1..Len(h)
                      PROVE  \E i \in 1..(m + 1) : \E a \in 1..Len(seqs[i]) : h[k] = seqs[i][a]
          OBVIOUS
        <5>1. CASE k \in 1..Len(g) /\ h[k] = g[k]
          <6>1. PICK i \in 1..m : \E a \in 1..Len(seqs[i]) : g[k] = seqs[i][a]
            BY <4>3, <5>1
          <6>2. i \in 1..(m + 1)
            OBVIOUS
          <6>. QED
            BY <5>1, <6>1, <6>2
        <5>2. CASE k - Len(g) \in 1..Len(s) /\ h[k] = s[k - Len(g)]
          <6>1. m + 1 \in 1..(m + 1)
            OBVIOUS
          <6>. QED
            BY <5>2, <6>1
        <5>. QED
          BY <4>4, <5>1, <5>2
      <4>8. From(m + 1)
        BY <4>1, <4>7
      <4>. QED
        BY <4>1, <4>2, <4>6, <4>8
    <3>. QED
      BY <3>4, <3>5
  <2>4. Nat \subseteq T
    <3>. HIDE DEF T
    <3>. QED
      BY <2>2, <2>3, SetInduction
  <2>5. n \in T /\ n \in 1..n
    <3>. HIDE DEF T, n
    <3>. QED
      BY <1>1, <1>3, <2>4
  <2>6. Once(f[n])
    <3>. HIDE DEF From
    <3>. QED
      BY <2>5
  <2>. QED
    BY <2>1, <2>6
<1>. QED
  BY <1>2, <1>3

\* The sources of a merge have true labels, and so has what they are merged to.
Sources(list) ==
    List(list) /\ \A k \in 1..Len(list) : LabelsTrue(list[k].classes, list[k].rows)

LEMMA MergedIs ==
    ASSUME NEW list, Sources(list), NEW len
    PROVE  LET d == Merged(len, list)
               parts == [k \in DOMAIN list |-> Relabelled(list[k], d.classes)]
           IN  /\ Complete(d, len) /\ LabelsTrue(d.classes, d.rows)
               /\ d.rows = FlattenSeq(parts)
               /\ List(parts) /\ Len(parts) = Len(list)
               /\ \A k \in 1..Len(parts) :
                     /\ LabelsTrue(d.classes, parts[k]) /\ Len(parts[k]) = Len(list[k].rows)
                     /\ \A j \in 1..Len(parts[k]) : Like(parts[k][j], list[k].rows[j])
<1>. DEFINE n == Len(list)
            all == [k \in DOMAIN list |-> list[k].classes]
            names == Named(FlattenSeq(all))
            parts == [k \in DOMAIN list |-> Relabelled(list[k], names)]
            d == Merged(len, list)
<1>1. n \in Nat /\ DOMAIN list = 1..n
  BY ListIs DEF Sources
<1>2. \A k \in 1..n : LabelsTrue(list[k].classes, list[k].rows) /\ List(list[k].classes)
  BY DEF Sources, LabelsTrue
<1>3. List(all) /\ Len(all) = n /\ \A k \in 1..n : all[k] = list[k].classes
  <2>1. all = [k \in 1..n |-> all[k]] /\ DOMAIN all = 1..n /\ \A k \in 1..n : all[k] = list[k].classes
    BY <1>1
  <2>. HIDE DEF all, n
  <2>. QED
    BY <1>1, <2>1, MadeList
<1>4. d = Whole(len, names, FlattenSeq(parts))
  BY DEF Merged
<1>5. d.classes = names /\ d.rows = FlattenSeq(parts) /\ Complete(d, len)
  <2>. HIDE DEF d, names, parts
  <2>. QED
    BY <1>4 DEF Whole, Complete
<1>. HIDE DEF d, all
<1>6. List(FlattenSeq(all))
  BY <1>2, <1>3, FlattenElements
<1>7. List(names) /\ \A j \in 1..Len(FlattenSeq(all)) : \E k \in 1..Len(names) : names[k] = FlattenSeq(all)[j]
  BY <1>6, NamedIs
<1>. HIDE DEF names
<1>8. ASSUME NEW k \in 1..n, NEW j \in 1..Len(list[k].rows) PROVE Has(names, list[k].rows[j].cls)
  <2>1. LabelTrue(list[k].classes, list[k].rows[j])
    BY <1>2 DEF LabelsTrue
  <2>. DEFINE c == list[k].rows[j].cls
  <2>2. Has(all[k], c)
    BY <1>2, <1>3, <2>1 DEF LabelTrue, Has
  <2>. HIDE DEF c
  <2>3. Has(FlattenSeq(all), c)
    <3>1. \A i \in 1..Len(all) : List(all[i])
      BY <1>2, <1>3
    <3>2. k \in 1..Len(all)
      BY <1>3
    <3>. QED
      BY <1>3, <2>2, <3>1, <3>2, FlattenAll
  <2>4. Has(names, c)
    BY <1>7, <2>3 DEF Has
  <2>. QED
    BY <2>4 DEF c
<1>9. List(parts) /\ Len(parts) = n /\ \A k \in 1..n : parts[k] = Relabelled(list[k], names)
  <2>1. parts = [k \in 1..n |-> parts[k]] /\ DOMAIN parts = 1..n
        /\ \A k \in 1..n : parts[k] = Relabelled(list[k], names)
    BY <1>1
  <2>. HIDE DEF parts, n
  <2>. QED
    BY <1>1, <2>1, MadeList
<1>10. ASSUME NEW k \in 1..n
       PROVE  /\ LabelsTrue(names, parts[k]) /\ Len(parts[k]) = Len(list[k].rows)
              /\ \A j \in 1..Len(parts[k]) : Like(parts[k][j], list[k].rows[j])
  <2>. DEFINE e == list[k]
  <2>1. LabelsTrue(e.classes, e.rows) /\ List(names) /\ \A j \in 1..Len(e.rows) : Has(names, e.rows[j].cls)
    BY <1>2, <1>7, <1>8
  <2>. HIDE DEF e
  <2>2. /\ LabelsTrue(names, Relabelled(e, names)) /\ Len(Relabelled(e, names)) = Len(e.rows)
        /\ \A j \in 1..Len(Relabelled(e, names)) : Like(Relabelled(e, names)[j], e.rows[j])
    BY <2>1, RelabelledIs
  <2>3. parts[k] = Relabelled(e, names)
    BY <1>9 DEF e
  <2>. HIDE DEF parts
  <2>. QED
    BY <2>2, <2>3 DEF e
<1>. HIDE DEF parts
<1>11. LabelsTrue(names, FlattenSeq(parts))
  BY <1>7, <1>9, <1>10, FlattenTrue
<1>12. d.classes = names /\ d.rows = FlattenSeq(parts) /\ Complete(d, len) /\ LabelsTrue(d.classes, d.rows)
  BY <1>5, <1>11
<1>13. parts = [k \in DOMAIN list |-> Relabelled(list[k], d.classes)]
  BY <1>5 DEF parts
<1>14. \A k \in 1..Len(parts) :
          /\ LabelsTrue(d.classes, parts[k]) /\ Len(parts[k]) = Len(list[k].rows)
          /\ \A j \in 1..Len(parts[k]) : Like(parts[k][j], list[k].rows[j])
  BY <1>5, <1>9, <1>10
<1>. QED
  BY <1>9, <1>12, <1>13, <1>14 DEF d

----------------------------------------------------------------------------
(* The data sets: the inductive invariant. *)

\* The random streams of the training files and those of the holdouts.
TrainSeeds == {1111, 2222, TrainSeed, DstarTrainSeed} \cup {FlexQamSeed(i) : i \in 1..5}
HoldSeeds == {3333, HoldSeed, DstarHoldSeed}

\* The classes a training file is made to replace.
FixedIn(f) ==
    CASE f = "synth_v10" -> FixedClasses
      [] f = "synth_v12" -> FixedClasses \cup {"DSTAR"}
      [] f = "synth_v13" -> FixedClasses \cup {"DSTAR"} \cup Asked(Range(FlexQamClasses))
      [] OTHER -> {}

Truthful(d) == \A k \in 1..Len(d.rows) : d.rows[k].s = d.rows[k].snr
CapturedIn(f, rows) == \A k \in 1..Len(rows) : rows[k].id = <<0, {f}, k>>

FileSound(f, d) ==
    /\ Complete(d, d.len) /\ LabelsTrue(d.classes, d.rows)
    /\ f \notin {"augmented", "extended"} => Truthful(d)
    /\ f \in TrainingFiles => Good(d, TrainPerSnr, FixedIn(f), TrainSeeds)
    /\ f \in HoldoutFiles => Good(d, HoldPerSnr, {}, HoldSeeds)
    /\ f \in {"synth_v6", "synth_v9"} => Laid(d.classes, Snrs, TrainPerSnr, d.rows)
    /\ f = "v6_holdout" => Laid(d.classes, Snrs, HoldPerSnr, d.rows)
    /\ f \in GeneratedFiles => d.len \in {512, 1024}
    /\ f \in RealFiles => CapturedIn(f, d.rows)
    /\ f = "real_combined" => Once(d.rows)

DataInv ==
    /\ npz = [f \in Files |-> npz[f]]
    /\ \A f \in Files : npz[f] \in {Absent, CutShort} \/ FileSound(f, npz[f])

LEMMA GoodTruthful ==
    ASSUME NEW d, NEW p, NEW fixed, NEW seeds, Good(d, p, fixed, seeds)
    PROVE  Complete(d, d.len) /\ LabelsTrue(d.classes, d.rows) /\ Truthful(d) /\ d.len = LEN
<1>1. d.len = LEN
  BY DEF Good, Complete, Whole
<1>2. Truthful(d)
  BY DEF Good, Sourced, Truthful
<1>. QED
  BY <1>1, <1>2 DEF Good

\* What is good enough for a training file or a holdout is sound.
LEMMA TrainingSound ==
    ASSUME NEW f \in TrainingFiles, NEW d, Good(d, TrainPerSnr, FixedIn(f), TrainSeeds),
           f \in {"synth_v6", "synth_v9"} => Laid(d.classes, Snrs, TrainPerSnr, d.rows)
    PROVE  FileSound(f, d)
<1>1. Complete(d, d.len) /\ LabelsTrue(d.classes, d.rows) /\ Truthful(d)
  BY GoodTruthful
<1>2. f \notin HoldoutFiles \cup GeneratedFiles \cup RealFiles \cup {"v6_holdout", "real_combined"}
  BY DEF TrainingFiles, HoldoutFiles, GeneratedFiles, RealFiles
<1>. QED
  BY <1>1, <1>2 DEF FileSound

LEMMA HoldoutSound ==
    ASSUME NEW f \in HoldoutFiles, NEW d, Good(d, HoldPerSnr, {}, HoldSeeds),
           f = "v6_holdout" => Laid(d.classes, Snrs, HoldPerSnr, d.rows)
    PROVE  FileSound(f, d)
<1>1. Complete(d, d.len) /\ LabelsTrue(d.classes, d.rows) /\ Truthful(d)
  <2>. DEFINE none == {}
  <2>1. Good(d, HoldPerSnr, none, HoldSeeds)
    OBVIOUS
  <2>. HIDE DEF none
  <2>. QED
    BY <2>1, GoodTruthful
<1>2. f \notin TrainingFiles \cup GeneratedFiles \cup RealFiles \cup {"synth_v6", "synth_v9", "real_combined"}
  BY DEF TrainingFiles, HoldoutFiles, GeneratedFiles, RealFiles
<1>. QED
  BY <1>1, <1>2 DEF FileSound

LEMMA GeneratedSound ==
    ASSUME NEW f \in GeneratedFiles, NEW d, Complete(d, d.len), LabelsTrue(d.classes, d.rows),
           d.len \in {512, 1024}, f \notin {"augmented", "extended"} => Truthful(d)
    PROVE  FileSound(f, d)
<1>1. f \notin TrainingFiles \cup HoldoutFiles \cup RealFiles \cup {"synth_v6", "synth_v9", "v6_holdout", "real_combined"}
  BY DEF TrainingFiles, HoldoutFiles, GeneratedFiles, RealFiles
<1>. QED
  BY <1>1 DEF FileSound

LEMMA RealSound ==
    ASSUME NEW f \in RealFiles, NEW d, Complete(d, d.len), LabelsTrue(d.classes, d.rows),
           Truthful(d), CapturedIn(f, d.rows)
    PROVE  FileSound(f, d)
<1>1. f \notin TrainingFiles \cup HoldoutFiles \cup GeneratedFiles \cup {"synth_v6", "synth_v9", "v6_holdout", "real_combined"}
  BY DEF TrainingFiles, HoldoutFiles, GeneratedFiles, RealFiles
<1>. QED
  BY <1>1 DEF FileSound

LEMMA CombinedSound ==
    ASSUME NEW f \in MergedFiles, NEW d, Complete(d, d.len), LabelsTrue(d.classes, d.rows),
           Truthful(d), f = "real_combined" => Once(d.rows)
    PROVE  FileSound(f, d)
<1>1. f \notin TrainingFiles \cup HoldoutFiles \cup GeneratedFiles \cup RealFiles \cup {"synth_v6", "synth_v9", "v6_holdout"}
  BY DEF TrainingFiles, HoldoutFiles, GeneratedFiles, RealFiles, MergedFiles
<1>. QED
  BY <1>1 DEF FileSound

LEMMA NotWhole ==
    ASSUME NEW d, d \in {Absent, CutShort}
    PROVE  d.state # "whole" /\ d.rows = <<>> /\ d.state \in {"absent", "torn"}
<1>1. Absent = [state |-> "absent", len |-> 0, classes |-> <<>>, rows |-> <<>>]
  BY DEF Absent
<1>. DEFINE e == <<>>
<1>2. Absent = [state |-> "absent", len |-> 0, classes |-> e, rows |-> e]
  BY <1>1
<1>. HIDE DEF e
<1>3. CutShort = [state |-> "torn", len |-> 0, classes |-> e, rows |-> e]
  BY <1>2 DEF CutShort
<1>4. d.rows = e /\ d.state # "whole" /\ d.state \in {"absent", "torn"}
  BY <1>2, <1>3
<1>. QED
  BY <1>4 DEF e

\* What can be read is sound.
LEMMA ReadableSound ==
    ASSUME DataInv, NEW f \in Files, Readable(f)
    PROVE  FileSound(f, npz[f])
  BY NotWhole DEF DataInv, Readable

\* Saving sound data, or being killed on the way, leaves the files sound.
LEMMA SaveSound ==
    ASSUME DataInv, NEW f \in Files, NEW d, FileSound(f, d), Save(f, d)
    PROVE  DataInv'
<1>1. DataInv
  OBVIOUS
<1>2. PICK e \in {d, CutShort} : npz' = [npz EXCEPT ![f] = e]
  BY DEF Save
<1>3. e = CutShort \/ FileSound(f, e)
  BY <1>2
<1>4. npz = [g \in Files |-> npz[g]]
  BY DEF DataInv
<1>5. npz' = [g \in Files |-> IF g = f THEN e ELSE npz[g]]
  BY <1>2, <1>4
<1>6. npz' = [g \in Files |-> npz'[g]]
  BY <1>5
<1>7. ASSUME NEW g \in Files PROVE npz'[g] \in {Absent, CutShort} \/ FileSound(g, npz'[g])
  <2>1. CASE g = f
    BY <1>3, <1>5, <2>1
  <2>2. CASE g # f
    BY <1>5, <2>2 DEF DataInv
  <2>. QED
    BY <2>1, <2>2
<1>8. DataInv' <=> /\ npz' = [g \in Files |-> npz'[g]]
                   /\ \A g \in Files : npz'[g] \in {Absent, CutShort} \/ FileSound(g, npz'[g])
  BY DEF DataInv
<1>. QED
  BY <1>6, <1>7, <1>8

\* A training file patched from another.
LEMMA PatchSaved ==
    ASSUME DataInv, NEW f \in TrainingFiles, NEW out \in TrainingFiles, out \notin {"synth_v6", "synth_v9"}, Readable(f),
           NEW wanted \in SUBSET Range(ClassOrder), NEW seed \in TrainSeeds,
           FixedIn(f) \cup wanted = FixedIn(out),
           Save(out, Patched(npz[f], wanted, Generated(seed, wanted, Snrs, TrainPerSnr, TRUE)))
    PROVE  DataInv'
<1>. DEFINE d == Patched(npz[f], wanted, Generated(seed, wanted, Snrs, TrainPerSnr, TRUE))
<1>1. f \in Files /\ out \in Files
  BY DEF Files
<1>2. Good(npz[f], TrainPerSnr, FixedIn(f), TrainSeeds)
  BY <1>1, ReadableSound DEF FileSound
<1>3. Good(d, TrainPerSnr, FixedIn(out), TrainSeeds)
  <2>. DEFINE src == npz[f]
              fixed == FixedIn(f)
  <2>1. Good(src, TrainPerSnr, fixed, TrainSeeds)
    BY <1>2
  <2>. HIDE DEF src, fixed
  <2>2. Good(Patched(src, wanted, Generated(seed, wanted, Snrs, TrainPerSnr, TRUE)), TrainPerSnr,
             fixed \cup wanted, TrainSeeds)
    BY <2>1, PatchedGood, PerSnrAssumption
  <2>. QED
    BY <2>2 DEF src, fixed
<1>4. Save(out, d)
  OBVIOUS
<1>. HIDE DEF d
<1>5. FileSound(out, d)
  BY <1>3, TrainingSound
<1>. QED
  BY <1>1, <1>4, <1>5, SaveSound

LEMMA FixedAre ==
    /\ FixedIn("synth_v6") = {} /\ FixedIn("synth_v9") = {} /\ FixedIn("synth_v10") = FixedClasses
    /\ FixedIn("synth_v12") = FixedClasses \cup {"DSTAR"}
    /\ FixedIn("synth_v13") = FixedClasses \cup {"DSTAR"} \cup Asked(Range(FlexQamClasses))
<1>1. FixedIn("synth_v6") = {} /\ FixedIn("synth_v9") = {}
  BY DEF FixedIn
<1>2. FixedIn("synth_v10") = FixedClasses
  BY DEF FixedIn
<1>3. FixedIn("synth_v12") = FixedClasses \cup {"DSTAR"}
  BY DEF FixedIn
<1>4. FixedIn("synth_v13") = FixedClasses \cup {"DSTAR"} \cup Asked(Range(FlexQamClasses))
  BY DEF FixedIn
<1>. QED
  BY <1>1, <1>2, <1>3, <1>4

LEMMA RegenFixedTrainingSound ==
    ASSUME DataInv, RegenFixedTraining
    PROVE  DataInv'
<1>1. FixedClasses \in SUBSET Range(ClassOrder)
  BY DEF FixedClasses, Asked
<1>2. TrainSeed \in TrainSeeds
  BY DEF TrainSeeds
<1>3. "synth_v9" \in TrainingFiles /\ "synth_v10" \in TrainingFiles
  BY DEF TrainingFiles
<1>4. FixedIn("synth_v9") \cup FixedClasses = FixedIn("synth_v10")
  BY FixedAre
<1>5. Readable("synth_v9") /\ Save("synth_v10", Patched(npz["synth_v9"], FixedClasses,
          Generated(TrainSeed, FixedClasses, Snrs, TrainPerSnr, TRUE)))
  BY DEF RegenFixedTraining
<1>. QED
  BY <1>1, <1>2, <1>3, <1>4, <1>5, PatchSaved

LEMMA RegenFixedHoldoutSound ==
    ASSUME DataInv, RegenFixedHoldout
    PROVE  DataInv'
<1>. DEFINE hold == npz["v6_holdout"].classes
            new == Generated(HoldSeed, Range(ClassOrder), Snrs, HoldPerSnr, TRUE)
            d == Whole(LEN, hold, Relabelled(Known(new, hold), hold))
<1>1. Readable("v6_holdout") /\ Save("v6_holdout_v2", d)
  BY DEF RegenFixedHoldout
<1>2. "v6_holdout" \in HoldoutFiles /\ "v6_holdout_v2" \in HoldoutFiles
      /\ "v6_holdout" \in Files /\ "v6_holdout_v2" \in Files
  BY DEF HoldoutFiles, Files
<1>3. Good(npz["v6_holdout"], HoldPerSnr, {}, HoldSeeds)
  BY <1>1, <1>2, ReadableSound DEF FileSound
<1>4. List(hold) /\ Distinct(hold) /\ Range(hold) = Range(ClassOrder)
  BY <1>3 DEF Good, LabelsTrue
<1>5. HoldSeed \in HoldSeeds
  BY DEF HoldSeeds
<1>. HIDE DEF hold
<1>6. Good(d, HoldPerSnr, {}, HoldSeeds)
  BY <1>4, <1>5, AnewGood, PerSnrAssumption
<1>. HIDE DEF d
<1>7. FileSound("v6_holdout_v2", d)
  BY <1>2, <1>6, HoldoutSound
<1>. QED
  BY <1>1, <1>2, <1>7, SaveSound

LEMMA RegenDstarTrainingSound ==
    ASSUME DataInv, RegenDstarTraining
    PROVE  DataInv'
<1>. DEFINE wanted == {"DSTAR"}
<1>1. /\ Readable("synth_v10") /\ HasClasses("synth_v10", wanted)
      /\ Save("synth_v12", Patched(npz["synth_v10"], wanted,
                 Generated(DstarTrainSeed, wanted, Snrs, TrainPerSnr, TRUE)))
  BY DEF RegenDstarTraining, PatchNpz
<1>2. "synth_v10" \in TrainingFiles /\ "synth_v12" \in TrainingFiles /\ "synth_v10" \in Files
  BY DEF TrainingFiles, Files
<1>3. Range(npz["synth_v10"].classes) = Range(ClassOrder)
  BY <1>1, <1>2, ReadableSound DEF FileSound, Good
<1>4. wanted \in SUBSET Range(ClassOrder)
  BY <1>1, <1>3 DEF HasClasses
<1>5. FixedIn("synth_v10") \cup wanted = FixedIn("synth_v12")
  BY FixedAre
<1>6. DstarTrainSeed \in TrainSeeds
  BY DEF TrainSeeds
<1>. HIDE DEF wanted
<1>. QED
  BY <1>1, <1>2, <1>4, <1>5, <1>6, PatchSaved

LEMMA RegenDstarHoldoutSound ==
    ASSUME DataInv, RegenDstarHoldout
    PROVE  DataInv'
<1>. DEFINE wanted == {"DSTAR"}
            none == {}
            src == npz["v6_holdout_v2"]
            d == Patched(src, wanted, Generated(DstarHoldSeed, wanted, Snrs, HoldPerSnr, TRUE))
<1>1. Readable("v6_holdout_v2") /\ HasClasses("v6_holdout_v2", wanted) /\ Save("v7_holdout", d)
  BY DEF RegenDstarHoldout, PatchNpz
<1>2. "v6_holdout_v2" \in HoldoutFiles /\ "v7_holdout" \in HoldoutFiles
      /\ "v6_holdout_v2" \in Files /\ "v7_holdout" \in Files
  BY DEF HoldoutFiles, Files
<1>3. Good(src, HoldPerSnr, none, HoldSeeds) /\ Range(src.classes) = Range(ClassOrder)
  BY <1>1, <1>2, ReadableSound DEF FileSound, Good
<1>4. wanted \in SUBSET Range(ClassOrder)
  BY <1>1, <1>3 DEF HasClasses
<1>5. DstarHoldSeed \in HoldSeeds
  BY DEF HoldSeeds
<1>. HIDE DEF wanted, none, src
<1>6. Good(d, HoldPerSnr, none \cup wanted, HoldSeeds)
  BY <1>3, <1>4, <1>5, PatchedGood, PerSnrAssumption
<1>. HIDE DEF d
<1>7. Good(d, HoldPerSnr, none, HoldSeeds)
  BY <1>6 DEF Good, Sourced, none
<1>8. FileSound("v7_holdout", d)
  BY <1>2, <1>7, HoldoutSound DEF none
<1>. QED
  BY <1>1, <1>2, <1>8, SaveSound

\* One class after the other.
LEMMA RegenFlexQamSound ==
    ASSUME DataInv, RegenFlexQam
    PROVE  DataInv'
<1>. DEFINE F == FlexQamClasses
            p == TrainPerSnr
            base == FixedIn("synth_v12")
            Patch(d, i) ==
                IF F[i] \in Range(ClassOrder)
                THEN Patched(d, {F[i]}, Generated(FlexQamSeed(i), {F[i]}, Snrs, p, TRUE))
                ELSE d
            Of(T) == base \cup Asked(T)
            src == npz["synth_v12"]
            out == Patch(Patch(Patch(Patch(Patch(src, 1), 2), 3), 4), 5)
<1>1. Readable("synth_v12") /\ Save("synth_v13", out)
  BY DEF RegenFlexQam
<1>2. "synth_v12" \in TrainingFiles /\ "synth_v13" \in TrainingFiles
      /\ "synth_v12" \in Files /\ "synth_v13" \in Files
  BY DEF TrainingFiles, Files
<1>3. Good(src, p, base, TrainSeeds)
  BY <1>1, <1>2, ReadableSound DEF FileSound
<1>. HIDE DEF src, base, F
<1>4. ASSUME NEW d, NEW T, NEW i \in 1..5, Good(d, p, Of(T), TrainSeeds)
      PROVE  Good(Patch(d, i), p, Of(T \cup {F[i]}), TrainSeeds)
  <2>. DEFINE c == F[i]
              seed == FlexQamSeed(i)
  <2>1. seed \in TrainSeeds
    BY DEF TrainSeeds
  <2>. HIDE DEF c, seed
  <2>2. CASE c \in Range(ClassOrder)
    <3>. DEFINE wanted == {c}
                e == Patched(d, wanted, Generated(seed, wanted, Snrs, p, TRUE))
    <3>1. wanted \in SUBSET Range(ClassOrder)
      BY <2>2
    <3>2. Of(T) \cup wanted = Of(T \cup {c})
      BY <2>2 DEF Asked
    <3>3. Patch(d, i) = e
      BY <2>2 DEF c, seed
    <3>. DEFINE S == Of(T)
    <3>. HIDE DEF wanted, S
    <3>4. Good(e, p, S \cup wanted, TrainSeeds)
      BY <1>4, <2>1, <3>1, PatchedGood, PerSnrAssumption DEF S
    <3>. HIDE DEF e, Patch
    <3>5. Good(e, p, Of(T \cup {c}), TrainSeeds)
      BY <3>2, <3>4 DEF S
    <3>. QED
      BY <3>3, <3>5 DEF c
  <2>3. CASE c \notin Range(ClassOrder)
    <3>1. Patch(d, i) = d
      BY <2>3 DEF c
    <3>2. Of(T \cup {c}) = Of(T)
      BY <2>3 DEF Asked
    <3>. HIDE DEF Patch
    <3>. QED
      BY <1>4, <3>1, <3>2 DEF c
  <2>. QED
    BY <2>2, <2>3
<1>5. Good(src, p, Of({}), TrainSeeds)
  <2>1. Of({}) = base
    BY DEF Asked
  <2>. QED
    BY <1>3, <2>1
<1>. HIDE DEF Patch, Of
<1>6. Good(out, p, Of({} \cup {F[1]} \cup {F[2]} \cup {F[3]} \cup {F[4]} \cup {F[5]}), TrainSeeds)
  <2>0. 1 \in 1..5 /\ 2 \in 1..5 /\ 3 \in 1..5 /\ 4 \in 1..5 /\ 5 \in 1..5
    OBVIOUS
  <2>1. Good(Patch(src, 1), p, Of({} \cup {F[1]}), TrainSeeds)
    BY <1>4, <1>5, <2>0, Zenon
  <2>2. Good(Patch(Patch(src, 1), 2), p, Of({} \cup {F[1]} \cup {F[2]}), TrainSeeds)
    BY <1>4, <2>0, <2>1, Zenon
  <2>3. Good(Patch(Patch(Patch(src, 1), 2), 3), p, Of({} \cup {F[1]} \cup {F[2]} \cup {F[3]}), TrainSeeds)
    BY <1>4, <2>0, <2>2, Zenon
  <2>4. Good(Patch(Patch(Patch(Patch(src, 1), 2), 3), 4), p,
             Of({} \cup {F[1]} \cup {F[2]} \cup {F[3]} \cup {F[4]}), TrainSeeds)
    BY <1>4, <2>0, <2>3, Zenon
  <2>. QED
    BY <1>4, <2>0, <2>4, Zenon
<1>7. Of({} \cup {F[1]} \cup {F[2]} \cup {F[3]} \cup {F[4]} \cup {F[5]}) = FixedIn("synth_v13")
  <2>1. {} \cup {F[1]} \cup {F[2]} \cup {F[3]} \cup {F[4]} \cup {F[5]} = Range(F)
    BY DEF F, FlexQamClasses, Range
  <2>2. base \cup Asked(Range(F)) = FixedIn("synth_v13")
    BY FixedAre DEF base, F
  <2>. QED
    BY <2>1, <2>2 DEF Of
<1>. HIDE DEF out
<1>8. FileSound("synth_v13", out)
  BY <1>2, <1>6, <1>7, TrainingSound
<1>. QED
  BY <1>1, <1>2, <1>8, SaveSound

\* The streams a job's file draws from.
SeedsOf(job) == IF job.path = "v6_holdout" THEN HoldSeeds ELSE TrainSeeds

LEMMA JobsAre ==
    ASSUME NEW k \in DOMAIN JOBS
    PROVE  \/ JOBS[k] = [path |-> "v6_holdout", perSnr |-> HoldPerSnr, seed |-> 3333]
           \/ JOBS[k] = [path |-> "synth_v6", perSnr |-> TrainPerSnr, seed |-> 1111]
           \/ JOBS[k] = [path |-> "synth_v9", perSnr |-> TrainPerSnr, seed |-> 2222]
<1>1. k = 1 \/ k = 2 \/ k = 3
  BY DEF JOBS
<1>. QED
  BY <1>1 DEF JOBS

LEMMA RegenAmDsbScSound ==
    ASSUME DataInv, NEW k \in DOMAIN JOBS, RegenAmDsbSc(k), NEW job, job = JOBS[k]
    PROVE  /\ DataInv'
           /\ npz' = [npz EXCEPT ![job.path] = CutShort]
              \/ /\ npz' = [npz EXCEPT ![job.path] = Spliced(npz[job.path], NewRows(job))]
                 /\ SplicedWell(npz[job.path], Spliced(npz[job.path], NewRows(job)),
                                job.perSnr, SeedsOf(job))
<1>. DEFINE f == job.path
            p == job.perSnr
            seed == job.seed
            seeds == SeedsOf(job)
            src == npz[f]
            d == Spliced(src, NewRows(job))
<1>1. \/ f = "v6_holdout" /\ p = HoldPerSnr /\ seed = 3333 /\ seeds = HoldSeeds
      \/ f = "synth_v6" /\ p = TrainPerSnr /\ seed = 1111 /\ seeds = TrainSeeds
      \/ f = "synth_v9" /\ p = TrainPerSnr /\ seed = 2222 /\ seeds = TrainSeeds
  BY JobsAre DEF SeedsOf
<1>2. Readable(f) /\ HasClasses(f, {"AM_DSB_SC"}) /\ Save(f, d)
  BY DEF RegenAmDsbSc, Spliceable
<1>0. d = Spliced(src, Generated(seed, {"AM_DSB_SC"}, Snrs, p, TRUE))
  BY DEF NewRows
<1>. HIDE DEF f, p, seed, d, seeds
<1>3. f \in Files /\ p \in Nat \ {0} /\ seed \in seeds
  BY <1>1, PerSnrAssumption DEF Files, HoldoutFiles, TrainingFiles, TrainSeeds, HoldSeeds
<1>4. FileSound(f, src)
  BY <1>2, <1>3, ReadableSound
<1>5. Good(src, p, {}, seeds) /\ Laid(src.classes, Snrs, p, src.rows)
  BY <1>1, <1>4, FixedAre DEF FileSound, HoldoutFiles, TrainingFiles
<1>6. "AM_DSB_SC" \in Range(src.classes)
  BY <1>2 DEF HasClasses
<1>7. SplicedWell(src, d, p, seeds)
  <2>. HIDE DEF src
  <2>. QED
    BY <1>0, <1>3, <1>5, <1>6, SplicedIs
<1>8. FileSound(f, d)
  <2>1. Good(d, p, {}, seeds) /\ Laid(d.classes, Snrs, p, d.rows)
    BY <1>7 DEF SplicedWell
  <2>2. CASE f \in {"synth_v6", "synth_v9"} /\ p = TrainPerSnr /\ seeds = TrainSeeds
    <3>1. f \in TrainingFiles /\ FixedIn(f) = {}
      BY <2>2, FixedAre DEF TrainingFiles
    <3>. QED
      BY <2>1, <2>2, <3>1, TrainingSound
  <2>3. CASE f = "v6_holdout" /\ p = HoldPerSnr /\ seeds = HoldSeeds
    <3>1. f \in HoldoutFiles
      BY <2>3 DEF HoldoutFiles
    <3>. QED
      BY <2>1, <2>3, <3>1, HoldoutSound
  <2>. QED
    BY <1>1, <2>2, <2>3
<1>9. DataInv'
  BY <1>2, <1>3, <1>8, SaveSound
<1>10. npz' = [npz EXCEPT ![f] = CutShort] \/ npz' = [npz EXCEPT ![f] = d]
  BY <1>2 DEF Save
<1>. QED
  BY <1>7, <1>9, <1>10 DEF f, p, d, seeds

\* Rows at the SNR stored beside them.
TruthfulRows(rows) == \A k \in 1..Len(rows) : rows[k].s = rows[k].snr

LEMMA TruthfulConcat ==
    ASSUME NEW a, NEW b, List(a), List(b), TruthfulRows(a), TruthfulRows(b)
    PROVE  TruthfulRows(a \o b)
<1>. DEFINE c == a \o b
<1>1. \A k \in 1..Len(c) : \/ \E j \in 1..Len(a) : c[k] = a[j]
                           \/ \E j \in 1..Len(b) : c[k] = b[j]
  BY ConcatElements
<1>. HIDE DEF c
<1>. QED
  BY <1>1 DEF TruthfulRows, c

LEMMA TruthfulFlatten ==
    ASSUME NEW seqs, List(seqs), \A i \in 1..Len(seqs) : List(seqs[i]) /\ TruthfulRows(seqs[i])
    PROVE  TruthfulRows(FlattenSeq(seqs))
<1>. DEFINE all == FlattenSeq(seqs)
<1>1. \A k \in 1..Len(all) : \E i \in 1..Len(seqs) : \E j \in 1..Len(seqs[i]) : all[k] = seqs[i][j]
  BY FlattenElements
<1>. HIDE DEF all
<1>. QED
  BY <1>1 DEF TruthfulRows, all

\* Rows that a generator made bear the class and the SNR they were made for.
LEMMA GeneratedTruthful ==
    ASSUME NEW seed, NEW wanted, NEW snrs, List(snrs), NEW fresh
    PROVE  LET d == Generated(seed, wanted, snrs, TrainPerSnr, fresh)
           IN  /\ Complete(d, d.len) /\ d.len = 1024 /\ Truthful(d)
               /\ LabelsTrue(d.classes, d.rows) /\ TruthfulRows(d.rows)
<1>. DEFINE d == Generated(seed, wanted, snrs, TrainPerSnr, fresh)
            names == wanted \cap Range(ClassOrder)
<1>1. Complete(d, LEN) /\ LabelsTrue(d.classes, d.rows) /\ Made(d.rows, fresh, seed, names)
  BY GeneratedIs, PerSnrAssumption
<1>. HIDE DEF d, names
<1>2. d.len = LEN
  BY <1>1 DEF Complete, Whole
<1>3. Truthful(d) /\ TruthfulRows(d.rows)
  BY <1>1 DEF Truthful, TruthfulRows, Made
<1>4. Complete(d, d.len) /\ d.len = 1024
  BY <1>1, <1>2 DEF LEN
<1>. QED
  BY <1>1, <1>3, <1>4 DEF d

LEMMA HardBoostSound ==
    ASSUME DataInv, HardBoost
    PROVE  DataInv'
<1>. DEFINE yes == TRUE
            first == Generated(4444, HardClasses, Snrs, TrainPerSnr, yes)
            second == Generated(5555, HardClasses, LoudSnrs, TrainPerSnr, yes)
            names == first.classes
            rows == first.rows \o second.rows
            d == Joined(first, second)
            name == "hardboost"
<1>1. Save(name, d)
  <2>1. HardBoost = Save(name, d)
    BY DEF HardBoost
  <2>. HIDE DEF name, d
  <2>. QED
    BY <2>1
<1>. HIDE DEF name
<1>2. names = second.classes
  BY DEF Generated, Whole
<1>3. List(LoudSnrs) /\ List(Snrs)
  <2>. DEFINE keep == {k \in DOMAIN Snrs : Snrs[k] >= 15}
  <2>1. keep \in SUBSET (1..Len(Snrs)) /\ Len(Snrs) \in Nat /\ List(Snrs) /\ LoudSnrs = Picked(Snrs, keep)
    BY ClassesListed, ListIs DEF LoudSnrs
  <2>. HIDE DEF keep
  <2>. QED
    BY <2>1, PickedIs
<1>. HIDE DEF yes
<1>4. LabelsTrue(first.classes, first.rows) /\ TruthfulRows(first.rows)
  BY <1>3, GeneratedTruthful
<1>5. LabelsTrue(second.classes, second.rows) /\ TruthfulRows(second.rows)
  BY <1>3, GeneratedTruthful
<1>. HIDE DEF first, second
<1>6. LabelsTrue(names, rows)
  BY <1>2, <1>4, <1>5, ConcatTrue
<1>7. TruthfulRows(rows)
  BY <1>4, <1>5, TruthfulConcat DEF LabelsTrue
<1>. HIDE DEF names, rows
<1>7a. d = Whole(LEN, names, rows)
  BY DEF Joined, names, rows
<1>8. d.classes = names /\ d.rows = rows /\ d.len = 1024 /\ Complete(d, d.len)
  BY <1>7a DEF Whole, Complete, LEN
<1>9. "hardboost" \in GeneratedFiles /\ "hardboost" \in Files
  BY DEF GeneratedFiles, Files
<1>. HIDE DEF d
<1>10. Truthful(d)
  BY <1>7, <1>8 DEF Truthful, TruthfulRows
<1>11. FileSound("hardboost", d)
  BY <1>6, <1>8, <1>9, <1>10, GeneratedSound
<1>. QED
  BY <1>1, <1>9, <1>11, SaveSound DEF name

LEMMA QamHeavySound ==
    ASSUME DataInv, QamHeavy
    PROVE  DataInv'
<1>. DEFINE yes == TRUE
            wanted == Asked(FamilyMembers.QAM)
            d == Generated(1234, wanted, Snrs, TrainPerSnr, yes)
<1>1. Save("qam_heavy", d)
  BY ZenonT(30) DEF QamHeavy
<1>2. List(Snrs)
  BY ClassesListed
<1>3. Complete(d, d.len) /\ d.len = 1024 /\ LabelsTrue(d.classes, d.rows) /\ Truthful(d)
  <2>. HIDE DEF yes, wanted
  <2>. QED
    BY <1>2, GeneratedTruthful
<1>. HIDE DEF d
<1>4. "qam_heavy" \in GeneratedFiles /\ "qam_heavy" \in Files
  BY DEF GeneratedFiles, Files
<1>5. FileSound("qam_heavy", d)
  BY <1>3, <1>4, GeneratedSound
<1>. QED
  BY <1>1, <1>4, <1>5, SaveSound

LEMMA GenerateIlsSound ==
    ASSUME DataInv, GenerateIls
    PROVE  DataInv'
<1>. DEFINE names == <<"AM_DSB">>
            am == "AM_DSB"
            yes == TRUE
            ids == {"ILS"}
            n == Len(Snrs)
            rows == [i \in DOMAIN Snrs |-> [cls |-> am, y |-> 0, snr |-> Snrs[i], s |-> Snrs[i],
                                            fresh |-> yes, id |-> <<42, ids, i>>]]
            d == Whole(512, names, rows)
<1>1. Save("ils", d)
  BY DEF GenerateIls
<1>2. n \in Nat /\ DOMAIN Snrs = 1..n
  BY ClassesListed, ListIs
<1>3. List(names) /\ 0 + 1 \in 1..Len(names) /\ names[0 + 1] = am
  BY DEF List
<1>. HIDE DEF names, am, yes, ids
<1>4. List(rows) /\ Len(rows) = n
  <2>1. rows = [i \in 1..n |-> rows[i]] /\ DOMAIN rows = 1..n
    BY <1>2
  <2>. HIDE DEF rows, n
  <2>. QED
    BY <1>2, <2>1, MadeList
<1>5. ASSUME NEW i \in 1..n PROVE LabelTrue(names, rows[i]) /\ rows[i].s = rows[i].snr
  <2>. DEFINE x == Snrs[i]
              w == <<42, ids, i>>
  <2>0. rows[i] = [cls |-> am, y |-> 0, snr |-> x, s |-> x, fresh |-> yes, id |-> w]
    BY <1>2
  <2>. HIDE DEF rows, x, w
  <2>1. DataRow(rows[i])
    BY <2>0 DEF DataRow
  <2>2. rows[i].cls = am /\ rows[i].y = 0 /\ rows[i].s = rows[i].snr
    BY <2>0
  <2>. QED
    BY <1>3, <2>1, <2>2 DEF LabelTrue
<1>6. d.classes = names /\ d.rows = rows /\ d.len = 512 /\ Complete(d, d.len)
  <2>. HIDE DEF rows
  <2>. QED
    BY DEF Whole, Complete
<1>. HIDE DEF rows, d
<1>7. LabelsTrue(d.classes, d.rows) /\ Truthful(d)
  BY <1>3, <1>4, <1>5, <1>6 DEF LabelsTrue, Truthful
<1>8. "ils" \in GeneratedFiles /\ "ils" \in Files
  BY DEF GeneratedFiles, Files
<1>9. FileSound("ils", d)
  BY <1>6, <1>7, <1>8, GeneratedSound
<1>. QED
  BY <1>1, <1>8, <1>9, SaveSound

\* Impaired copies bear the labels of their originals.
LEMMA WithCopiesIs ==
    ASSUME NEW src, Complete(src, src.len), LabelsTrue(src.classes, src.rows), NEW copies \in Nat, NEW snr
    PROVE  LET d == WithCopies(src, copies, snr)
           IN  d.len = src.len /\ Complete(d, d.len) /\ LabelsTrue(d.classes, d.rows)
<1>. DEFINE names == src.classes
            old == src.rows
            n == Len(old)
            copy == [i \in DOMAIN old |-> [old[i] EXCEPT !.s = snr]]
            one == <<old>>
            more == [k \in 1..copies |-> copy]
            parts == one \o more
            rows == FlattenSeq(parts)
            d == WithCopies(src, copies, snr)
<1>1. d = [src EXCEPT !.rows = rows]
  BY DEF WithCopies
<1>2. n \in Nat /\ DOMAIN old = 1..n /\ List(names) /\ List(old)
  BY ListIs DEF LabelsTrue
<1>3. List(copy) /\ Len(copy) = n
  <2>1. copy = [i \in 1..n |-> copy[i]] /\ DOMAIN copy = 1..n
    BY <1>2
  <2>. HIDE DEF copy, n
  <2>. QED
    BY <1>2, <2>1, MadeList
<1>4. ASSUME NEW i \in 1..n PROVE LabelTrue(names, copy[i])
  <2>1. LabelTrue(names, old[i])
    BY DEF LabelsTrue
  <2>2. copy[i] = [old[i] EXCEPT !.s = snr]
    BY <1>2
  <2>. DEFINE r == old[i]
              q == copy[i]
  <2>3. /\ r = [cls |-> r.cls, y |-> r.y, snr |-> r.snr, s |-> r.s, fresh |-> r.fresh, id |-> r.id]
        /\ q = [r EXCEPT !.s = snr]
    BY <2>1, <2>2 DEF LabelTrue, DataRow
  <2>. HIDE DEF r, q
  <2>4. q = [cls |-> r.cls, y |-> r.y, snr |-> r.snr, s |-> snr, fresh |-> r.fresh, id |-> r.id]
    BY <2>3
  <2>5. DataRow(q) /\ q.cls = r.cls /\ q.y = r.y
    BY <2>4 DEF DataRow
  <2>. QED
    BY <2>1, <2>5 DEF LabelTrue, r, q
<1>. HIDE DEF copy
<1>5. LabelsTrue(names, copy)
  BY <1>2, <1>3, <1>4 DEF LabelsTrue
<1>6. LabelsTrue(names, old)
  OBVIOUS
<1>. HIDE DEF old, names, d
<1>7. List(one) /\ Len(one) = 1 /\ one[1] = old
  BY DEF List
<1>8. List(more) /\ Len(more) = copies /\ \A k \in 1..copies : more[k] = copy
  <2>1. more = [k \in 1..copies |-> more[k]] /\ DOMAIN more = 1..copies /\ \A k \in 1..copies : more[k] = copy
    OBVIOUS
  <2>. HIDE DEF more
  <2>. QED
    BY <2>1, MadeList
<1>. HIDE DEF one, more
<1>9. List(parts) /\ \A k \in 1..Len(parts) : LabelsTrue(names, parts[k])
  <2>1. /\ List(parts)
        /\ \A k \in 1..Len(parts) : \/ \E j \in 1..Len(one) : parts[k] = one[j]
                                    \/ \E j \in 1..Len(more) : parts[k] = more[j]
    BY <1>7, <1>8, ConcatElements
  <2>. HIDE DEF parts
  <2>2. ASSUME NEW k \in 1..Len(parts) PROVE LabelsTrue(names, parts[k])
    <3>1. parts[k] = old \/ parts[k] = copy
      BY <1>7, <1>8, <2>1
    <3>. QED
      BY <1>5, <1>6, <3>1
  <2>. QED
    BY <2>1, <2>2
<1>. HIDE DEF parts
<1>10. LabelsTrue(names, rows)
  BY <1>2, <1>9, FlattenTrue
<1>. HIDE DEF rows
<1>11. d.len = src.len /\ d.classes = names /\ d.rows = rows /\ Complete(d, d.len)
  <2>. DEFINE l == src.len
  <2>1. src = [state |-> "whole", len |-> l, classes |-> names, rows |-> old]
    BY DEF Complete, Whole, names, old
  <2>. HIDE DEF l
  <2>2. d = [state |-> "whole", len |-> l, classes |-> names, rows |-> rows]
    BY <1>1, <2>1
  <2>3. d.len = l /\ d.classes = names /\ d.rows = rows
    BY <2>2
  <2>4. Complete(d, d.len)
    BY <2>2, <2>3 DEF Complete, Whole
  <2>. QED
    BY <2>3, <2>4 DEF l
<1>. QED
  BY <1>10, <1>11 DEF d

LEMMA AugmentSound ==
    ASSUME DataInv, NEW snr \in ProfileSnrs, Augment(snr)
    PROVE  DataInv'
<1>. DEFINE src == npz["ils"]
            d == WithCopies(src, 1, snr)
<1>1. Readable("ils") /\ Save("augmented", d)
  BY DEF Augment
<1>2. {"ils", "augmented"} \subseteq GeneratedFiles /\ {"ils", "augmented"} \subseteq Files
  BY DEF GeneratedFiles, Files
<1>3. FileSound("ils", src)
  BY <1>1, <1>2, ReadableSound
<1>4. Complete(src, src.len) /\ LabelsTrue(src.classes, src.rows) /\ src.len \in {512, 1024}
  BY <1>2, <1>3 DEF FileSound
<1>. HIDE DEF src
<1>5. d.len = src.len /\ Complete(d, d.len) /\ LabelsTrue(d.classes, d.rows)
  BY <1>4, WithCopiesIs
<1>. HIDE DEF d
<1>6. FileSound("augmented", d)
  BY <1>2, <1>4, <1>5, GeneratedSound
<1>. QED
  BY <1>1, <1>2, <1>6, SaveSound

LEMMA ExtendedSound ==
    ASSUME DataInv, NEW snr \in ProfileSnrs, NEW copies \in 0..2, Extended(copies, snr)
    PROVE  DataInv'
<1>. DEFINE yes == TRUE
            wanted == Asked(ExtendedClasses)
            base == Generated(42, wanted, Snrs, TrainPerSnr, yes)
            src == [base EXCEPT !.len = 512]
            d == WithCopies(src, copies, snr)
<1>1. Save("extended", d)
  BY DEF Extended
<1>2. Complete(base, LEN) /\ LabelsTrue(base.classes, base.rows)
  <2>1. List(Snrs)
    BY ClassesListed
  <2>. HIDE DEF yes, wanted
  <2>. QED
    BY <2>1, GeneratedIs, PerSnrAssumption
<1>. HIDE DEF base
<1>3. src.len = 512 /\ Complete(src, src.len) /\ LabelsTrue(src.classes, src.rows)
  <2>. DEFINE names == base.classes
              rows == base.rows
  <2>1. base = [state |-> "whole", len |-> LEN, classes |-> names, rows |-> rows]
    BY <1>2 DEF Complete, Whole
  <2>. HIDE DEF names, rows
  <2>2. src = [state |-> "whole", len |-> 512, classes |-> names, rows |-> rows]
    BY <2>1
  <2>. HIDE DEF src
  <2>3. src.len = 512 /\ src.classes = names /\ src.rows = rows
    BY <2>2
  <2>4. Complete(src, src.len)
    BY <2>2, <2>3 DEF Complete, Whole
  <2>. QED
    BY <1>2, <2>3, <2>4 DEF names, rows
<1>. HIDE DEF src
<1>4. d.len = 512 /\ Complete(d, d.len) /\ LabelsTrue(d.classes, d.rows)
  BY <1>3, WithCopiesIs
<1>. HIDE DEF d
<1>5. "extended" \in GeneratedFiles /\ "extended" \in Files
  BY DEF GeneratedFiles, Files
<1>6. FileSound("extended", d)
  BY <1>4, <1>5, GeneratedSound
<1>. QED
  BY <1>1, <1>5, <1>6, SaveSound

LEMMA PickedDistinct ==
    ASSUME NEW list, List(list), Distinct(list), NEW keep \in SUBSET (1..Len(list))
    PROVE  /\ List(Picked(list, keep)) /\ Distinct(Picked(list, keep))
           /\ \A k \in 1..Len(Picked(list, keep)) : \E j \in keep : Picked(list, keep)[k] = list[j]
<1>. DEFINE p == Picked(list, keep)
<1>1. Len(list) \in Nat
  BY ListIs
<1>2. /\ Lists(InOrder(keep), keep) /\ List(p) /\ Len(p) = Cardinality(keep)
      /\ \A k \in 1..Len(p) : InOrder(keep)[k] \in keep /\ p[k] = list[InOrder(keep)[k]]
  BY <1>1, PickedIs
<1>. HIDE DEF p
<1>3. ASSUME NEW j \in 1..Len(p), NEW k \in 1..Len(p), p[j] = p[k] PROVE j = k
  <2>. DEFINE x == InOrder(keep)[j]
              y == InOrder(keep)[k]
  <2>1. x \in keep /\ y \in keep /\ list[x] = list[y]
    BY <1>2, <1>3
  <2>2. x = y
    BY <2>1 DEF Distinct
  <2>. QED
    BY <1>2, <2>2 DEF Lists
<1>. QED
  BY <1>2, <1>3 DEF Distinct, p

\* The readable files of a list of names, by name.
FoundAt(names) == Picked(names, {k \in DOMAIN names : Readable(names[k])})

LEMMA FoundIs ==
    ASSUME DataInv, NEW names, List(names), \A k \in 1..Len(names) : names[k] \in Files
    PROVE  /\ List(Found(names)) /\ Len(Found(names)) = Len(FoundAt(names))
           /\ \A k \in 1..Len(Found(names)) :
                 /\ \E j \in 1..Len(names) : FoundAt(names)[k] = names[j]
                 /\ Found(names)[k] = npz[FoundAt(names)[k]]
                 /\ FileSound(FoundAt(names)[k], Found(names)[k])
           /\ Distinct(names) => Distinct(FoundAt(names))
<1>. DEFINE keep == {k \in DOMAIN names : Readable(names[k])}
            at == FoundAt(names)
            found == Found(names)
            n == Len(at)
<1>1. Len(names) \in Nat /\ DOMAIN names = 1..Len(names)
  BY ListIs
<1>2. at = Picked(names, keep)
  BY DEF FoundAt
<1>3. found = [k \in DOMAIN at |-> npz[at[k]]]
  BY DEF Found, FoundAt
<1>4. keep \in SUBSET (1..Len(names)) /\ \A k \in keep : Readable(names[k]) /\ names[k] \in Files
  BY <1>1
<1>. HIDE DEF keep, at, found
<1>5. List(at) /\ \A k \in 1..Len(at) : InOrder(keep)[k] \in keep /\ at[k] = names[InOrder(keep)[k]]
  BY <1>1, <1>2, <1>4, PickedIs
<1>6. n \in Nat /\ DOMAIN at = 1..n
  BY <1>5, ListIs
<1>7. List(found) /\ Len(found) = n /\ \A k \in 1..n : found[k] = npz[at[k]]
  <2>1. found = [k \in 1..n |-> npz[at[k]]]
    BY <1>3, <1>6
  <2>. HIDE DEF n
  <2>2. found = [k \in 1..n |-> found[k]] /\ \A k \in 1..n : found[k] = npz[at[k]]
    BY <2>1
  <2>. QED
    BY <1>6, <2>2, MadeList
<1>8. ASSUME NEW k \in 1..n
      PROVE  (\E j \in 1..Len(names) : at[k] = names[j]) /\ FileSound(at[k], found[k])
  <2>1. InOrder(keep)[k] \in keep /\ at[k] = names[InOrder(keep)[k]]
    BY <1>5
  <2>2. Readable(at[k]) /\ at[k] \in Files /\ \E j \in 1..Len(names) : at[k] = names[j]
    BY <1>4, <2>1
  <2>. QED
    BY <1>7, <2>2, ReadableSound
<1>9. Distinct(names) => Distinct(at)
  BY <1>2, <1>4, PickedDistinct
<1>. QED
  BY <1>7, <1>8, <1>9 DEF found, at

\* What is merged out of sound files.
LEMMA MergedTruthful ==
    ASSUME NEW list, Sources(list), \A k \in 1..Len(list) : Truthful(list[k]), NEW len
    PROVE  Truthful(Merged(len, list))
<1>. DEFINE d == Merged(len, list)
            parts == [k \in DOMAIN list |-> Relabelled(list[k], d.classes)]
<1>1. /\ d.rows = FlattenSeq(parts) /\ List(parts) /\ Len(parts) = Len(list)
      /\ \A k \in 1..Len(parts) :
            /\ LabelsTrue(d.classes, parts[k]) /\ Len(parts[k]) = Len(list[k].rows)
            /\ \A j \in 1..Len(parts[k]) : Like(parts[k][j], list[k].rows[j])
  BY MergedIs
<1>. HIDE DEF d, parts
<1>2. ASSUME NEW k \in 1..Len(parts) PROVE List(parts[k]) /\ TruthfulRows(parts[k])
  <2>1. \A j \in 1..Len(list[k].rows) : list[k].rows[j].s = list[k].rows[j].snr
    BY <1>1 DEF Truthful
  <2>. QED
    BY <1>1, <2>1 DEF LabelsTrue, Like, TruthfulRows
<1>3. TruthfulRows(FlattenSeq(parts))
  BY <1>1, <1>2, TruthfulFlatten
<1>. QED
  BY <1>1, <1>3 DEF Truthful, TruthfulRows, d

LEMMA MergedOnce ==
    ASSUME NEW list, Sources(list), NEW len,
           \A i, j \in 1..Len(list) : \A a \in 1..Len(list[i].rows) : \A b \in 1..Len(list[j].rows) :
               list[i].rows[a].id = list[j].rows[b].id =>
                   (i = j /\ a = b) \/ list[i].rows[a].id[2] = {"real_missing7"}
    PROVE  Once(Merged(len, list).rows)
<1>. DEFINE d == Merged(len, list)
            parts == [k \in DOMAIN list |-> Relabelled(list[k], d.classes)]
            again == {"real_missing7"}
<1>1. /\ d.rows = FlattenSeq(parts) /\ List(parts) /\ Len(parts) = Len(list)
      /\ \A k \in 1..Len(parts) :
            /\ LabelsTrue(d.classes, parts[k]) /\ Len(parts[k]) = Len(list[k].rows)
            /\ \A j \in 1..Len(parts[k]) : Like(parts[k][j], list[k].rows[j])
  BY MergedIs
<1>. HIDE DEF d, parts
<1>2. ASSUME NEW i \in 1..Len(parts), NEW j \in 1..Len(parts),
             NEW a \in 1..Len(parts[i]), NEW b \in 1..Len(parts[j]),
             parts[i][a].id = parts[j][b].id
      PROVE  (i = j /\ a = b) \/ parts[i][a].id[2] = again
  <2>1. /\ i \in 1..Len(list) /\ j \in 1..Len(list)
        /\ a \in 1..Len(list[i].rows) /\ b \in 1..Len(list[j].rows)
    BY <1>1
  <2>2. parts[i][a].id = list[i].rows[a].id /\ parts[j][b].id = list[j].rows[b].id
    BY <1>1 DEF Like
  <2>. HIDE DEF again
  <2>3. (i = j /\ a = b) \/ list[i].rows[a].id[2] = again
    BY <1>2, <2>1, <2>2, ZenonT(30) DEF again
  <2>. QED
    BY <2>2, <2>3
<1>3. Apart(parts)
  BY <1>2 DEF Apart
<1>4. \A k \in 1..Len(parts) : List(parts[k])
  BY <1>1 DEF LabelsTrue
<1>5. Once(FlattenSeq(parts))
  BY <1>1, <1>3, <1>4, FlattenOnce
<1>. QED
  BY <1>1, <1>5 DEF d

LEMMA SourcesListed ==
    ASSUME NEW extra \in {<<>>, <<"real_v11_p25">>}
    PROVE  LET names == AllSources(extra)
           IN  /\ List(names) /\ Distinct(names)
               /\ \A k \in 1..Len(names) : names[k] \in RealFiles \ {"real_missing7"}
<1>. DEFINE first == <<"real_fresh", "real_ils">>
            asked == first \o extra
            keep == {k \in DOMAIN V11Captures : V11Captures[k] \notin Range(asked)}
            more == Picked(V11Captures, keep)
            names == asked \o more
<1>1. AllSources(extra) = names
  BY DEF AllSources
<1>2. /\ List(V11Captures) /\ Distinct(V11Captures) /\ Len(V11Captures) = 2 /\ DOMAIN V11Captures = 1..2
      /\ \A k \in 1..2 : V11Captures[k] \in RealFiles \ {"real_missing7"}
  BY DEF V11Captures, List, Distinct, RealFiles
<1>3. /\ List(asked) /\ Distinct(asked)
      /\ \A k \in 1..Len(asked) : asked[k] \in RealFiles \ {"real_missing7"}
  <2>1. CASE extra = <<>>
    <3>1. asked = <<"real_fresh", "real_ils">>
      BY <2>1
    <3>. HIDE DEF asked
    <3>. QED
      BY <3>1 DEF List, Distinct, RealFiles
  <2>2. CASE extra = <<"real_v11_p25">>
    <3>1. List(first) /\ Len(first) = 2 /\ first[1] = "real_fresh" /\ first[2] = "real_ils"
      BY DEF List
    <3>2. List(extra) /\ Len(extra) = 1 /\ extra[1] = "real_v11_p25"
      BY <2>2 DEF List
    <3>. HIDE DEF first
    <3>3. /\ Len(asked) = Len(first) + Len(extra) /\ List(asked)
          /\ \A k \in 1..Len(first) : asked[k] = first[k]
          /\ \A k \in 1..Len(extra) : asked[Len(first) + k] = extra[k]
      <4>1. List(first) /\ List(extra)
        BY <3>1, <3>2
      <4>2. List(asked)
        BY <4>1, ConcatElements
      <4>. QED
        BY <4>1, <4>2, ConcatPlaces
    <3>. HIDE DEF asked
    <3>4. Len(asked) = 3 /\ asked[1] = "real_fresh" /\ asked[2] = "real_ils" /\ asked[3] = "real_v11_p25"
      BY <3>1, <3>2, <3>3
    <3>5. \A k \in 1..Len(asked) : k = 1 \/ k = 2 \/ k = 3
      BY <3>4
    <3>6. Distinct(asked)
      BY <3>4, <3>5 DEF Distinct
    <3>. QED
      BY <3>3, <3>4, <3>5, <3>6 DEF RealFiles
  <2>. QED
    BY <2>1, <2>2
<1>4. Len(asked) \in Nat /\ DOMAIN asked = 1..Len(asked)
  BY <1>3, ListIs
<1>. HIDE DEF asked
<1>5. keep \in SUBSET (1..Len(V11Captures)) /\ \A k \in keep : V11Captures[k] \notin Range(asked)
  BY <1>2
<1>. HIDE DEF keep
<1>6. List(more) /\ Distinct(more) /\ \A k \in 1..Len(more) : \E j \in keep : more[k] = V11Captures[j]
  BY <1>2, <1>5, PickedDistinct
<1>. HIDE DEF more
<1>7. \A k \in 1..Len(more) : more[k] \in RealFiles \ {"real_missing7"} /\ more[k] \notin Range(asked)
  BY <1>2, <1>5, <1>6
<1>8. /\ List(names)
      /\ \A k \in 1..Len(names) : \/ \E j \in 1..Len(asked) : names[k] = asked[j]
                                  \/ \E j \in 1..Len(more) : names[k] = more[j]
  BY <1>3, <1>6, ConcatElements
<1>9. Distinct(names)
  <2>1. /\ Len(names) = Len(asked) + Len(more) /\ Len(asked) \in Nat /\ Len(more) \in Nat
        /\ \A k \in 1..Len(asked) : names[k] = asked[k]
        /\ \A k \in 1..Len(more) : names[Len(asked) + k] = more[k]
    BY <1>3, <1>6, ConcatPlaces, ListIs
  <2>. HIDE DEF names
  <2>2. SUFFICES ASSUME NEW j \in 1..Len(names), NEW k \in 1..Len(names), names[j] = names[k]
                 PROVE  j = k
    BY DEF Distinct
  <2>3. \A i \in 1..Len(asked) : asked[i] \in Range(asked)
    BY <1>4 DEF Range
  <2>4. ASSUME NEW i \in 1..Len(names), i \notin 1..Len(asked)
        PROVE  i - Len(asked) \in 1..Len(more) /\ names[i] = more[i - Len(asked)]
    <3>1. i - Len(asked) \in 1..Len(more) /\ Len(asked) + (i - Len(asked)) = i
      BY <2>1, <2>4
    <3>. QED
      BY <2>1, <3>1
  <2>5. CASE j \in 1..Len(asked) /\ k \in 1..Len(asked)
    BY <1>3, <2>1, <2>2, <2>5 DEF Distinct
  <2>6. CASE j \in 1..Len(asked) /\ k \notin 1..Len(asked)
    BY <1>7, <2>1, <2>2, <2>3, <2>4, <2>6
  <2>7. CASE j \notin 1..Len(asked) /\ k \in 1..Len(asked)
    BY <1>7, <2>1, <2>2, <2>3, <2>4, <2>7
  <2>8. CASE j \notin 1..Len(asked) /\ k \notin 1..Len(asked)
    <3>1. j - Len(asked) = k - Len(asked)
      BY <1>6, <2>2, <2>4, <2>8, SMTT(30) DEF Distinct
    <3>. QED
      BY <2>1, <3>1
  <2>. QED
    BY <2>5, <2>6, <2>7, <2>8
<1>10. \A k \in 1..Len(names) : names[k] \in RealFiles \ {"real_missing7"}
  BY <1>3, <1>7, <1>8
<1>. QED
  BY <1>1, <1>8, <1>9, <1>10

\* Which stream or capture a row is from, and its place there.
LEMMA IdentityIs ==
    ASSUME NEW a, NEW b, NEW c, NEW x, NEW y, NEW z, NEW w, w = <<a, b, c>>
    PROVE  w[2] = b /\ (w = <<x, y, z>> => a = x /\ b = y /\ c = z)
  OBVIOUS

LEMMA PrepRealSound ==
    ASSUME DataInv, NEW extra \in {<<>>, <<"real_v11_p25">>}, PrepReal(extra)
    PROVE  DataInv'
<1>. DEFINE names == AllSources(extra)
            at == FoundAt(names)
            found == Found(names)
            d == Merged(LEN, found)
<1>1. Save("real_combined", d)
  BY DEF PrepReal
<1>2. List(names) /\ Distinct(names) /\ \A k \in 1..Len(names) : names[k] \in RealFiles \ {"real_missing7"}
  BY SourcesListed
<1>3. \A k \in 1..Len(names) : names[k] \in Files
  BY <1>2 DEF Files
<1>. HIDE DEF names
<1>4. /\ List(found) /\ Len(found) = Len(at) /\ Distinct(at)
      /\ \A k \in 1..Len(found) : /\ \E j \in 1..Len(names) : at[k] = names[j]
                                  /\ FileSound(at[k], found[k])
  BY <1>2, <1>3, FoundIs
<1>. HIDE DEF at, found
<1>5. ASSUME NEW k \in 1..Len(found)
      PROVE  LabelsTrue(found[k].classes, found[k].rows) /\ Truthful(found[k]) /\ CapturedIn(at[k], found[k].rows)
  <2>1. at[k] \in RealFiles /\ at[k] \notin {"augmented", "extended"}
    BY <1>2, <1>4 DEF RealFiles
  <2>. QED
    BY <1>4, <2>1 DEF FileSound
<1>6. Sources(found)
  BY <1>4, <1>5 DEF Sources
<1>7. ASSUME NEW i \in 1..Len(found), NEW j \in 1..Len(found),
             NEW a \in 1..Len(found[i].rows), NEW b \in 1..Len(found[j].rows),
             found[i].rows[a].id = found[j].rows[b].id
      PROVE  i = j /\ a = b
  <2>. DEFINE A == {at[i]}
              B == {at[j]}
              u == found[i].rows[a].id
              w == found[j].rows[b].id
  <2>1. u = <<0, A, a>> /\ w = <<0, B, b>> /\ u = w
    BY <1>5, <1>7 DEF CapturedIn
  <2>. HIDE DEF A, B, u, w
  <2>2. A = B /\ a = b
    BY <2>1, IdentityIs
  <2>3. at[i] = at[j]
    BY <2>2 DEF A, B
  <2>. QED
    BY <1>4, <2>2, <2>3 DEF Distinct
<1>8. Once(d.rows)
  BY <1>6, <1>7, MergedOnce
<1>9. Truthful(d)
  BY <1>5, <1>6, MergedTruthful
<1>10. Complete(d, LEN) /\ LabelsTrue(d.classes, d.rows)
  BY <1>6, MergedIs
<1>. HIDE DEF d
<1>11. Complete(d, d.len)
  BY <1>10 DEF Complete, Whole
<1>12. "real_combined" \in MergedFiles /\ "real_combined" \in Files
  BY DEF MergedFiles, Files
<1>13. FileSound("real_combined", d)
  BY <1>8, <1>9, <1>10, <1>11, <1>12, CombinedSound
<1>. QED
  BY <1>1, <1>12, <1>13, SaveSound

LEMMA PostCaptureMergeSound ==
    ASSUME DataInv, PostCaptureMerge
    PROVE  DataInv'
<1>. DEFINE old == npz["real_combined"]
            new == npz["real_missing7"]
            both == <<old, new>>
            len == old.len
            d == Merged(len, both)
<1>1. Readable("real_combined") /\ Readable("real_missing7") /\ Save("real_combined", d)
  BY DEF PostCaptureMerge
<1>2. /\ "real_combined" \in MergedFiles /\ "real_combined" \in Files
      /\ "real_missing7" \in RealFiles /\ "real_missing7" \in Files
      /\ {"real_combined", "real_missing7"} \cap {"augmented", "extended"} = {}
  BY DEF MergedFiles, RealFiles, Files
<1>3. FileSound("real_combined", old) /\ FileSound("real_missing7", new)
  BY <1>1, <1>2, ReadableSound
<1>4. /\ LabelsTrue(old.classes, old.rows) /\ LabelsTrue(new.classes, new.rows)
      /\ Truthful(old) /\ Truthful(new) /\ Once(old.rows) /\ CapturedIn("real_missing7", new.rows)
  BY <1>2, <1>3 DEF FileSound
<1>. HIDE DEF old, new, len
<1>5. List(both) /\ Len(both) = 2 /\ both[1] = old /\ both[2] = new
  BY DEF List
<1>. HIDE DEF both
<1>6. \A k \in 1..Len(both) : k = 1 \/ k = 2
  BY <1>5
<1>7. Sources(both) /\ \A k \in 1..Len(both) : Truthful(both[k])
  BY <1>4, <1>5, <1>6 DEF Sources
<1>8. ASSUME NEW i \in 1..Len(both), NEW j \in 1..Len(both),
             NEW a \in 1..Len(both[i].rows), NEW b \in 1..Len(both[j].rows),
             both[i].rows[a].id = both[j].rows[b].id
      PROVE  (i = j /\ a = b) \/ both[i].rows[a].id[2] = {"real_missing7"}
  <2>. DEFINE again == {"real_missing7"}
  <2>1. \A k \in 1..Len(new.rows) : new.rows[k].id = <<0, again, k>>
    BY <1>4 DEF CapturedIn
  <2>2. ASSUME NEW k \in 1..Len(new.rows) PROVE new.rows[k].id[2] = again
    <3>. DEFINE w == new.rows[k].id
    <3>1. w = <<0, again, k>>
      BY <2>1
    <3>. HIDE DEF w, again
    <3>2. w[2] = again
      BY <3>1, IdentityIs
    <3>. QED
      BY <3>2 DEF w
  <2>3. \A k, l \in 1..Len(old.rows) : old.rows[k].id = old.rows[l].id => k = l \/ old.rows[k].id[2] = again
    BY <1>4 DEF Once
  <2>. HIDE DEF again
  <2>4. CASE i = 1 /\ j = 1
    BY <1>5, <1>8, <2>3, <2>4 DEF again
  <2>5. CASE i = 2
    BY <1>5, <2>2, <2>5 DEF again
  <2>6. CASE i = 1 /\ j = 2
    <3>1. both[j].rows[b].id[2] = again
      BY <1>5, <2>2, <2>6
    <3>. QED
      BY <1>8, <3>1 DEF again
  <2>. QED
    BY <1>6, <2>4, <2>5, <2>6
<1>9. Once(d.rows)
  BY <1>7, <1>8, MergedOnce
<1>10. Truthful(d)
  BY <1>7, MergedTruthful
<1>11. Complete(d, len) /\ LabelsTrue(d.classes, d.rows)
  BY <1>7, MergedIs
<1>. HIDE DEF d
<1>12. Complete(d, d.len)
  BY <1>11 DEF Complete, Whole
<1>13. FileSound("real_combined", d)
  BY <1>2, <1>9, <1>10, <1>11, <1>12, CombinedSound
<1>. QED
  BY <1>1, <1>2, <1>13, SaveSound

\* The rows of a file whose classes another one knows, under its labels.
LEMMA KnownIs ==
    ASSUME NEW d, LabelsTrue(d.classes, d.rows), Truthful(d), Complete(d, d.len), NEW names, List(names)
    PROVE  LET new == Relabelled(Known(d, names), names)
           IN  LabelsTrue(names, new) /\ TruthfulRows(new)
<1>. DEFINE keep == {k \in DOMAIN d.rows : d.rows[k].cls \in Range(names)}
            e == Known(d, names)
            p == Picked(d.rows, keep)
            new == Relabelled(e, names)
<1>1. Len(d.rows) \in Nat /\ DOMAIN d.rows = 1..Len(d.rows)
  BY ListIs DEF LabelsTrue
<1>2. e.classes = d.classes /\ e.rows = p
  <2>. DEFINE s == d.classes
              r == d.rows
              l == d.len
  <2>1. d = [state |-> "whole", len |-> l, classes |-> s, rows |-> r]
    BY DEF Complete, Whole
  <2>2. e = [d EXCEPT !.rows = p]
    BY DEF Known
  <2>. HIDE DEF s, r, l, p, e
  <2>3. e = [state |-> "whole", len |-> l, classes |-> s, rows |-> p]
    BY <2>1, <2>2
  <2>. QED
    BY <2>3 DEF s
<1>3. keep \in SUBSET (1..Len(d.rows)) /\ \A k \in keep : d.rows[k].cls \in Range(names)
  BY <1>1
<1>. HIDE DEF keep, e
<1>4. /\ List(p) /\ \A k \in 1..Len(p) : InOrder(keep)[k] \in keep /\ p[k] = d.rows[InOrder(keep)[k]]
  BY <1>1, <1>3, PickedIs
<1>5. LabelsTrue(d.classes, p)
  BY <1>3, PickedTrue
<1>. HIDE DEF p
<1>6. ASSUME NEW k \in 1..Len(p) PROVE Has(names, p[k].cls) /\ p[k].s = p[k].snr
  <2>. DEFINE x == InOrder(keep)[k]
  <2>1. x \in keep /\ x \in 1..Len(d.rows) /\ p[k] = d.rows[x]
    BY <1>3, <1>4
  <2>2. d.rows[x].cls \in Range(names) /\ d.rows[x].s = d.rows[x].snr
    BY <1>3, <2>1 DEF Truthful
  <2>. QED
    BY <2>1, <2>2, HasRange
<1>7. LabelsTrue(e.classes, e.rows) /\ \A k \in 1..Len(e.rows) : Has(names, e.rows[k].cls)
  BY <1>2, <1>5, <1>6
<1>8. LabelsTrue(names, new) /\ Len(new) = Len(e.rows) /\ \A k \in 1..Len(new) : Like(new[k], e.rows[k])
  BY <1>7, RelabelledIs
<1>. HIDE DEF new
<1>9. TruthfulRows(new)
  BY <1>2, <1>6, <1>8 DEF TruthfulRows, Like
<1>. QED
  BY <1>8, <1>9 DEF new, e

LEMMA MergeRealDataSound ==
    ASSUME DataInv, MergeRealData
    PROVE  DataInv'
<1>. DEFINE present == Found(MergeSources)
            keep == {k \in DOMAIN present : present[k].len = LEN}
            found == Picked(present, keep)
            names == found[1].classes
            parts == [k \in DOMAIN found |-> Relabelled(Known(found[k], names), names)]
            d == Whole(LEN, names, FlattenSeq(parts))
<1>1. found # <<>> /\ Save("real_combined_v2", d)
  BY DEF MergeRealData
<1>2. List(MergeSources) /\ \A k \in 1..Len(MergeSources) :
          MergeSources[k] \in Files /\ MergeSources[k] \notin {"augmented", "extended"}
  <2>. DEFINE first == <<"real_combined", "real_fresh", "real_ils", "real_missing7">>
              Fit(f) == f \in Files /\ f \notin {"augmented", "extended"}
  <2>1. List(first) /\ \A k \in 1..Len(first) : Fit(first[k])
    BY DEF List, Files, MergedFiles, RealFiles
  <2>2. List(V11Captures) /\ \A k \in 1..Len(V11Captures) : Fit(V11Captures[k])
    BY DEF List, V11Captures, Files, RealFiles
  <2>3. MergeSources = first \o V11Captures
    BY DEF MergeSources
  <2>. HIDE DEF first, Fit
  <2>4. List(MergeSources) /\ \A k \in 1..Len(MergeSources) : Fit(MergeSources[k])
    BY <2>1, <2>2, <2>3, ConcatElements
  <2>. QED
    BY <2>4 DEF Fit
<1>3. /\ List(present)
      /\ \A k \in 1..Len(present) : /\ \E j \in 1..Len(MergeSources) : FoundAt(MergeSources)[k] = MergeSources[j]
                                    /\ FileSound(FoundAt(MergeSources)[k], present[k])
  BY <1>2, FoundIs
<1>. HIDE DEF present
<1>4. ASSUME NEW k \in 1..Len(present)
      PROVE  /\ LabelsTrue(present[k].classes, present[k].rows) /\ Truthful(present[k])
             /\ Complete(present[k], present[k].len)
  <2>1. FoundAt(MergeSources)[k] \notin {"augmented", "extended"}
    BY <1>2, <1>3
  <2>. QED
    BY <1>3, <2>1 DEF FileSound
<1>5. Len(present) \in Nat /\ DOMAIN present = 1..Len(present)
  BY <1>3, ListIs
<1>6. keep \in SUBSET (1..Len(present))
  BY <1>5
<1>. HIDE DEF keep
<1>7. List(found) /\ \A k \in 1..Len(found) : InOrder(keep)[k] \in keep /\ found[k] = present[InOrder(keep)[k]]
  BY <1>5, <1>6, PickedIs
<1>. HIDE DEF found
<1>8. ASSUME NEW k \in 1..Len(found)
      PROVE  /\ LabelsTrue(found[k].classes, found[k].rows) /\ Truthful(found[k])
             /\ Complete(found[k], found[k].len)
  <2>1. InOrder(keep)[k] \in 1..Len(present) /\ found[k] = present[InOrder(keep)[k]]
    BY <1>6, <1>7
  <2>. QED
    BY <1>4, <2>1
<1>9. Len(found) \in Nat /\ DOMAIN found = 1..Len(found) /\ 1 \in 1..Len(found)
  <2>1. Len(found) \in Nat /\ DOMAIN found = 1..Len(found)
    BY <1>7, ListIs
  <2>2. Len(found) # 0
    BY <1>1, <1>7 DEF List
  <2>. QED
    BY <2>1, <2>2
<1>10. List(names)
  BY <1>8, <1>9 DEF LabelsTrue
<1>. HIDE DEF names
<1>11. List(parts) /\ Len(parts) = Len(found)
       /\ \A k \in 1..Len(parts) : parts[k] = Relabelled(Known(found[k], names), names)
  <2>. DEFINE n == Len(found)
  <2>1. /\ parts = [k \in 1..n |-> parts[k]]
        /\ \A k \in 1..n : parts[k] = Relabelled(Known(found[k], names), names)
    BY <1>9
  <2>. HIDE DEF parts, n
  <2>2. n \in Nat
    BY <1>9 DEF n
  <2>3. List(parts) /\ Len(parts) = n
    BY <2>1, <2>2, MadeList
  <2>. QED
    BY <2>1, <2>3 DEF n
<1>. HIDE DEF parts
<1>12. ASSUME NEW k \in 1..Len(parts) PROVE List(parts[k]) /\ LabelsTrue(names, parts[k]) /\ TruthfulRows(parts[k])
  <2>. DEFINE e == found[k]
              new == Relabelled(Known(e, names), names)
  <2>1. LabelsTrue(e.classes, e.rows) /\ Truthful(e) /\ Complete(e, e.len) /\ parts[k] = new
    BY <1>8, <1>11
  <2>. HIDE DEF e
  <2>2. LabelsTrue(names, new) /\ TruthfulRows(new)
    BY <1>10, <2>1, KnownIs
  <2>. HIDE DEF new
  <2>. QED
    BY <2>1, <2>2 DEF LabelsTrue
<1>13. LabelsTrue(names, FlattenSeq(parts)) /\ TruthfulRows(FlattenSeq(parts))
  BY <1>10, <1>11, <1>12, FlattenTrue, TruthfulFlatten
<1>14. d.classes = names /\ d.rows = FlattenSeq(parts) /\ Complete(d, d.len)
  BY DEF Whole, Complete
<1>. HIDE DEF d
<1>15. LabelsTrue(d.classes, d.rows) /\ Truthful(d)
  BY <1>13, <1>14 DEF Truthful, TruthfulRows
<1>16. "real_combined_v2" \in MergedFiles /\ "real_combined_v2" \in Files /\ "real_combined_v2" # "real_combined"
  BY DEF MergedFiles, Files
<1>17. FileSound("real_combined_v2", d)
  BY <1>14, <1>15, <1>16, CombinedSound
<1>. QED
  BY <1>1, <1>16, <1>17, SaveSound

LEMMA CaptureDoneSound ==
    ASSUME DataInv, NEW f \in DOMAIN Captured, CaptureDone(f)
    PROVE  DataInv'
<1>. DEFINE windows == Captured[f]
            names == Named(windows)
            n == Len(windows)
            num(i) == ClassId(names, windows[i])
            yes == TRUE
            rows == [i \in DOMAIN windows |->
                        [cls |-> windows[i], y |-> num(i), snr |-> 10, s |-> 10,
                         fresh |-> yes, id |-> <<0, {f}, i>>]]
            d == Whole(LEN, names, rows)
<1>1. Save(f, d)
  BY DEF CaptureDone
<1>2. f \in RealFiles /\ f \in Files
  BY CapturedAssumption DEF Files
<1>3. List(windows)
  BY CapturedAssumption, SeqOfElements
<1>4. n \in Nat /\ DOMAIN windows = 1..n
  BY <1>3, ListIs
<1>5. List(names) /\ \A i \in 1..n : Has(names, windows[i])
  BY <1>3, NamedIs DEF Has
<1>. HIDE DEF windows, names, yes
<1>6. ASSUME NEW i \in 1..n PROVE num(i) \in Nat /\ num(i) + 1 \in 1..Len(names) /\ names[num(i) + 1] = windows[i]
  <2>1. Has(names, windows[i])
    BY <1>5
  <2>. QED
    BY <2>1, ClassIdIs
<1>. HIDE DEF num
<1>7. List(rows) /\ Len(rows) = n
  <2>1. rows = [i \in 1..n |-> rows[i]]
    BY <1>4
  <2>. HIDE DEF rows, n
  <2>. QED
    BY <1>4, <2>1, MadeList
<1>8. ASSUME NEW i \in 1..n
      PROVE  LabelTrue(names, rows[i]) /\ rows[i].s = rows[i].snr /\ rows[i].id = <<0, {f}, i>>
  <2>. DEFINE w == <<0, {f}, i>>
              c == windows[i]
              v == num(i)
  <2>1. rows[i] = [cls |-> c, y |-> v, snr |-> 10, s |-> 10, fresh |-> yes, id |-> w]
    BY <1>4
  <2>2. v \in Nat /\ v + 1 \in 1..Len(names) /\ names[v + 1] = c
    BY <1>6
  <2>. HIDE DEF rows, w, c, v
  <2>3. DataRow(rows[i])
    BY <2>1 DEF DataRow
  <2>4. rows[i].cls = c /\ rows[i].y = v /\ rows[i].s = rows[i].snr /\ rows[i].id = w
    BY <2>1
  <2>. QED
    BY <2>2, <2>3, <2>4 DEF LabelTrue, w
<1>9. d.classes = names /\ d.rows = rows /\ Complete(d, d.len)
  <2>. HIDE DEF rows
  <2>. QED
    BY DEF Whole, Complete
<1>. HIDE DEF rows, d
<1>10. LabelsTrue(d.classes, d.rows) /\ Truthful(d) /\ CapturedIn(f, d.rows)
  BY <1>5, <1>7, <1>8, <1>9 DEF LabelsTrue, Truthful, CapturedIn
<1>11. FileSound(f, d)
  BY <1>2, <1>9, <1>10, RealSound
<1>. QED
  BY <1>1, <1>2, <1>11, SaveSound

LEMMA OldTrainingSound ==
    ASSUME NEW f \in {"synth_v6", "synth_v9"}, NEW seed \in TrainSeeds
    PROVE  FileSound(f, OldFile(seed, TrainPerSnr))
<1>. DEFINE old == OldFile(seed, TrainPerSnr)
            none == {}
<1>1. f \in TrainingFiles /\ FixedIn(f) = none
  BY FixedAre DEF TrainingFiles
<1>2. Good(old, TrainPerSnr, none, TrainSeeds) /\ Laid(old.classes, Snrs, TrainPerSnr, old.rows)
  BY <1>1, GeneratedGood, PerSnrAssumption
<1>. HIDE DEF old, none
<1>3. FileSound(f, old)
  BY <1>1, <1>2, TrainingSound
<1>. QED
  BY <1>3 DEF old

LEMMA OldHoldoutSound == FileSound("v6_holdout", OldFile(3333, HoldPerSnr))
<1>. DEFINE hold == OldFile(3333, HoldPerSnr)
<1>1. "v6_holdout" \in HoldoutFiles /\ 3333 \in HoldSeeds
  BY DEF HoldoutFiles, HoldSeeds
<1>2. Good(hold, HoldPerSnr, {}, HoldSeeds) /\ Laid(hold.classes, Snrs, HoldPerSnr, hold.rows)
  BY <1>1, GeneratedGood, PerSnrAssumption
<1>. HIDE DEF hold
<1>3. FileSound("v6_holdout", hold)
  BY <1>1, <1>2, HoldoutSound
<1>. QED
  BY <1>3 DEF hold

LEMMA DataInitSound ==
    ASSUME DataInit
    PROVE  DataInv
<1>1. npz = [f \in Files |-> npz[f]]
  BY DEF DataInit
<1>2. ASSUME NEW f \in Files
      PROVE  \/ f = "v6_holdout" /\ npz[f] = OldFile(3333, HoldPerSnr)
             \/ f = "synth_v6" /\ npz[f] = OldFile(1111, TrainPerSnr)
             \/ f = "synth_v9" /\ npz[f] = OldFile(2222, TrainPerSnr)
             \/ npz[f] = Absent
  BY DEF DataInit, OldFiles
<1>3. 1111 \in TrainSeeds /\ 2222 \in TrainSeeds
  BY DEF TrainSeeds
<1>4. ASSUME NEW f \in Files PROVE npz[f] \in {Absent, CutShort} \/ FileSound(f, npz[f])
  BY <1>2, <1>3, OldTrainingSound, OldHoldoutSound
<1>. QED
  BY <1>1, <1>4 DEF DataInv

LEMMA DataStutters ==
    ASSUME DataInv, UNCHANGED dataVars
    PROVE  DataInv'
<1>1. npz' = npz
  BY DEF dataVars
<1>2. DataInv' <=> /\ npz' = [g \in Files |-> npz'[g]]
                   /\ \A g \in Files : npz'[g] \in {Absent, CutShort} \/ FileSound(g, npz'[g])
  BY DEF DataInv
<1>. QED
  BY <1>1, <1>2 DEF DataInv

LEMMA DataStep ==
    ASSUME DataInv, [DataNext]_dataVars
    PROVE  DataInv'
<1>1. ASSUME RegenScripts PROVE DataInv'
  BY <1>1, RegenFixedTrainingSound, RegenFixedHoldoutSound, RegenDstarTrainingSound,
     RegenDstarHoldoutSound, RegenFlexQamSound, RegenAmDsbScSound DEF RegenScripts
<1>2. ASSUME GeneratorScripts PROVE DataInv'
  BY <1>2, HardBoostSound, QamHeavySound, GenerateIlsSound, AugmentSound, ExtendedSound DEF GeneratorScripts
<1>3. ASSUME MergeScripts PROVE DataInv'
  BY <1>3, PrepRealSound, PostCaptureMergeSound, MergeRealDataSound, CaptureDoneSound DEF MergeScripts
<1>4. RegenScripts \/ GeneratorScripts \/ MergeScripts \/ UNCHANGED dataVars
  BY DEF DataNext
<1>. QED
  BY <1>1, <1>2, <1>3, <1>4, DataStutters

\* What the scripts keep of every file.
THEOREM DataInvAlways == DataSpec => []DataInv
<1>1. DataInit => DataInv
  BY DataInitSound
<1>2. DataInv /\ [DataNext]_dataVars => DataInv'
  BY DataStep
<1>. QED
  BY <1>1, <1>2, PTL DEF DataSpec

\* The rows of a file, if it has any.
LEMMA FileWithRows ==
    ASSUME DataInv, NEW f \in Files, npz[f].rows # <<>> \/ Readable(f)
    PROVE  /\ FileSound(f, npz[f]) /\ Readable(f)
           /\ List(npz[f].rows) /\ DOMAIN npz[f].rows = 1..Len(npz[f].rows)
<1>1. FileSound(f, npz[f])
  BY NotWhole DEF DataInv, Readable
<1>2. Readable(f)
  BY <1>1 DEF FileSound, Complete, Whole, Readable
<1>3. List(npz[f].rows)
  BY <1>1 DEF FileSound, LabelsTrue
<1>. QED
  BY <1>1, <1>2, <1>3, ListIs

LEMMA RowOf ==
    ASSUME DataInv, NEW f \in Files, NEW r \in Range(npz[f].rows)
    PROVE  FileSound(f, npz[f]) /\ \E k \in 1..Len(npz[f].rows) : r = npz[f].rows[k]
<1>1. npz[f].rows # <<>>
  <2>. SUFFICES ASSUME npz[f].rows = <<>> PROVE FALSE
    OBVIOUS
  <2>1. r \in Range(<<>>)
    OBVIOUS
  <2>. QED
    BY <2>1 DEF Range
<1>2. FileSound(f, npz[f]) /\ DOMAIN npz[f].rows = 1..Len(npz[f].rows)
  BY <1>1, FileWithRows
<1>. QED
  BY <1>2 DEF Range

LEMMA TypesKept ==
    ASSUME DataInv
    PROVE  DataTypeOK
<1>1. ASSUME NEW f \in Files PROVE npz[f].state \in {"absent", "torn", "whole"}
  <2>1. CASE npz[f] \in {Absent, CutShort}
    <3>1. npz[f].state \in {"absent", "torn"}
      BY <2>1, NotWhole
    <3>. QED
      BY <3>1
  <2>2. CASE FileSound(f, npz[f])
    <3>1. Readable(f)
      BY <2>2 DEF FileSound, Complete, Whole, Readable
    <3>. QED
      BY <3>1 DEF Readable
  <2>. QED
    BY <2>1, <2>2 DEF DataInv
<1>2. ASSUME NEW f \in Files, npz[f].rows # <<>> PROVE Readable(f)
  BY <1>2, FileWithRows
<1>3. ASSUME NEW f \in Files, NEW r \in Range(npz[f].rows) PROVE r.y + 1 \in DOMAIN npz[f].classes
  <2>1. PICK k \in 1..Len(npz[f].rows) : r = npz[f].rows[k]
    BY RowOf
  <2>2. LabelsTrue(npz[f].classes, npz[f].rows)
    <3>1. FileSound(f, npz[f])
      BY RowOf
    <3>. QED
      BY <3>1, Zenon DEF FileSound
  <2>3. r.y + 1 \in 1..Len(npz[f].classes) /\ List(npz[f].classes)
    BY <2>1, <2>2 DEF LabelsTrue, LabelTrue
  <2>. QED
    BY <2>3, ListIs
<1>. QED
  BY <1>1, <1>2, <1>3 DEF DataTypeOK

LEMMA LabelsKept ==
    ASSUME DataInv
    PROVE  LabelsSound
<1>1. ASSUME NEW f \in Files, NEW r \in Range(npz[f].rows)
      PROVE  npz[f].classes[r.y + 1] = r.cls /\ (f \notin {"augmented", "extended"} => r.s = r.snr)
  <2>1. PICK k \in 1..Len(npz[f].rows) : r = npz[f].rows[k]
    BY RowOf
  <2>2. LabelsTrue(npz[f].classes, npz[f].rows) /\ (f \notin {"augmented", "extended"} => Truthful(npz[f]))
    BY RowOf DEF FileSound
  <2>. QED
    BY <2>1, <2>2 DEF LabelsTrue, LabelTrue, Truthful
<1>. QED
  BY <1>1 DEF LabelsSound

LEMMA BalanceKept ==
    ASSUME DataInv
    PROVE  Balanced
<1>. DEFINE Of(f) == IF f \in TrainingFiles THEN TrainPerSnr ELSE HoldPerSnr
<1>1. ASSUME NEW f \in TrainingFiles \cup HoldoutFiles, Readable(f)
      PROVE  /\ Len(npz[f].rows) = Len(ClassOrder) * Len(Snrs) * Of(f)
             /\ \A c \in Range(ClassOrder) : \A x \in Range(Snrs) :
                   Cardinality({r.id : r \in {q \in Range(npz[f].rows) : q.cls = c /\ q.snr = x}}) = Of(f)
  <2>1. f \in Files /\ (f \notin TrainingFiles => f \in HoldoutFiles)
    BY DEF Files
  <2>2. FileSound(f, npz[f])
    BY <1>1, <2>1, FileWithRows
  <2>3. Even(npz[f].rows, Range(ClassOrder), Of(f)) /\ Of(f) \in Nat \ {0}
    BY <2>1, <2>2, PerSnrAssumption DEF FileSound, Good
  <2>. DEFINE rows == npz[f].rows
              p == Of(f)
  <2>. HIDE DEF rows, p
  <2>4. /\ Len(rows) = Len(ClassOrder) * Len(Snrs) * p
        /\ \A c \in Range(ClassOrder) : \A x \in Range(Snrs) :
              Cardinality({r.id : r \in {q \in Range(rows) : q.cls = c /\ q.snr = x}}) = p
    BY <2>3, EvenCounts DEF rows, p
  <2>. QED
    BY <2>4 DEF rows, p
<1>. QED
  BY <1>1 DEF Balanced

LEMMA OriginsKept ==
    ASSUME DataInv
    PROVE  OriginsSound
<1>1. PatchedClassesAreNew
  <2>1. ASSUME NEW f \in TrainingFiles, NEW r \in Range(npz[f].rows), r.cls \in FixedIn(f)
        PROVE  r.fresh
    <3>1. f \in Files
      BY DEF Files
    <3>2. PICK k \in 1..Len(npz[f].rows) : r = npz[f].rows[k]
      BY <3>1, RowOf
    <3>3. Sourced(npz[f].rows, FixedIn(f), TrainSeeds)
      BY <3>1, RowOf DEF FileSound, Good
    <3>4. npz[f].rows[k].cls \in FixedIn(f) => npz[f].rows[k].fresh = TRUE
      BY <3>3, Zenon DEF Sourced
    <3>. QED
      BY <2>1, <3>2, <3>4, Zenon
  <2>. QED
    BY <2>1, Zenon DEF PatchedClassesAreNew, FixedIn
<1>2. HoldoutUnseen
  <2>1. ASSUME NEW f \in TrainingFiles, NEW h \in HoldoutFiles,
               NEW r \in Range(npz[f].rows), NEW q \in Range(npz[h].rows)
        PROVE  r.id # q.id
    <3>1. f \in Files /\ h \in Files
      BY DEF Files
    <3>2. PICK k \in 1..Len(npz[f].rows) : r = npz[f].rows[k]
      BY <3>1, RowOf
    <3>3. PICK l \in 1..Len(npz[h].rows) : q = npz[h].rows[l]
      BY <3>1, RowOf
    <3>4. Sourced(npz[f].rows, FixedIn(f), TrainSeeds)
      BY <3>1, RowOf DEF FileSound, Good
    <3>5. Sourced(npz[h].rows, {}, HoldSeeds)
      BY <3>1, RowOf, SMTT(30) DEF FileSound, Good
    <3>6. r.id[1] \in TrainSeeds /\ q.id[1] \in HoldSeeds
      BY <3>2, <3>3, <3>4, <3>5 DEF Sourced
    <3>7. TrainSeeds \cap HoldSeeds = {}
      BY DEF TrainSeeds, HoldSeeds, TrainSeed, HoldSeed, DstarTrainSeed, DstarHoldSeed, FlexQamSeed
    <3>. QED
      BY <3>6, <3>7
  <2>. QED
    BY <2>1 DEF HoldoutUnseen
<1>3. CapturedOnce
  <2>. DEFINE rows == npz["real_combined"].rows
  <2>1. "real_combined" \in Files
    BY DEF Files, MergedFiles
  <2>2. CASE rows = <<>>
    BY <2>2 DEF CapturedOnce
  <2>3. CASE rows # <<>>
    <3>1. FileSound("real_combined", npz["real_combined"]) /\ DOMAIN rows = 1..Len(rows)
      BY <2>1, <2>3, FileWithRows
    <3>2. Once(rows)
      BY <3>1 DEF FileSound
    <3>. QED
      BY <3>1, <3>2 DEF CapturedOnce, Once
  <2>. QED
    BY <2>2, <2>3
<1>. QED
  BY <1>1, <1>2, <1>3 DEF OriginsSound

\* A script that saves another file leaves this one as it is.
LEMMA Elsewhere ==
    ASSUME DataInv, NEW g \in Files \ {"v6_holdout", "synth_v6", "synth_v9"}, NEW d, Save(g, d),
           NEW f \in {"v6_holdout", "synth_v6", "synth_v9"}
    PROVE  npz'[f] = npz[f]
<1>1. npz = [h \in Files |-> npz[h]] /\ f \in Files /\ f # g
  BY DEF DataInv, Files, TrainingFiles, HoldoutFiles
<1>2. PICK e \in {d, CutShort} : npz' = [npz EXCEPT ![g] = e]
  BY DEF Save
<1>. QED
  BY <1>1, <1>2

\* Every script but regen_am_dsb_sc.py saves another file.
LEMMA OthersSaved ==
    ASSUME DataNext, \A k \in DOMAIN JOBS : ~RegenAmDsbSc(k)
    PROVE  \E g \in Files \ {"v6_holdout", "synth_v6", "synth_v9"} : \E d : Save(g, d)
<1>. DEFINE G == Files \ {"v6_holdout", "synth_v6", "synth_v9"}
<1>0. /\ {"synth_v10", "synth_v12", "synth_v13", "v6_holdout_v2", "v7_holdout"} \subseteq G
      /\ {"hardboost", "qam_heavy", "extended", "ils", "augmented"} \subseteq G
      /\ {"real_combined", "real_combined_v2"} \subseteq G /\ DOMAIN Captured \subseteq G
  BY CapturedAssumption DEF Files, TrainingFiles, HoldoutFiles, GeneratedFiles, RealFiles, MergedFiles
<1>. HIDE DEF G
<1>1. ASSUME RegenFixedTraining PROVE \E d : Save("synth_v10", d)
  BY <1>1 DEF RegenFixedTraining
<1>2. ASSUME RegenFixedHoldout PROVE \E d : Save("v6_holdout_v2", d)
  BY <1>2 DEF RegenFixedHoldout
<1>3. ASSUME RegenDstarTraining PROVE \E d : Save("synth_v12", d)
  BY <1>3 DEF RegenDstarTraining, PatchNpz
<1>4. ASSUME RegenDstarHoldout PROVE \E d : Save("v7_holdout", d)
  BY <1>4 DEF RegenDstarHoldout, PatchNpz
<1>5. ASSUME RegenFlexQam PROVE \E d : Save("synth_v13", d)
  BY <1>5 DEF RegenFlexQam
<1>6. ASSUME HardBoost PROVE \E d : Save("hardboost", d)
  <2>. DEFINE yes == TRUE
              d == Joined(Generated(4444, HardClasses, Snrs, TrainPerSnr, yes),
                          Generated(5555, HardClasses, LoudSnrs, TrainPerSnr, yes))
  <2>1. HardBoost = Save("hardboost", d)
    BY DEF HardBoost
  <2>. HIDE DEF d
  <2>. QED
    BY <1>6, <2>1
<1>7. ASSUME QamHeavy PROVE \E d : Save("qam_heavy", d)
  <2>. DEFINE yes == TRUE
              d == Generated(1234, Asked(FamilyMembers.QAM), Snrs, TrainPerSnr, yes)
  <2>1. Save("qam_heavy", d)
    BY <1>7, ZenonT(30) DEF QamHeavy
  <2>. HIDE DEF d
  <2>. QED
    BY <2>1
<1>8. ASSUME GenerateIls PROVE \E d : Save("ils", d)
  BY <1>8 DEF GenerateIls
<1>9. ASSUME NEW x, Augment(x) PROVE \E d : Save("augmented", d)
  BY <1>9 DEF Augment
<1>10. ASSUME NEW n, NEW x, Extended(n, x) PROVE \E d : Save("extended", d)
  BY <1>10 DEF Extended
<1>11. ASSUME NEW extra, PrepReal(extra) PROVE \E d : Save("real_combined", d)
  BY <1>11 DEF PrepReal
<1>12. ASSUME PostCaptureMerge PROVE \E d : Save("real_combined", d)
  BY <1>12 DEF PostCaptureMerge
<1>13. ASSUME MergeRealData PROVE \E d : Save("real_combined_v2", d)
  BY <1>13 DEF MergeRealData
<1>14. ASSUME NEW f, CaptureDone(f) PROVE \E d : Save(f, d)
  BY <1>14 DEF CaptureDone
<1>15. RegenScripts => \E g \in G : \E d : Save(g, d)
  BY <1>0, <1>1, <1>2, <1>3, <1>4, <1>5 DEF RegenScripts
<1>16. GeneratorScripts => \E g \in G : \E d : Save(g, d)
  BY <1>0, <1>6, <1>7, <1>8, <1>9, <1>10 DEF GeneratorScripts
<1>17. MergeScripts => \E g \in G : \E d : Save(g, d)
  BY <1>0, <1>11, <1>12, <1>13, <1>14 DEF MergeScripts
<1>. QED
  BY <1>15, <1>16, <1>17 DEF DataNext, G

LinedUp(old, new) ==
    \A i \in DOMAIN old :
        /\ new[i].cls = old[i].cls /\ new[i].snr = old[i].snr
        /\ old[i].cls # "AM_DSB_SC" => new[i] = old[i]

LEMMA SplicesLineUp ==
    ASSUME DataInv, [DataNext]_dataVars, NEW f \in {"v6_holdout", "synth_v6", "synth_v9"}, Readable(f), Readable(f)'
    PROVE  LinedUp(npz[f].rows, npz'[f].rows)
<1>0. f \in Files
  BY DEF Files, TrainingFiles, HoldoutFiles
<1>1. ASSUME npz'[f] = npz[f] PROVE LinedUp(npz[f].rows, npz'[f].rows)
  BY <1>1 DEF LinedUp
<1>2. CASE UNCHANGED dataVars
  BY <1>1, <1>2 DEF dataVars
<1>3. CASE DataNext /\ \A k \in DOMAIN JOBS : ~RegenAmDsbSc(k)
  BY <1>1, <1>3, Elsewhere, OthersSaved
<1>4. CASE \E k \in DOMAIN JOBS : RegenAmDsbSc(k)
  <2>1. PICK k \in DOMAIN JOBS : RegenAmDsbSc(k)
    BY <1>4
  <2>. DEFINE job == JOBS[k]
              g == job.path
              d == Spliced(npz[g], NewRows(job))
              seeds == SeedsOf(job)
  <2>2. \/ npz' = [npz EXCEPT ![g] = CutShort]
        \/ npz' = [npz EXCEPT ![g] = d] /\ SplicedWell(npz[g], d, job.perSnr, seeds)
    BY <2>1, RegenAmDsbScSound
  <2>3. npz = [h \in Files |-> npz[h]]
    BY DEF DataInv
  <2>. HIDE DEF g, d, seeds, job
  <2>4. CASE g # f
    <3>1. npz'[f] = npz[f]
      BY <1>0, <2>2, <2>3, <2>4
    <3>. QED
      BY <1>1, <3>1
  <2>5. CASE g = f
    <3>1. npz'[f] = CutShort \/ (npz'[f] = d /\ SplicedWell(npz[f], d, job.perSnr, seeds))
      BY <1>0, <2>2, <2>3, <2>5
    <3>2. npz'[f] # CutShort
      BY NotWhole DEF Readable
    <3>3. DOMAIN npz[f].rows = 1..Len(npz[f].rows)
      BY <1>0, FileWithRows
    <3>4. npz'[f] = d /\ SplicedWell(npz[f], d, job.perSnr, seeds)
      BY <3>1, <3>2
    <3>. QED
      BY <3>3, <3>4 DEF SplicedWell, LinedUp
  <2>. QED
    BY <2>4, <2>5
<1>. QED
  BY <1>2, <1>3, <1>4

\* regen_am_dsb_sc.py replaces rows in the file it has read: whatever the
\* scripts before it did to the file, each row keeps its class and its SNR, and
\* the rows of every other class stay as they are ("per-SNR ordering lines up").
THEOREM SplicesKeepPlaces == DataSpec => SpliceLinesUp
<1>1. DataInv /\ [DataNext]_dataVars =>
          [\A f \in {"v6_holdout", "synth_v6", "synth_v9"} : Readable(f) /\ Readable(f)' =>
              \A i \in DOMAIN npz[f].rows :
                  /\ npz'[f].rows[i].cls = npz[f].rows[i].cls
                  /\ npz'[f].rows[i].snr = npz[f].rows[i].snr
                  /\ npz[f].rows[i].cls # "AM_DSB_SC" => npz'[f].rows[i] = npz[f].rows[i]]_dataVars
  BY SplicesLineUp DEF LinedUp
<1>. QED
  BY <1>1, DataInvAlways, PTL DEF DataSpec, SpliceLinesUp

\* Where the rows of a file come from, in whatever order the scripts run and
\* whichever are killed: no row of a class made before its generator was fixed,
\* no row of a stream that a holdout was drawn from, no capture merged twice.
THEOREM OriginsAlwaysSound == DataSpec => []OriginsSound
<1>1. DataInv => OriginsSound
  BY OriginsKept
<1>. QED
  BY <1>1, DataInvAlways, PTL

----------------------------------------------------------------------------
(* The generators: every window is full, at any length it may be asked for. *)

LEMMA CeilIs ==
    ASSUME NEW n \in Nat, NEW s \in Nat \ {0}
    PROVE  CeilDiv(n, s) \in Nat /\ s * CeilDiv(n, s) >= n
<1>. DEFINE x == n + s - 1
            q == x \div s
            r == x % s
<1>1. x \in Nat /\ CeilDiv(n, s) = q
  BY DEF CeilDiv
<1>2. q \in Nat /\ r \in 0..(s - 1) /\ x = s * q + r
  <2>. HIDE DEF x
  <2>. QED
    BY <1>1, DivMod
<1>. HIDE DEF q, r
<1>3. s * q \in Nat
  BY <1>2
<1>. QED
  BY <1>1, <1>2, <1>3

LEMMA SlicedIs ==
    ASSUME NEW len \in Nat, NEW lo \in Nat, NEW n \in Nat, lo + n <= len
    PROVE  Sliced(len, lo, lo + n) = n
  BY DEF Sliced, Least

\* Shaped symbols, cut behind the filter delay.
LEMMA ShapedIs ==
    ASSUME NEW n \in Nat, NEW s \in Nat \ {0}
    PROVE  /\ ShapedLength(CeilDiv(n, s) + 20, s) \in Nat
           /\ ShapedLength(CeilDiv(n, s) + 20, s) >= n + 20 * s
           /\ RrcDelay(s) = 5 * s
<1>. DEFINE c == CeilDiv(n, s)
<1>1. c \in Nat /\ s * c >= n
  BY CeilIs
<1>. HIDE DEF c
<1>2. ShapedLength(c + 20, s) = s * c + 20 * s /\ s * c \in Nat
  BY <1>1 DEF ShapedLength
<1>3. RrcDelay(s) = 5 * s
  BY DEF RrcDelay, RrcTaps
<1>. QED
  BY <1>1, <1>2, <1>3 DEF c

LEMMA DigitalIs ==
    ASSUME NEW n \in Nat, NEW s \in Nat \ {0}
    PROVE  Digital(n, s) = Plain(n)
<1>. DEFINE len == ShapedLength(CeilDiv(n, s) + 20, s)
            lo == RrcDelay(s)
<1>1. len \in Nat /\ len >= n + 20 * s /\ lo = 5 * s
  BY ShapedIs
<1>. HIDE DEF len, lo
<1>2. lo \in Nat /\ lo + n <= len
  BY <1>1
<1>3. Sliced(len, lo, lo + n) = n
  BY <1>1, <1>2, SlicedIs
<1>. QED
  BY <1>3 DEF Digital, len, lo

\* Repeated symbols, as many as cover the window or more.
LEMMA RepeatedIs ==
    ASSUME NEW n \in Nat, NEW s \in Nat \ {0}, NEW k \in Nat
    PROVE  Repeated(CeilDiv(n, s) + k, s, n) = n
<1>. DEFINE c == CeilDiv(n, s)
<1>1. c \in Nat /\ s * c >= n
  BY CeilIs
<1>. HIDE DEF c
<1>2. (c + k) * s = s * c + k * s /\ k * s \in Nat /\ s * c \in Nat
  BY <1>1
<1>3. (c + k) * s >= n
  BY <1>1, <1>2
<1>4. Least((c + k) * s, n) = n
  <2>. DEFINE t == (c + k) * s
  <2>1. t >= n /\ t \in Int
    BY <1>2, <1>3
  <2>. HIDE DEF t
  <2>. QED
    BY <2>1 DEF Least, t
<1>. QED
  BY <1>4 DEF Repeated, c

LEMMA KeyedIs ==
    ASSUME NEW n \in Nat, NEW s \in Nat \ {0}, NEW lead, NEW dev
    PROVE  Keyed(n, s, lead, dev) = Window(n, Least(lead * s, n), dev)
<1>1. Repeated(KeyedSymbols(n, s), s, n) = n
  BY RepeatedIs DEF KeyedSymbols
<1>. QED
  BY <1>1 DEF Keyed

LEMMA GfskIs ==
    ASSUME NEW n \in Nat, NEW s \in Nat \ {0}, NEW dev
    PROVE  Gfsk(n, s, dev) = Window(n, 0, dev)
<1>. DEFINE c == CeilDiv(n, s)
            t == (c + 5) * s
            m == n + 6 * s + 1
<1>1. c \in Nat /\ s * c >= n
  BY CeilIs
<1>. HIDE DEF c
<1>2. t = s * c + 5 * s /\ s * c \in Nat
  BY <1>1
<1>3. t \in Nat /\ t >= n /\ m \in Nat /\ m >= n
  BY <1>1, <1>2
<1>. HIDE DEF t, m
<1>4. Least(Least(t, m), n) = n
  BY <1>3 DEF Least
<1>. QED
  BY <1>4 DEF Gfsk, Repeated, t, m, c

LEMMA FskIs ==
    ASSUME NEW n \in Nat, NEW s \in Nat \ {0}, NEW dev
    PROVE  Fsk(n, s, dev) = Window(n, 0, dev)
<1>. DEFINE last == CeilDiv(n, s)
            Sym(i) == Least(i \div s, last)
            T == {i \in 0..(n - 1) : Sym(i) \in 0..last}
<1>1. last \in Nat
  BY CeilIs
<1>2. Fsk(n, s, dev) = Window(Cardinality(T), 0, dev)
  <2>1. (CeilDiv(n, s) + 1) - 1 = last
    BY <1>1
  <2>. QED
    BY <2>1 DEF Fsk
<1>. HIDE DEF last
<1>3. \A i \in 0..(n - 1) : Sym(i) \in 0..last
  <2>1. ASSUME NEW i \in 0..(n - 1) PROVE Sym(i) \in 0..last
    <3>. DEFINE q == i \div s
    <3>1. q \in Nat
      BY DivMod
    <3>. HIDE DEF q
    <3>2. Least(q, last) \in 0..last
      BY <1>1, <3>1 DEF Least
    <3>. QED
      BY <3>2 DEF q
  <2>. QED
    BY <2>1
<1>4. T = 0..(n - 1)
  BY <1>3
<1>5. Cardinality(0..(n - 1)) = n
  BY FS_Interval
<1>. QED
  BY <1>2, <1>4, <1>5

LEMMA OnTimeAxisIs ==
    ASSUME NEW n \in Nat
    PROVE  OnTimeAxis(n) = Plain(n)
<1>1. Cardinality(0..(n - 1)) = n
  BY FS_Interval
<1>. QED
  BY <1>1 DEF OnTimeAxis

\* Windows of n samples that show data; and a deviation that no offset reaches.
Filled(W, n) == W # {} /\ \A w \in W : w.len = n
Shows(W) == \E w \in W : w.fixed < w.len
Seen(W, n) == Filled(W, n) /\ Shows(W)
Firm(W) == \A w \in W : \A o \in ImpairOffsets : o < w.dev
Usable(W, n) == Seen(W, n) /\ Firm(W)

LEMMA OffsetsAre == \A o \in ImpairOffsets : o \in Nat /\ o <= 1200
  BY SMT DEF ImpairOffsets, OffsetFractions, SR

LEMMA SeenIs ==
    ASSUME NEW n \in Nat \ {0}, NEW W, W # {},
           \A w \in W : \E dev \in Nat : w = Window(n, 0, dev)
    PROVE  Seen(W, n)
<1>1. ASSUME NEW w \in W PROVE w.len = n /\ w.fixed = 0
  <2>1. PICK dev \in Nat : w = Window(n, 0, dev)
    OBVIOUS
  <2>2. w = [len |-> n, fixed |-> 0, dev |-> dev]
    BY <2>1 DEF Window
  <2>. QED
    BY <2>2
<1>. QED
  BY <1>1 DEF Seen, Filled, Shows

LEMMA FitsIs ==
    ASSUME NEW n \in Nat \ {0}, NEW W, W # {},
           \A w \in W : \E dev \in Nat : dev > 1200 /\ w = Window(n, 0, dev)
    PROVE  Usable(W, n)
<1>1. Seen(W, n)
  BY SeenIs
<1>2. ASSUME NEW w \in W, NEW o \in ImpairOffsets PROVE o < w.dev
  <2>1. PICK dev \in Nat : dev > 1200 /\ w = Window(n, 0, dev)
    OBVIOUS
  <2>2. w.dev = dev
    BY <2>1 DEF Window
  <2>. QED
    BY <2>1, <2>2, OffsetsAre
<1>. QED
  BY <1>1, <1>2 DEF Usable, Firm

LEMMA QamMembers == FamilyMembers.QAM = {"QAM16", "QAM32", "QAM64", "QAM256"}
  BY DEF FamilyMembers

\* The classes whose windows nothing leads.
LEMMA UnledFit ==
    ASSUME NEW n \in {512, 1024}
    PROVE  /\ \A cls \in {"OOK", "4ASK", "16ASK", "BPSK", "QPSK", "8PSK", "16PSK", "32PSK", "PSK31"}
                    \cup FamilyMembers.QAM : Usable(Windows(cls, n), n)
           /\ \A cls \in {"FSK", "4FSK", "MSK", "GFSK", "GMSK", "DSTAR", "AIS"} :
                    Usable(Windows(cls, n), n)
           /\ \A cls \in {"FM_WB", "FM_NB", "AM_DSB", "AM_DSB_SC", "AM_SSB_USB", "AM_SSB_LSB", "LFM",
                          "TONE", "DTMF", "ADS_B", "P25_PHASE2", "VDL2", "TETRA", "OFDM", "CSS"} :
                    Usable(Windows(cls, n), n)
           /\ Seen(Windows("8FSK", n), n) /\ Seen(Windows("EAS_SAME", n), n)
<1>n. n \in Nat \ {0}
  OBVIOUS
<1>r. SR \in Nat /\ SR > 1200
  BY SMT DEF SR
<1>b. SamplesPerSymbol(1200000) \in Nat \ {0} /\ SamplesPerSymbol(1050000) \in Nat \ {0}
  BY SMT DEF SamplesPerSymbol, Most, SR
<1>0. /\ 4 \in SymbolLengths
      /\ \A s \in SymbolLengths : /\ s \in Nat \ {0} /\ Most(s, 5) \in Nat \ {0}
                                  /\ Most(s, 6) \in Nat \ {0} /\ Least(s, 6) \in Nat \ {0}
                                  /\ SR \div (4 * s) \in Nat /\ SR \div (4 * s) > 1200
  BY SMT DEF SR, SymbolLengths, Most, Least
<1>1. Usable(Windows("OOK", n), n)
  <2>1. Windows("OOK", n) = {Ook(n, s) : s \in SymbolLengths}
    BY QamMembers DEF Windows
  <2>2. \A s \in SymbolLengths : Ook(n, s) = Window(n, 0, SR)
    BY <1>n, <1>0, SMT, DigitalIs DEF Ook, Plain
  <2>3. \A s \in SymbolLengths : SR \in Nat /\ SR > 1200
    BY <1>r, <1>0, SMT
  <2>4. Ook(n, 4) \in Windows("OOK", n)
    BY <1>0, <2>1
  <2>. QED
    BY <1>n, <2>1, <2>2, <2>3, <2>4, SMT, FitsIs
<1>2. Usable(Windows("4ASK", n), n)
  <2>1. Windows("4ASK", n) = {Ask(n, s) : s \in SymbolLengths}
    BY QamMembers DEF Windows
  <2>2. \A s \in SymbolLengths : Ask(n, s) = Window(n, 0, SR)
    BY <1>n, <1>0, SMT, DigitalIs DEF Ask, Plain
  <2>3. \A s \in SymbolLengths : SR \in Nat /\ SR > 1200
    BY <1>r, <1>0, SMT
  <2>4. Ask(n, 4) \in Windows("4ASK", n)
    BY <1>0, <2>1
  <2>. QED
    BY <1>n, <2>1, <2>2, <2>3, <2>4, SMT, FitsIs
<1>3. Usable(Windows("16ASK", n), n)
  <2>1. Windows("16ASK", n) = {Ask(n, Most(s, 6)) : s \in SymbolLengths}
    BY QamMembers DEF Windows
  <2>2. \A s \in SymbolLengths : Ask(n, Most(s, 6)) = Window(n, 0, SR)
    BY <1>n, <1>0, SMT, DigitalIs DEF Ask, Plain
  <2>3. \A s \in SymbolLengths : SR \in Nat /\ SR > 1200
    BY <1>r, <1>0, SMT
  <2>4. Ask(n, Most(4, 6)) \in Windows("16ASK", n)
    BY <1>0, <2>1
  <2>. QED
    BY <1>n, <2>1, <2>2, <2>3, <2>4, SMT, FitsIs
<1>4. ASSUME NEW cls \in {"BPSK", "QPSK", "8PSK", "16PSK", "32PSK"} PROVE Usable(Windows(cls, n), n)
  <2>1. Windows(cls, n) = {Digital(n, s) : s \in SymbolLengths}
    BY QamMembers DEF Windows
  <2>2. \A s \in SymbolLengths : Digital(n, s) = Window(n, 0, SR)
    BY <1>n, <1>0, SMT, DigitalIs DEF Plain
  <2>3. \A s \in SymbolLengths : SR \in Nat /\ SR > 1200
    BY <1>r, <1>0, SMT
  <2>4. Digital(n, 4) \in Windows(cls, n)
    BY <1>0, <2>1
  <2>. QED
    BY <1>n, <2>1, <2>2, <2>3, <2>4, SMT, FitsIs
<1>5. Usable(Windows("PSK31", n), n)
  <2>1. Windows("PSK31", n) = {Psk31(n, s) : s \in SymbolLengths}
    BY QamMembers DEF Windows
  <2>2. \A s \in SymbolLengths : Psk31(n, s) = Window(n, 0, SR)
    BY <1>n, <1>0, SMT, DigitalIs DEF Psk31, Plain
  <2>3. \A s \in SymbolLengths : SR \in Nat /\ SR > 1200
    BY <1>r, <1>0, SMT
  <2>4. Psk31(n, 4) \in Windows("PSK31", n)
    BY <1>0, <2>1
  <2>. QED
    BY <1>n, <2>1, <2>2, <2>3, <2>4, SMT, FitsIs
<1>6. ASSUME NEW cls \in FamilyMembers.QAM PROVE Usable(Windows(cls, n), n)
  <2>1. Windows(cls, n) = {Digital(n, Most(s, 5)) : s \in SymbolLengths}
    BY QamMembers DEF Windows
  <2>2. \A s \in SymbolLengths : Digital(n, Most(s, 5)) = Window(n, 0, SR)
    BY <1>n, <1>0, SMT, DigitalIs DEF Plain
  <2>3. \A s \in SymbolLengths : SR \in Nat /\ SR > 1200
    BY <1>r, <1>0, SMT
  <2>4. Digital(n, Most(4, 5)) \in Windows(cls, n)
    BY <1>0, <2>1
  <2>. QED
    BY <1>n, <2>1, <2>2, <2>3, <2>4, SMT, FitsIs
<1>7. Usable(Windows("FSK", n), n)
  <2>1. Windows("FSK", n) = {Fsk(n, s, FskDeviation(2)) : s \in SymbolLengths}
    BY QamMembers DEF Windows
  <2>2. \A s \in SymbolLengths : Fsk(n, s, FskDeviation(2)) = Window(n, 0, FskDeviation(2))
    BY <1>n, <1>0, SMT, FskIs
  <2>3. \A s \in SymbolLengths : FskDeviation(2) \in Nat /\ FskDeviation(2) > 1200
    BY <1>r, <1>0, SMT DEF FskDeviation
  <2>4. Fsk(n, 4, FskDeviation(2)) \in Windows("FSK", n)
    BY <1>0, <2>1
  <2>. QED
    BY <1>n, <2>1, <2>2, <2>3, <2>4, SMT, FitsIs
<1>8. Usable(Windows("4FSK", n), n)
  <2>1. Windows("4FSK", n) = {Fsk(n, s, 1333) : s \in SymbolLengths}
    BY QamMembers DEF Windows
  <2>2. \A s \in SymbolLengths : Fsk(n, s, 1333) = Window(n, 0, 1333)
    BY <1>n, <1>0, SMT, FskIs
  <2>3. \A s \in SymbolLengths : 1333 \in Nat /\ 1333 > 1200
    BY <1>r, <1>0, SMT
  <2>4. Fsk(n, 4, 1333) \in Windows("4FSK", n)
    BY <1>0, <2>1
  <2>. QED
    BY <1>n, <2>1, <2>2, <2>3, <2>4, SMT, FitsIs
<1>9. Seen(Windows("8FSK", n), n)
  <2>1. Windows("8FSK", n) = {Fsk(n, Most(s, 6), FskDeviation(8)) : s \in SymbolLengths}
    BY QamMembers DEF Windows
  <2>2. \A s \in SymbolLengths : Fsk(n, Most(s, 6), FskDeviation(8)) = Window(n, 0, FskDeviation(8))
    BY <1>n, <1>0, SMT, FskIs
  <2>3. \A s \in SymbolLengths : FskDeviation(8) \in Nat
    BY <1>r, <1>0, SMT DEF FskDeviation
  <2>4. Fsk(n, Most(4, 6), FskDeviation(8)) \in Windows("8FSK", n)
    BY <1>0, <2>1
  <2>. QED
    BY <1>n, <2>1, <2>2, <2>3, <2>4, SMT, SeenIs
<1>10. Usable(Windows("MSK", n), n)
  <2>1. Windows("MSK", n) = {Fsk(n, s, SR \div (4 * s)) : s \in SymbolLengths}
    BY QamMembers DEF Windows
  <2>2. \A s \in SymbolLengths : Fsk(n, s, SR \div (4 * s)) = Window(n, 0, SR \div (4 * s))
    BY <1>n, <1>0, SMT, FskIs
  <2>3. \A s \in SymbolLengths : SR \div (4 * s) \in Nat /\ SR \div (4 * s) > 1200
    BY <1>r, <1>0, SMT
  <2>4. Fsk(n, 4, SR \div (4 * 4)) \in Windows("MSK", n)
    BY <1>0, <2>1
  <2>. QED
    BY <1>n, <2>1, <2>2, <2>3, <2>4, SMT, FitsIs
<1>11. Usable(Windows("GFSK", n), n)
  <2>1. Windows("GFSK", n) = {Gfsk(n, Least(s, 6), 10000) : s \in SymbolLengths}
    BY QamMembers DEF Windows
  <2>2. \A s \in SymbolLengths : Gfsk(n, Least(s, 6), 10000) = Window(n, 0, 10000)
    BY <1>n, <1>0, SMT, GfskIs
  <2>3. \A s \in SymbolLengths : 10000 \in Nat /\ 10000 > 1200
    BY <1>r, <1>0, SMT
  <2>4. Gfsk(n, Least(4, 6), 10000) \in Windows("GFSK", n)
    BY <1>0, <2>1
  <2>. QED
    BY <1>n, <2>1, <2>2, <2>3, <2>4, SMT, FitsIs
<1>12. Usable(Windows("GMSK", n), n)
  <2>1. Windows("GMSK", n) = {Gfsk(n, s, SR \div (4 * s)) : s \in SymbolLengths}
    BY QamMembers DEF Windows
  <2>2. \A s \in SymbolLengths : Gfsk(n, s, SR \div (4 * s)) = Window(n, 0, SR \div (4 * s))
    BY <1>n, <1>0, SMT, GfskIs
  <2>3. \A s \in SymbolLengths : SR \div (4 * s) \in Nat /\ SR \div (4 * s) > 1200
    BY <1>r, <1>0, SMT
  <2>4. Gfsk(n, 4, SR \div (4 * 4)) \in Windows("GMSK", n)
    BY <1>0, <2>1
  <2>. QED
    BY <1>n, <2>1, <2>2, <2>3, <2>4, SMT, FitsIs
<1>13. Usable(Windows("DSTAR", n), n)
  <2>1. Windows("DSTAR", n) = {Dstar(n)}
    BY QamMembers DEF Windows
  <2>2. Dstar(n) = Window(n, 0, 1600)
    BY <1>n, <1>0, SMT, GfskIs DEF Dstar
  <2>. QED
    BY <1>n, <1>r, <2>1, <2>2, SMT, FitsIs
<1>14. Usable(Windows("AIS", n), n)
  <2>1. Windows("AIS", n) = {Ais(n)}
    BY QamMembers DEF Windows
  <2>2. Ais(n) = Window(n, 0, 4800)
    BY <1>n, <1>0, SMT, GfskIs DEF Ais
  <2>. QED
    BY <1>n, <1>r, <2>1, <2>2, SMT, FitsIs
<1>15. Usable(Windows("FM_WB", n), n)
  <2>1. Windows("FM_WB", n) = {FmWb(n)}
    BY QamMembers DEF Windows
  <2>2. FmWb(n) = Window(n, 0, SR)
    BY <1>n, <1>0, SMT, OnTimeAxisIs DEF FmWb, Plain
  <2>. QED
    BY <1>n, <1>r, <2>1, <2>2, SMT, FitsIs
<1>16. Usable(Windows("FM_NB", n), n)
  <2>1. Windows("FM_NB", n) = {FmNb(n)}
    BY QamMembers DEF Windows
  <2>2. FmNb(n) = Window(n, 0, SR)
    BY <1>n, <1>0, SMT, OnTimeAxisIs DEF FmNb, Plain
  <2>. QED
    BY <1>n, <1>r, <2>1, <2>2, SMT, FitsIs
<1>17. Usable(Windows("AM_DSB", n), n)
  <2>1. Windows("AM_DSB", n) = {AmDsb(n)}
    BY QamMembers DEF Windows
  <2>2. AmDsb(n) = Window(n, 0, SR)
    BY <1>n, <1>0, SMT, OnTimeAxisIs DEF AmDsb, Plain
  <2>. QED
    BY <1>n, <1>r, <2>1, <2>2, SMT, FitsIs
<1>18. Usable(Windows("AM_DSB_SC", n), n)
  <2>1. Windows("AM_DSB_SC", n) = {AmDsbSc(n)}
    BY QamMembers DEF Windows
  <2>2. AmDsbSc(n) = Window(n, 0, SR)
    BY <1>n, <1>0, SMT, OnTimeAxisIs DEF AmDsbSc, Plain
  <2>. QED
    BY <1>n, <1>r, <2>1, <2>2, SMT, FitsIs
<1>19. Usable(Windows("LFM", n), n)
  <2>1. Windows("LFM", n) = {Lfm(n)}
    BY QamMembers DEF Windows
  <2>2. Lfm(n) = Window(n, 0, SR)
    BY <1>n, <1>0, SMT, OnTimeAxisIs DEF Lfm, Plain
  <2>. QED
    BY <1>n, <1>r, <2>1, <2>2, SMT, FitsIs
<1>20. Usable(Windows("TONE", n), n)
  <2>1. Windows("TONE", n) = {Tone(n)}
    BY QamMembers DEF Windows
  <2>2. Tone(n) = Window(n, 0, SR)
    BY <1>n, <1>0, SMT, OnTimeAxisIs DEF Tone, Plain
  <2>. QED
    BY <1>n, <1>r, <2>1, <2>2, SMT, FitsIs
<1>21. Usable(Windows("DTMF", n), n)
  <2>1. Windows("DTMF", n) = {Dtmf(n)}
    BY QamMembers DEF Windows
  <2>2. Dtmf(n) = Window(n, 0, SR)
    BY <1>n, <1>0, SMT, OnTimeAxisIs DEF Dtmf, Plain
  <2>. QED
    BY <1>n, <1>r, <2>1, <2>2, SMT, FitsIs
<1>22. Usable(Windows("ADS_B", n), n)
  <2>1. Windows("ADS_B", n) = {Adsb(n)}
    BY QamMembers DEF Windows
  <2>2. Adsb(n) = Window(n, 0, SR)
    BY <1>n, <1>0, SMT, OnTimeAxisIs DEF Adsb, Plain
  <2>. QED
    BY <1>n, <1>r, <2>1, <2>2, SMT, FitsIs
<1>23. ASSUME NEW cls \in {"AM_SSB_USB", "AM_SSB_LSB"} PROVE Usable(Windows(cls, n), n)
  <2>1. Windows(cls, n) = {AmSsb(n)}
    BY QamMembers DEF Windows
  <2>2. AmSsb(n) = Window(n, 0, SR)
    BY <1>n, <1>0, SMT, OnTimeAxisIs DEF AmSsb, Plain
  <2>. QED
    BY <1>n, <1>r, <2>1, <2>2, SMT, FitsIs
<1>24. Usable(Windows("P25_PHASE2", n), n)
  <2>1. Windows("P25_PHASE2", n) = {P25Phase2(n)}
    BY QamMembers DEF Windows
  <2>2. P25Phase2(n) = Window(n, 0, SR)
    BY <1>n, <1>0, SMT, <1>b, DigitalIs DEF P25Phase2, Plain
  <2>. QED
    BY <1>n, <1>r, <2>1, <2>2, SMT, FitsIs
<1>25. Usable(Windows("VDL2", n), n)
  <2>1. Windows("VDL2", n) = {Vdl2(n)}
    BY QamMembers DEF Windows
  <2>2. Vdl2(n) = Window(n, 0, SR)
    BY <1>n, <1>0, SMT, <1>b, DigitalIs DEF Vdl2, Plain
  <2>. QED
    BY <1>n, <1>r, <2>1, <2>2, SMT, FitsIs
<1>26. Usable(Windows("TETRA", n), n)
  <2>1. Windows("TETRA", n) = Tetra(n)
    BY QamMembers DEF Windows
  <2>2. \A w \in Tetra(n) : w = Window(n, 0, SR)
    BY <1>n, DigitalIs DEF Tetra, Plain
  <2>3. Digital(n, 4) \in Tetra(n)
    BY DEF Tetra
  <2>. QED
    BY <1>n, <1>r, <2>1, <2>2, <2>3, SMT, FitsIs
<1>27. Usable(Windows("OFDM", n), n)
  <2>1. Windows("OFDM", n) = OfdmVariant(n)
    BY QamMembers DEF Windows
  <2>2. ASSUME NEW f \in {32, 64, 128}, NEW d \in {4, 8} PROVE Ofdm(n, f, f \div d) = Window(n, 0, SR)
    <3>. DEFINE s == f + f \div d
    <3>1. s \in Nat \ {0}
      OBVIOUS
    <3>2. Ofdm(n, f, f \div d) = Plain(Repeated(CeilDiv(n, s) + 1, s, n))
      BY DEF Ofdm, Repeated
    <3>. HIDE DEF s
    <3>3. Repeated(CeilDiv(n, s) + 1, s, n) = n
      BY <1>n, <3>1, RepeatedIs
    <3>. QED
      BY <3>2, <3>3 DEF Plain
  <2>3. \A w \in OfdmVariant(n) : w = Window(n, 0, SR)
    BY <2>2 DEF OfdmVariant
  <2>4. Ofdm(n, 32, 32 \div 4) \in OfdmVariant(n)
    BY DEF OfdmVariant
  <2>. QED
    BY <1>n, <1>r, <2>1, <2>3, <2>4, SMT, FitsIs
<1>28. Usable(Windows("CSS", n), n)
  <2>1. Windows("CSS", n) = Css(n)
    BY QamMembers DEF Windows
  <2>2. ASSUME NEW s \in 0..(CssChirp - 1) PROVE Sliced((n \div CssChirp + 2) * CssChirp, s, s + n) = n
    BY SMT DEF CssChirp, Sliced, Least
  <2>3. \A w \in Css(n) : w = Window(n, 0, SR)
    BY <2>2 DEF Css, Plain
  <2>4. Css(n) # {}
    BY DEF Css, CssChirp
  <2>. QED
    BY <1>n, <1>r, <2>1, <2>3, <2>4, SMT, FitsIs
<1>29. Seen(Windows("EAS_SAME", n), n)
  <2>1. Windows("EAS_SAME", n) = {EasSame(n, o) : o \in EasOffsets(n)}
    BY QamMembers DEF Windows
  <2>2. EasTotal = 11520
    BY SMT DEF EasTotal, EasSamplesPerSymbol, SamplesPerSymbol, Most, SR
  <2>3. EasOffsets(n) = 0..(11520 - n - 1)
    BY SMT, <2>2 DEF EasOffsets
  <2>4. ASSUME NEW o \in EasOffsets(n) PROVE EasSame(n, o) = Window(n, 0, 260)
    <3>1. Sliced(11520, o, o + n) = n
      BY SMT, <2>3 DEF Sliced, Least
    <3>. QED
      BY <2>2, <3>1, SMT DEF EasSame
  <2>5. 0 \in EasOffsets(n)
    BY SMT, <2>3
  <2>. QED
    BY <1>n, <2>1, <2>4, <2>5, SMT, SeenIs
<1>. QED
  BY <1>1, <1>2, <1>3, <1>4, <1>5, <1>6, <1>7, <1>8, <1>9, <1>10, <1>11,
     <1>12, <1>13, <1>14, <1>15, <1>16, <1>17, <1>18, <1>19, <1>20, <1>21,
     <1>22, <1>23, <1>24, <1>25, <1>26, <1>27, <1>28, <1>29

\* The keyed classes, behind what leads them.
LEMMA LedIs ==
    ASSUME NEW n \in Nat \ {0}, NEW s \in Nat \ {0}, NEW lead \in Nat, NEW dev
    PROVE  LET w == Keyed(n, s, lead, dev)
           IN  w.len = n /\ w.dev = dev /\ (lead * s < n => w.fixed < n)
<1>. DEFINE w == Keyed(n, s, lead, dev)
            f == Least(lead * s, n)
<1>1. w = Window(n, f, dev)
  BY KeyedIs
<1>2. lead * s < n => f < n
  <2>. DEFINE t == lead * s
  <2>1. t \in Nat
    OBVIOUS
  <2>. HIDE DEF t
  <2>2. t < n => Least(t, n) < n
    BY <2>1 DEF Least
  <2>. QED
    BY <2>2 DEF t
<1>. HIDE DEF f
<1>3. w = [len |-> n, fixed |-> f, dev |-> dev]
  BY <1>1 DEF Window
<1>. HIDE DEF w
<1>4. w.len = n /\ w.dev = dev /\ w.fixed = f
  BY <1>3
<1>. QED
  BY <1>2, <1>4 DEF w

LEMMA LedFit ==
    ASSUME NEW n \in Nat \ {0}, NEW s \in Nat \ {0}, NEW dev \in Nat,
           NEW W, NEW L \in SUBSET Nat, NEW a \in L, a * s < n,
           \A w : w \in W <=> \E lead \in L : w = Keyed(n, s, lead, dev)
    PROVE  Seen(W, n)
<1>1. ASSUME NEW w \in W PROVE w.len = n
  <2>1. PICK lead \in L : w = Keyed(n, s, lead, dev)
    OBVIOUS
  <2>. QED
    BY <2>1, LedIs
<1>. DEFINE v == Keyed(n, s, a, dev)
<1>2. a \in Nat
  OBVIOUS
<1>3. v.len = n /\ v.fixed < n
  BY <1>2, LedIs
<1>4. v \in W
  OBVIOUS
<1>. HIDE DEF v
<1>. QED
  BY <1>1, <1>3, <1>4 DEF Seen, Filled, Shows

LEMMA LedFirm ==
    ASSUME NEW n \in Nat \ {0}, NEW s \in Nat \ {0}, NEW dev \in Nat, dev > 1200,
           NEW W, NEW L \in SUBSET Nat,
           \A w : w \in W <=> \E lead \in L : w = Keyed(n, s, lead, dev)
    PROVE  Firm(W)
<1>1. ASSUME NEW w \in W PROVE w.dev = dev
  <2>1. PICK lead \in L : w = Keyed(n, s, lead, dev)
    OBVIOUS
  <2>. QED
    BY <2>1, LedIs
<1>2. \A o \in ImpairOffsets : o < dev
  BY OffsetsAre
<1>. QED
  BY <1>1, <1>2 DEF Firm

LEMMA LedClassesFit ==
    ASSUME NEW n \in {512, 1024}
    PROVE  /\ \A cls \in {"P25_C4FM", "DMR", "NXDN", "ACARS", "FLEX", "MDC_1200"} :
                    Seen(Windows(cls, n), n)
           /\ Usable(Windows("POCSAG", n), n)
           /\ Filled(Windows("DSC", n), n)
<1>n. n \in Nat \ {0} /\ 40 \in Nat \ {0} /\ 512 <= n
  OBVIOUS
<1>s. /\ SamplesPerSymbol(240000) = 83 /\ SamplesPerSymbol(160000) = 125 /\ SamplesPerSymbol(120000) = 166
      /\ SamplesPerSymbol(51200) = 390
  BY SMT DEF SamplesPerSymbol, Most, SR
<1>k. \A s \in Nat \ {0} : KeyedSymbols(n, s) \in Nat /\ KeyedSymbols(n, s) >= 5
  <2>1. ASSUME NEW s \in Nat \ {0} PROVE KeyedSymbols(n, s) \in Nat /\ KeyedSymbols(n, s) >= 5
    <3>1. CeilDiv(n, s) \in Nat
      BY <1>n, CeilIs
    <3>. QED
      BY <3>1 DEF KeyedSymbols
  <2>. QED
    BY <2>1
<1>l. \A x, y \in Nat : Least(x, y) \in Nat /\ Least(x, y) <= x
  BY DEF Least
<1>1. Seen(Windows("P25_C4FM", n), n)
  <2>. DEFINE L == {0} \cup IF KeyedSymbols(n, 40) > 24 THEN {24} ELSE {}
  <2>1. Windows("P25_C4FM", n) = P25C4fm(n)
    BY QamMembers DEF Windows
  <2>2. \A w : w \in P25C4fm(n) <=> \E lead \in L : w = Keyed(n, 40, lead, 600)
    BY DEF P25C4fm
  <2>3. L \in SUBSET Nat /\ 0 \in L
    OBVIOUS
  <2>. HIDE DEF L
  <2>. QED
    BY <1>n, <2>1, <2>2, <2>3, LedFit
<1>2. Seen(Windows("DMR", n), n)
  <2>. DEFINE L == {0} \cup IF KeyedSymbols(n, 40) > 24 THEN {12} ELSE {}
  <2>1. Windows("DMR", n) = Dmr(n)
    BY QamMembers DEF Windows
  <2>2. \A w : w \in Dmr(n) <=> \E lead \in L : w = Keyed(n, 40, lead, 648)
    BY DEF Dmr
  <2>3. L \in SUBSET Nat /\ 0 \in L
    OBVIOUS
  <2>. HIDE DEF L
  <2>. QED
    BY <1>n, <2>1, <2>2, <2>3, LedFit
<1>3. Seen(Windows("NXDN", n), n)
  <2>. DEFINE L == {0} \cup IF KeyedSymbols(n, 40) > 8 THEN {4} ELSE {}
  <2>1. Windows("NXDN", n) = Nxdn(n)
    BY QamMembers DEF Windows
  <2>2. \A w : w \in Nxdn(n) <=> \E lead \in L : w = Keyed(n, 40, lead, 1050)
    BY DEF Nxdn
  <2>3. L \in SUBSET Nat /\ 0 \in L
    OBVIOUS
  <2>. HIDE DEF L
  <2>. QED
    BY <1>n, <2>1, <2>2, <2>3, LedFit
<1>4. Seen(Windows("ACARS", n), n)
  <2>. DEFINE L == {0, Least(12, KeyedSymbols(n, 83))}
  <2>1. Windows("ACARS", n) = Acars(n)
    BY QamMembers DEF Windows
  <2>2. \A w : w \in Acars(n) <=> \E lead \in L : w = Keyed(n, 83, lead, 600)
    BY <1>s DEF Acars
  <2>3. L \in SUBSET Nat /\ 0 \in L
    BY <1>k, <1>l
  <2>. HIDE DEF L
  <2>. QED
    BY <1>n, <2>1, <2>2, <2>3, LedFit
<1>5. Usable(Windows("POCSAG", n), n)
  <2>. DEFINE L(s) == {0, Least(32, KeyedSymbols(n, s))}
              W(s, dev) == {Keyed(n, s, lead, dev) : lead \in L(s)}
  <2>1. Windows("POCSAG", n) = Pocsag(n)
    BY QamMembers DEF Windows
  <2>2. Pocsag(n) = W(390, 4500) \cup W(166, 4500) \cup W(83, 4500)
    BY <1>s, SMT DEF Pocsag
  <2>3. ASSUME NEW s \in Nat \ {0}, NEW dev \in Nat, dev > 1200 PROVE Usable(W(s, dev), n)
    <3>1. L(s) \in SUBSET Nat /\ 0 \in L(s)
      BY <1>k, <1>l
    <3>2. \A w : w \in W(s, dev) <=> \E lead \in L(s) : w = Keyed(n, s, lead, dev)
      OBVIOUS
    <3>3. 0 * s < n
      BY <1>n
    <3>. HIDE DEF L, W
    <3>4. Firm(W(s, dev))
      BY <1>n, <2>3, <3>1, <3>2, LedFirm, SMTT(30)
    <3>5. Seen(W(s, dev), n)
      BY <1>n, <3>1, <3>2, <3>3, LedFit, SMTT(30)
    <3>. QED
      BY <3>4, <3>5 DEF Usable
  <2>. HIDE DEF W
  <2>4. Usable(W(390, 4500), n) /\ Usable(W(166, 4500), n) /\ Usable(W(83, 4500), n)
    BY <2>3, SMT
  <2>. QED
    BY <2>1, <2>2, <2>4 DEF Usable, Seen, Filled, Shows, Firm
<1>6. Seen(Windows("FLEX", n), n)
  <2>. DEFINE L == {Least(4, KeyedSymbols(n, 125))}
              a == Least(4, KeyedSymbols(n, 125))
  <2>1. Windows("FLEX", n) = {Flex(n)}
    BY QamMembers DEF Windows
  <2>2. \A w : w \in {Flex(n)} <=> \E lead \in L : w = Keyed(n, 125, lead, 600)
    BY <1>s DEF Flex
  <2>3. a \in Nat /\ a <= 4
    BY <1>k, <1>l
  <2>4. L \in SUBSET Nat /\ a \in L /\ a * 125 < n
    BY <1>n, <2>3
  <2>. DEFINE W == {Flex(n)}
  <2>5. \A w : w \in W <=> \E lead \in L : w = Keyed(n, 125, lead, 600)
    BY <2>2
  <2>6. 125 \in Nat \ {0} /\ 600 \in Nat
    OBVIOUS
  <2>. HIDE DEF L, a, W
  <2>7. Seen(W, n)
    BY <1>n, <2>4, <2>5, <2>6, LedFit
  <2>. QED
    BY <2>1, <2>7 DEF W
<1>7. Seen(Windows("MDC_1200", n), n)
  <2>. DEFINE L == {Least(2, KeyedSymbols(n, 166))}
              a == Least(2, KeyedSymbols(n, 166))
  <2>1. Windows("MDC_1200", n) = {Mdc1200(n)}
    BY QamMembers DEF Windows
  <2>2. \A w : w \in {Mdc1200(n)} <=> \E lead \in L : w = Keyed(n, 166, lead, 1200)
    BY <1>s DEF Mdc1200
  <2>3. a \in Nat /\ a <= 2
    BY <1>k, <1>l
  <2>4. L \in SUBSET Nat /\ a \in L /\ a * 166 < n
    BY <1>n, <2>3
  <2>. DEFINE W == {Mdc1200(n)}
  <2>5. \A w : w \in W <=> \E lead \in L : w = Keyed(n, 166, lead, 1200)
    BY <2>2
  <2>6. 166 \in Nat \ {0} /\ 1200 \in Nat
    OBVIOUS
  <2>. HIDE DEF L, a, W
  <2>7. Seen(W, n)
    BY <1>n, <2>4, <2>5, <2>6, LedFit
  <2>. QED
    BY <2>1, <2>7 DEF W
<1>8. Filled(Windows("DSC", n), n)
  <2>. DEFINE lead == Least(16, KeyedSymbols(n, 166))
              w == Keyed(n, 166, lead, 400)
  <2>1. Windows("DSC", n) = {Dsc(n)} /\ Dsc(n) = w
    BY <1>s, QamMembers DEF Windows, Dsc
  <2>2. lead \in Nat
    BY <1>k, <1>l
  <2>. HIDE DEF lead
  <2>3. w.len = n
    BY <1>n, <2>2, LedIs
  <2>. HIDE DEF w
  <2>. QED
    BY <2>1, <2>3 DEF Filled
<1>. QED
  BY <1>1, <1>2, <1>3, <1>4, <1>5, <1>6, <1>7, <1>8

\* RTTY and NAVTEX: the window is centred on a change of tone, and is wide
\* enough for that change and for no other.
LEMMA SteppedIs ==
    ASSUME NEW n \in {512, 1024}, NEW s \in {2000, 4400}, NEW k \in 1..11
    PROVE  /\ SteppedOffset(n, s, k) = k * s - n \div 2
           /\ Sliced(12 * s, SteppedOffset(n, s, k), SteppedOffset(n, s, k) + n) = n
           /\ SymbolEdges(n, s, k) = {k}
<1>1. SteppedOffset(n, s, k) = k * s - n \div 2
  BY SMT DEF SteppedOffset, Least, Most
<1>2. Sliced(12 * s, SteppedOffset(n, s, k), SteppedOffset(n, s, k) + n) = n
  BY <1>1, SMT DEF Sliced, Least
<1>3. \A j \in 1..11 : /\ (SteppedOffset(n, s, k) < j * s <=> j >= k)
                       /\ (j * s < SteppedOffset(n, s, k) + n <=> j <= k)
  BY <1>1, SMT
<1>4. SymbolEdges(n, s, k) = {k}
  BY <1>3, SMT DEF SymbolEdges
<1>. QED
  BY <1>1, <1>2, <1>4, SMT

LEMMA SteppedSymbols == RttySymbol = 4400 /\ NavtexSymbol = 2000
  BY SMT DEF RttySymbol, NavtexSymbol, SamplesPerSymbol, Most, SR

LEMMA SteppedFit ==
    ASSUME NEW n \in {512, 1024}
    PROVE  \A cls \in {"RTTY", "NAVTEX"} : Seen(Windows(cls, n), n)
<1>1. ASSUME NEW s \in {2000, 4400}, NEW dev, NEW k \in 1..11 PROVE Stepped(n, s, k, dev) = Window(n, 0, dev)
  BY SteppedIs, SMT DEF Stepped
<1>2. Windows("RTTY", n) = Rtty(n) /\ Windows("NAVTEX", n) = Navtex(n)
  BY QamMembers DEF Windows
<1>3. \A w \in Rtty(n) : w = Window(n, 0, 85)
  BY <1>1, SteppedSymbols, SMT DEF Rtty
<1>4. \A w \in Navtex(n) : w = Window(n, 0, 150)
  BY <1>1, SteppedSymbols, SMT DEF Navtex
<1>5. Stepped(n, RttySymbol, 1, 85) \in Rtty(n) /\ Stepped(n, NavtexSymbol, 1, 150) \in Navtex(n)
  BY SMT DEF Rtty, Navtex
<1>6. \A dev : Window(n, 0, dev).len = n /\ Window(n, 0, dev).fixed = 0 /\ 0 < n
  BY SMT DEF Window
<1>. QED
  BY <1>2, <1>3, <1>4, <1>5, <1>6 DEF Seen, Filled, Shows

\* Every class of CLASS_NAMES is one of those above.
LEMMA ClassesAre ==
    ASSUME NEW n \in {512, 1024}
    PROVE  /\ \A cls \in ClassNames : Filled(Windows(cls, n), n)
           /\ \A cls \in ClassNames \ {"DSC"} : Shows(Windows(cls, n))
           /\ \A cls \in ClassNames \ HiddenByOffset : Firm(Windows(cls, n))
<1>. DEFINE Digitals == {"OOK", "4ASK", "16ASK", "BPSK", "QPSK", "8PSK", "16PSK", "32PSK", "PSK31"}
                            \cup FamilyMembers.QAM
            Keyings == {"FSK", "4FSK", "MSK", "GFSK", "GMSK", "DSTAR", "AIS"}
            Others == {"FM_WB", "FM_NB", "AM_DSB", "AM_DSB_SC", "AM_SSB_USB", "AM_SSB_LSB", "LFM",
                       "TONE", "DTMF", "ADS_B", "P25_PHASE2", "VDL2", "TETRA", "OFDM", "CSS"}
            Led == {"P25_C4FM", "DMR", "NXDN", "ACARS", "FLEX", "MDC_1200"}
            Narrow == {"8FSK", "EAS_SAME"}
            Firms == Digitals \cup Keyings \cup Others \cup {"POCSAG"}
            Seens == Led \cup Narrow \cup {"RTTY", "NAVTEX"}
<1>1. /\ \A cls \in ClassNames : cls \in Firms \/ cls \in Seens \/ cls = "DSC"
      /\ \A cls \in Seens : cls \in HiddenByOffset
      /\ "DSC" \in HiddenByOffset
  BY QamMembers DEF ClassNames, ExtendedClasses, HiddenByOffset
<1>2. \A cls \in Firms : Usable(Windows(cls, n), n)
  BY UnledFit, LedClassesFit
<1>3. \A cls \in Seens : Seen(Windows(cls, n), n)
  BY UnledFit, LedClassesFit, SteppedFit
<1>4. Filled(Windows("DSC", n), n)
  BY LedClassesFit
<1>. HIDE DEF Firms, Seens
<1>5. \A cls \in Firms : Seen(Windows(cls, n), n) /\ Firm(Windows(cls, n))
  BY <1>2 DEF Usable
<1>6. \A cls \in Firms \cup Seens : Filled(Windows(cls, n), n) /\ Shows(Windows(cls, n))
  BY <1>3, <1>5 DEF Seen
<1>. QED
  BY <1>1, <1>4, <1>5, <1>6

LEMMA RectangularIs ==
    ASSUME NEW n \in {512, 1024}
    PROVE  \A s \in {4, 8, 16, 32} : Rectangular(n, s) = n
  BY SMT DEF Rectangular, Repeated, Least

LEMMA ExtendedFilled ==
    ASSUME NEW n \in {512, 1024}
    PROVE  \A cls \in ExtendedClasses : ExtendedLengths(cls, n) = {n}
<1>1. \A s \in {4, 8, 16, 32} : Rectangular(n, s) = n
  BY RectangularIs
<1>2. ExtendedGfsk(n, 32, 64) = n /\ ExtendedGfsk(n, 16, 53) = n
  BY <1>1, SMT DEF ExtendedGfsk, Most
<1>3. ExtendedOfdm(n) = n
  BY SMT DEF ExtendedOfdm, CeilDiv, Least
<1>4. \A s \in 0..3 : ExtendedCss(n, s) = n
  BY SMT DEF ExtendedCss, Sliced, Least
<1>5. ExtendedAnalog(n) = n /\ ExtendedTones(n) = n
  BY FS_Interval DEF ExtendedAnalog, ExtendedTones
<1>6. /\ FamilyMembers.FM = {"FM_NB", "FM_WB"}
      /\ FamilyMembers.AM = {"AM_DSB", "AM_DSB_SC", "AM_SSB_LSB", "AM_SSB_USB"}
  BY DEF FamilyMembers
<1>7. \A cls \in {"OOK", "4ASK", "BPSK", "QPSK", "8PSK", "QAM16", "QAM32", "8FSK"} :
         ExtendedLengths(cls, n) = {n}
  <2>1. \A cls \in {"OOK", "4ASK", "BPSK", "QPSK", "8PSK", "QAM16", "QAM32", "8FSK"} :
           ExtendedLengths(cls, n) = {Rectangular(n, 8)}
    BY <1>6 DEF ExtendedLengths
  <2>. QED
    BY <1>1, <2>1
<1>8. \A cls \in {"16ASK", "16PSK", "32PSK", "QAM64", "QAM256"} :
         ExtendedLengths(cls, n) = {n}
  <2>1. \A cls \in {"16ASK", "16PSK", "32PSK", "QAM64", "QAM256"} : ExtendedLengths(cls, n) = {Rectangular(n, 4)}
    BY <1>6 DEF ExtendedLengths
  <2>. QED
    BY <1>1, <2>1
<1>9. \A cls \in {"4FSK", "MSK"} :
         ExtendedLengths(cls, n) = {n}
  <2>1. \A cls \in {"4FSK", "MSK"} : ExtendedLengths(cls, n) = {Rectangular(n, 16)}
    BY <1>6 DEF ExtendedLengths
  <2>. QED
    BY <1>1, <2>1
<1>10. ExtendedLengths("FSK", n) = {n} /\ ExtendedLengths("GFSK", n) = {n} /\ ExtendedLengths("GMSK", n) = {n}
  <2>1. ExtendedLengths("FSK", n) = {Rectangular(n, 32)}
    BY <1>6 DEF ExtendedLengths
  <2>2. ExtendedLengths("GFSK", n) = {ExtendedGfsk(n, 32, 64)}
    BY <1>6 DEF ExtendedLengths
  <2>3. ExtendedLengths("GMSK", n) = {ExtendedGfsk(n, 16, 53)}
    BY <1>6 DEF ExtendedLengths
  <2>. QED
    BY <1>1, <1>2, <2>1, <2>2, <2>3
<1>11. ExtendedLengths("OFDM", n) = {n}
  BY <1>3, <1>6 DEF ExtendedLengths
<1>12. ExtendedLengths("CSS", n) = {n}
  <2>1. ExtendedLengths("CSS", n) = {ExtendedCss(n, s) : s \in 0..3}
    BY <1>6 DEF ExtendedLengths
  <2>2. ExtendedCss(n, 0) \in {ExtendedCss(n, s) : s \in 0..3}
    OBVIOUS
  <2>. QED
    BY <1>4, <2>1, <2>2
<1>13. \A cls \in FamilyMembers.FM \cup FamilyMembers.AM :
         ExtendedLengths(cls, n) = {n}
  <2>1. \A cls \in FamilyMembers.FM \cup FamilyMembers.AM : ExtendedLengths(cls, n) = {ExtendedAnalog(n)}
    BY <1>6 DEF ExtendedLengths
  <2>. QED
    BY <1>5, <2>1
<1>14. \A cls \in {"LFM", "TONE"} :
         ExtendedLengths(cls, n) = {n}
  <2>1. \A cls \in {"LFM", "TONE"} : ExtendedLengths(cls, n) = {ExtendedTones(n)}
    BY <1>6 DEF ExtendedLengths
  <2>. QED
    BY <1>5, <2>1
<1>15. \A cls \in ExtendedClasses :
         \/ cls \in {"OOK", "4ASK", "BPSK", "QPSK", "8PSK", "QAM16", "QAM32", "8FSK"}
         \/ cls \in {"16ASK", "16PSK", "32PSK", "QAM64", "QAM256"}
         \/ cls \in {"4FSK", "MSK"} \/ cls \in {"FSK", "GFSK", "GMSK"}
         \/ cls = "OFDM" \/ cls = "CSS" \/ cls \in {"LFM", "TONE"}
         \/ cls \in FamilyMembers.FM \cup FamilyMembers.AM
  BY <1>6 DEF ExtendedClasses
<1>. QED
  BY <1>7, <1>8, <1>9, <1>10, <1>11, <1>12, <1>13, <1>14, <1>15

LEMMA QamCut ==
    ASSUME NEW n \in Nat, NEW s \in Nat \ {0}, NEW o \in Nat, 2 * o <= s
    PROVE  QamWindow(n, s, o) = n
<1>. DEFINE len == ShapedLength(CeilDiv(n, s) + 20, s)
            lo == RrcDelay(s)
<1>1. len \in Nat /\ len >= n + 20 * s /\ lo = 5 * s
  BY ShapedIs
<1>. HIDE DEF len, lo
<1>2. lo + o \in Nat /\ len - o \in Nat /\ (lo + o) + n <= len - o
  BY <1>1
<1>3. Sliced(len - o, lo + o, (lo + o) + n) = n
  BY <1>2, SlicedIs
<1>. QED
  BY <1>3 DEF QamWindow, QamShaped, QamStart, len, lo

LEMMA QamFilled ==
    ASSUME NEW n \in {512, 1024}, NEW s \in SymbolLengths, NEW o \in TimingOffsets(s)
    PROVE  QamWindow(n, s, o) = n
<1>1. n \in Nat /\ s \in Nat \ {0} /\ o \in Nat /\ 2 * o <= s
  BY SMT DEF SymbolLengths, TimingOffsets
<1>. QED
  BY <1>1, QamCut

LEMMA EchoesAgree ==
    ASSUME NEW n \in {512, 1024}
    PROVE  \A s \in EchoSlices(n) \cup QamEchoSlices(n) \cup TapSlices(n, 3) : s[1] = s[2]
<1>1. \A d \in 1..n : Sliced(n, d, n) = n - d /\ Most(0, n - d) = n - d
  BY SMT DEF Sliced, Least, Most
<1>2. \A s \in EchoSlices(n) : s[1] = s[2]
  <2>1. ASSUME NEW s \in EchoSlices(n) PROVE s[1] = s[2]
    <3>1. PICK d \in 1..(Most(2, n \div 8) - 1) : s = <<Sliced(n, d, n), n - d>>
      BY DEF EchoSlices
    <3>2. d \in 1..n
      BY SMT DEF Most
    <3>. QED
      BY <1>1, <3>1, <3>2
  <2>. QED
    BY <2>1
<1>3. \A s \in QamEchoSlices(n) : s[1] = s[2]
  <2>1. ASSUME NEW s \in QamEchoSlices(n) PROVE s[1] = s[2]
    <3>1. PICK d \in {x \in 1..12 : x < n} : s = <<Sliced(n, d, n), n - d>>
      BY DEF QamEchoSlices
    <3>2. d \in 1..n
      OBVIOUS
    <3>. QED
      BY <1>1, <3>1, <3>2
  <2>. QED
    BY <2>1
<1>4. \A s \in TapSlices(n, 3) : s[1] = s[2]
  <2>1. ASSUME NEW s \in TapSlices(n, 3) PROVE s[1] = s[2]
    <3>1. PICK d \in {x \in {3, 3 + 1} : x < n} : s = <<Sliced(n, d, n), Most(0, n - d)>>
      BY DEF TapSlices
    <3>2. d \in 1..n
      OBVIOUS
    <3>. QED
      BY <1>1, <3>1, <3>2
  <2>. QED
    BY <2>1
<1>. QED
  BY <1>2, <1>3, <1>4

LEMMA WindowsAreFull ==
    ASSUME NEW n \in {512, 1024}
    PROVE  WindowsFull(n) /\ ClassesShown(n)
<1>1. \A cls \in ClassNames : Windows(cls, n) # {} /\ \A w \in Windows(cls, n) : w.len = n
  BY ClassesAre DEF Filled
<1>2. \A cls \in ClassNames \ {"DSC"} : \E w \in Windows(cls, n) : w.fixed < w.len
  BY ClassesAre DEF Shows
<1>3. \A cls \in ClassNames \ HiddenByOffset : \A w \in Windows(cls, n) :
         \A o \in ImpairOffsets : o < w.dev
  BY ClassesAre DEF Firm
<1>4. \A sps \in SymbolLengths : \A o \in TimingOffsets(sps) : QamWindow(n, sps, o) = n
  BY QamFilled
<1>5. WindowsFull(n)
  BY <1>1, <1>4, ExtendedFilled, EchoesAgree DEF WindowsFull
<1>6. ClassesShown(n)
  BY <1>2, <1>3 DEF ClassesShown
<1>. QED
  BY <1>5, <1>6

\* Pieces of a window, one behind the other.
LEMMA SpacedApart ==
    ASSUME NEW n \in Nat, NEW d \in Nat, NEW i \in Nat, NEW j \in Nat, i < j
    PROVE  Least(i * d * 2 + d, n) <= j * d * 2
<1>. DEFINE m == j - i - 1
<1>1. m \in Nat /\ j = (i + 1) + m
  OBVIOUS
<1>. HIDE DEF m
<1>2. j * d * 2 = i * d * 2 + 2 * d + m * d * 2 /\ m * d * 2 \in Nat /\ i * d * 2 \in Nat
  BY <1>1
<1>3. i * d * 2 + d <= j * d * 2
  BY <1>2
<1>. DEFINE t == i * d * 2 + d
<1>4. t \in Nat
  BY <1>2
<1>. HIDE DEF t
<1>5. Least(t, n) <= t
  BY <1>4 DEF Least
<1>. QED
  BY <1>2, <1>3, <1>4, <1>5 DEF t, Least

LEMMA DtmfInside ==
    ASSUME NEW n \in Nat, NEW k \in Nat \ {0}, NEW a \in DtmfSegments(n, k), NEW b \in DtmfSegments(n, k)
    PROVE  a[2] <= n /\ (a = b \/ a[2] <= b[1] \/ b[2] <= a[1])
<1>. DEFINE d == n \div (k * 2)
<1>1. d \in Nat
  <2>1. k * 2 \in Nat \ {0}
    OBVIOUS
  <2>. DEFINE k2 == k * 2
  <2>. HIDE DEF k2
  <2>2. n \div k2 \in Nat
    BY <2>1, DivMod DEF k2
  <2>. QED
    BY <2>2 DEF k2
<1>2. DtmfSegments(n, k) = {<<i * d * 2, Least(i * d * 2 + d, n)>> : i \in 0..(k - 1)}
  BY DEF DtmfSegments
<1>. HIDE DEF d
<1>3. PICK i \in 0..(k - 1) : a = <<i * d * 2, Least(i * d * 2 + d, n)>>
  BY <1>2
<1>4. PICK j \in 0..(k - 1) : b = <<j * d * 2, Least(j * d * 2 + d, n)>>
  BY <1>2
<1>5. /\ a[1] = i * d * 2 /\ a[2] = Least(i * d * 2 + d, n)
      /\ b[1] = j * d * 2 /\ b[2] = Least(j * d * 2 + d, n)
  BY <1>3, <1>4
<1>6. a[2] <= n
  <2>. DEFINE t == i * d * 2 + d
  <2>1. t \in Nat
    BY <1>1
  <2>. HIDE DEF t
  <2>2. Least(t, n) <= n
    BY <2>1 DEF Least
  <2>. QED
    BY <1>5, <2>2 DEF t
<1>n. i \in Nat /\ j \in Nat
  OBVIOUS
<1>7. CASE i = j
  BY <1>3, <1>4, <1>6, <1>7
<1>8. CASE i < j
  <2>1. Least(i * d * 2 + d, n) <= j * d * 2
    BY <1>1, <1>n, <1>8, SpacedApart
  <2>. QED
    BY <1>5, <1>6, <2>1
<1>9. CASE j < i
  <2>1. Least(j * d * 2 + d, n) <= i * d * 2
    BY <1>1, <1>n, <1>9, SpacedApart
  <2>. QED
    BY <1>5, <1>6, <2>1
<1>. QED
  BY <1>7, <1>8, <1>9

LEMMA SegmentsAreInside ==
    ASSUME NEW n \in {512, 1024}
    PROVE  SegmentsInside(n)
<1>1. ASSUME NEW k \in 3..6 PROVE \A a, b \in DtmfSegments(n, k) :
          a[2] <= n /\ (a = b \/ a[2] <= b[1] \/ b[2] <= a[1])
  <2>1. n \in Nat /\ k \in Nat \ {0}
    OBVIOUS
  <2>. QED
    BY <2>1, DtmfInside
<1>2. ASSUME NEW g \in DmrGuards(n) PROVE g[1] <= g[2]
  <2>. DEFINE T == {x \in 0..(n - 1) : x % (n \div 2) = 0}
  <2>1. PICK s \in T : g = <<Least(s + ((n \div 2) * 3) \div 4, n), Least(s + n \div 2, n)>>
    BY DEF DmrGuards
  <2>2. s \in Nat
    OBVIOUS
  <2>. HIDE DEF T
  <2>3. Least(s + ((n \div 2) * 3) \div 4, n) <= Least(s + n \div 2, n)
    BY <2>2, SMT DEF Least
  <2>. QED
    BY <2>1, <2>3
<1>3. ASSUME NEW p \in AdsbPulses(n) PROVE p < n
  <2>1. Least(56, (n - 8) \div 2) = 56
    BY SMT DEF Least
  <2>2. p \in {0, 1, 3, 4} \/ \E c \in 0..(56 - 1), v \in {0, 1} : p = 8 + c * 2 + v
    BY <2>1 DEF AdsbPulses
  <2>. QED
    BY <2>2, SMT
<1>. QED
  BY <1>1, <1>2, <1>3 DEF SegmentsInside

LEMMA OneStepIsShown ==
    ASSUME NEW n \in {512, 1024}
    PROVE  OneStepShown(n)
<1>1. ASSUME NEW s \in {2000, 4400}, NEW k \in 1..11 PROVE SymbolEdges(n, s, k) = {k}
  BY SteppedIs, SMT
<1>. QED
  BY <1>1, SteppedSymbols, SMT DEF OneStepShown

----------------------------------------------------------------------------
(* The constellations have the points their names promise. *)

LEMMA SquaresGrow ==
    ASSUME NEW a \in Nat, NEW b \in Nat, a <= b
    PROVE  a * a <= b * b
<1>. DEFINE d == b - a
<1>1. d \in Nat /\ b = a + d
  OBVIOUS
<1>. HIDE DEF d
<1>2. b * b = a * a + 2 * (a * d) + d * d /\ a * d \in Nat /\ d * d \in Nat /\ a * a \in Nat
  BY <1>1
<1>. QED
  BY <1>2

LEMMA RootIs ==
    ASSUME NEW m \in Nat, NEW r \in 0..m, r * r <= m, (r + 1) * (r + 1) > m
    PROVE  Root(m) = r
<1>1. ASSUME NEW k \in 0..m, k * k <= m, (k + 1) * (k + 1) > m PROVE k = r
  <2>1. CASE k < r
    <3>1. k + 1 \in Nat /\ r \in Nat /\ k + 1 <= r
      BY <2>1
    <3>2. (k + 1) * (k + 1) <= r * r
      BY <3>1, SquaresGrow
    <3>3. (k + 1) * (k + 1) \in Nat /\ r * r \in Nat
      BY <3>1
    <3>. QED
      BY <1>1, <3>2, <3>3
  <2>2. CASE r < k
    <3>1. r + 1 \in Nat /\ k \in Nat /\ r + 1 <= k
      BY <2>2
    <3>2. (r + 1) * (r + 1) <= k * k
      BY <3>1, SquaresGrow
    <3>3. (r + 1) * (r + 1) \in Nat /\ k * k \in Nat
      BY <3>1
    <3>. QED
      BY <1>1, <3>2, <3>3
  <2>. QED
    BY <2>1, <2>2
<1>. QED
  BY <1>1 DEF Root

LEMMA RootsAre ==
    Root(16) = 4 /\ Root(32) = 5 /\ Root(48) = 6 /\ Root(64) = 8 /\ Root(256) = 16
<1>1. Root(16) = 4
  <2>1. 16 \in Nat /\ 4 \in 0..16 /\ 4 * 4 <= 16 /\ (4 + 1) * (4 + 1) > 16
    BY SMT
  <2>. QED
    BY <2>1, RootIs
<1>2. Root(32) = 5
  <2>1. 32 \in Nat /\ 5 \in 0..32 /\ 5 * 5 <= 32 /\ (5 + 1) * (5 + 1) > 32
    BY SMT
  <2>. QED
    BY <2>1, RootIs
<1>3. Root(48) = 6
  <2>1. 48 \in Nat /\ 6 \in 0..48 /\ 6 * 6 <= 48 /\ (6 + 1) * (6 + 1) > 48
    BY SMT
  <2>. QED
    BY <2>1, RootIs
<1>4. Root(64) = 8
  <2>1. 64 \in Nat /\ 8 \in 0..64 /\ 8 * 8 <= 64 /\ (8 + 1) * (8 + 1) > 64
    BY SMT
  <2>. QED
    BY <2>1, RootIs
<1>5. Root(256) = 16
  <2>1. 256 \in Nat /\ 16 \in 0..256 /\ 16 * 16 <= 256 /\ (16 + 1) * (16 + 1) > 256
    BY SMT
  <2>. QED
    BY <2>1, RootIs
<1>. QED
  BY <1>1, <1>2, <1>3, <1>4, <1>5

\* A grid of any side: its size, and that it is its own mirror image.
LEMMA LevelsAre ==
    ASSUME NEW side \in Nat
    PROVE  /\ IsFiniteSet(Levels(side)) /\ Cardinality(Levels(side)) = side
           /\ Levels(side) \subseteq Int /\ \A v \in Levels(side) : -v \in Levels(side)
<1>. DEFINE f == [i \in 0..(side - 1) |-> 2 * i - (side - 1)]
<1>1. f \in [0..(side - 1) -> Levels(side)]
  BY DEF Levels
<1>2. \A a, b \in 0..(side - 1) : f[a] = f[b] => a = b
  OBVIOUS
<1>3. \A v \in Levels(side) : \E a \in 0..(side - 1) : f[a] = v
  BY DEF Levels
<1>. HIDE DEF f
<1>4. IsFiniteSet(Levels(side)) /\ Cardinality(Levels(side)) = side
  <2>1. IsFiniteSet(0..(side - 1)) /\ Cardinality(0..(side - 1)) = side
    BY Numbers
  <2>. QED
    BY <1>1, <1>2, <1>3, <2>1, PairedOff
<1>5. ASSUME NEW v \in Levels(side) PROVE v \in Int /\ -v \in Levels(side)
  <2>1. PICK i \in 0..(side - 1) : v = 2 * i - (side - 1)
    BY DEF Levels
  <2>. DEFINE j == (side - 1) - i
  <2>2. j \in 0..(side - 1) /\ -v = 2 * j - (side - 1) /\ v \in Int
    BY <2>1
  <2>. HIDE DEF j
  <2>3. 2 * j - (side - 1) \in Levels(side)
    BY <2>2 DEF Levels
  <2>. QED
    BY <2>2, <2>3
<1>. QED
  BY <1>4, <1>5

LEMMA GridIs ==
    ASSUME NEW side \in Nat
    PROVE  /\ IsFiniteSet(Grid(side)) /\ Cardinality(Grid(side)) = side * side
           /\ \A p \in Grid(side) : <<-p[1], -p[2]>> \in Grid(side)
<1>1. IsFiniteSet(Levels(side)) /\ Cardinality(Levels(side)) = side
  BY LevelsAre
<1>2. IsFiniteSet(Grid(side)) /\ Cardinality(Grid(side)) = side * side
  BY <1>1, FS_Product DEF Grid
<1>3. \A p \in Grid(side) : <<-p[1], -p[2]>> \in Grid(side)
  BY LevelsAre DEF Grid
<1>. QED
  BY <1>2, <1>3

LEMMA PairSize ==
    ASSUME NEW a, NEW b, a # b
    PROVE  IsFiniteSet({a, b}) /\ Cardinality({a, b}) = 2
<1>1. IsFiniteSet({a}) /\ Cardinality({a}) = 1
  BY FS_Singleton
<1>2. IsFiniteSet({a} \cup {b}) /\ Cardinality({a} \cup {b}) = 1 + 1
  BY <1>1, FS_AddElement
<1>3. {a} \cup {b} = {a, b}
  OBVIOUS
<1>. QED
  BY <1>2, <1>3

\* A square constellation, drawn either way.
LEMMA SquareConstellation ==
    ASSUME NEW m \in Nat, NEW r \in Nat, Root(m) = r, r * r = m
    PROVE  QamPoints(m) = Grid(r) /\ ExtendedQamPoints(m) = Grid(r)
<1>1. QamPoints(m) = Grid(r)
  BY DEF QamPoints
<1>. DEFINE Rank(p) == ((p[2] + r - 1) \div 2) * r + (p[1] + r - 1) \div 2
<1>2. ExtendedQamPoints(m) = {p \in Grid(r) : Rank(p) < m}
  <2>1. ~(r * r + r < m)
    BY SquaresGrow
  <2>. QED
    BY <2>1 DEF ExtendedQamPoints
<1>3. ASSUME NEW p \in Grid(r) PROVE Rank(p) < m
  <2>1. PICK i \in 0..(r - 1) : p[1] = 2 * i - (r - 1)
    BY DEF Grid, Levels
  <2>2. PICK j \in 0..(r - 1) : p[2] = 2 * j - (r - 1)
    BY DEF Grid, Levels
  <2>3. (p[1] + r - 1) \div 2 = i /\ (p[2] + r - 1) \div 2 = j
    BY <2>1, <2>2
  <2>4. (j + 1) * r <= r * r
    <3>. DEFINE x == r - (j + 1)
    <3>1. x \in Nat /\ r = (j + 1) + x
      OBVIOUS
    <3>. HIDE DEF x
    <3>2. r * r = (j + 1) * r + x * r /\ x * r \in Nat
      BY <3>1
    <3>. QED
      BY <3>2
  <2>5. (j + 1) * r = j * r + r /\ j * r \in Nat
    OBVIOUS
  <2>6. j * r + i < m
    BY <2>4, <2>5
  <2>. QED
    BY <2>3, <2>6
<1>. HIDE DEF Rank
<1>. QED
  BY <1>1, <1>2, <1>3

\* The cross of generate_v3: six by six without the corners.
LEMMA CrossIs ==
    /\ Cardinality(QamPoints(32)) = 32
    /\ \A p \in QamPoints(32) : <<-p[1], -p[2]>> \in QamPoints(32)
<1>. DEFINE C == {-5, 5} \X {-5, 5}
<1>1. QamPoints(32) = {p \in Grid(6) : ~(p[1] \in {-5, 5} /\ p[2] \in {-5, 5})}
  <2>1. Root(32) = 5 /\ 5 * 5 # 32 /\ (3 * 32) \div 2 = 48 /\ Root(48) = 6 /\ 1 - 6 = -5 /\ 6 - 1 = 5
    BY RootsAre, SMT
  <2>. QED
    BY <2>1 DEF QamPoints
<1>2. QamPoints(32) = Grid(6) \ C
  BY <1>1 DEF Grid
<1>3. IsFiniteSet(Grid(6)) /\ Cardinality(Grid(6)) = 36
  <2>1. 6 \in Nat /\ 6 * 6 = 36
    BY SMT
  <2>. QED
    BY <2>1, GridIs
<1>4. Cardinality(C) = 4
  <2>1. -5 # 5
    BY SMT
  <2>2. IsFiniteSet({-5, 5}) /\ Cardinality({-5, 5}) = 2
    BY <2>1, PairSize
  <2>. QED
    BY <2>2, FS_Product
<1>5. C \subseteq Grid(6)
  <2>1. 0 \in 0..5 /\ 5 \in 0..5 /\ 2 * 0 - (6 - 1) = -5 /\ 2 * 5 - (6 - 1) = 5 /\ 6 - 1 = 5
    BY SMT
  <2>2. -5 \in Levels(6) /\ 5 \in Levels(6)
    BY <2>1 DEF Levels
  <2>. QED
    BY <2>2 DEF Grid
<1>6. Grid(6) \cap C = C
  BY <1>5
<1>. HIDE DEF C
<1>7. Cardinality(Grid(6) \ C) = 36 - 4
  BY <1>3, <1>4, <1>6, FS_Difference
<1>8. ASSUME NEW p \in QamPoints(32) PROVE <<-p[1], -p[2]>> \in QamPoints(32)
  <2>1. p \in Grid(6) /\ <<-p[1], -p[2]>> \in Grid(6)
    BY <1>1, GridIs
  <2>2. p[1] \in Int /\ p[2] \in Int
    BY <2>1, LevelsAre DEF Grid
  <2>3. (-p[1] \in {-5, 5} <=> p[1] \in {-5, 5}) /\ (-p[2] \in {-5, 5} <=> p[2] \in {-5, 5})
    BY <2>2
  <2>. QED
    BY <1>1, <2>1, <2>3
<1>. QED
  BY <1>2, <1>7, <1>8

\* The first thirty-two points of generate_extended: six by six without the
\* end of the last row.
LEMMA FirstPoints == Cardinality(ExtendedQamPoints(32)) = 32
<1>. DEFINE Rank(p) == ((p[2] + 6 - 1) \div 2) * 6 + (p[1] + 6 - 1) \div 2
            C == {-1, 1, 3, 5} \X {5}
<1>1. ExtendedQamPoints(32) = {p \in Grid(6) : Rank(p) < 32}
  <2>1. Root(32) = 5 /\ 5 * 5 + 5 < 32 /\ 5 + 1 = 6
    BY RootsAre, SMT
  <2>. QED
    BY <2>1 DEF ExtendedQamPoints
<1>2. ASSUME NEW p \in Grid(6) PROVE Rank(p) < 32 <=> p \notin C
  <2>1. PICK i \in 0..5 : p[1] = 2 * i - 5
    BY SMT DEF Grid, Levels
  <2>2. PICK j \in 0..5 : p[2] = 2 * j - 5
    BY SMT DEF Grid, Levels
  <2>3. Rank(p) = j * 6 + i
    BY <2>1, <2>2, SMT
  <2>4. p \in C <=> (p[1] \in {-1, 1, 3, 5} /\ p[2] = 5)
    BY DEF Grid
  <2>. HIDE DEF Rank, C
  <2>. QED
    BY <2>1, <2>2, <2>3, <2>4, SMT
<1>3. C \subseteq Grid(6)
  <2>1. \A v \in {-1, 1, 3, 5} : v \in Levels(6)
    <3>1. 2..5 \subseteq 0..(6 - 1)
      BY SMT
    <3>2. -1 = 2 * 2 - (6 - 1) /\ 1 = 2 * 3 - (6 - 1) /\ 3 = 2 * 4 - (6 - 1) /\ 5 = 2 * 5 - (6 - 1)
      BY SMT
    <3>3. 2 \in 0..(6 - 1) /\ 3 \in 0..(6 - 1) /\ 4 \in 0..(6 - 1) /\ 5 \in 0..(6 - 1)
      BY SMT
    <3>. QED
      BY <3>2, <3>3 DEF Levels
  <2>. QED
    BY <2>1 DEF Grid
<1>4. Cardinality(C) = 4
  <2>1. IsFiniteSet({-1, 1}) /\ Cardinality({-1, 1}) = 2
    <3>1. -1 # 1
      BY SMT
    <3>. QED
      BY <3>1, PairSize
  <2>2. IsFiniteSet({-1, 1} \cup {3}) /\ Cardinality({-1, 1} \cup {3}) = 3
    <3>1. 3 \notin {-1, 1} /\ 2 + 1 = 3
      BY SMT
    <3>. QED
      BY <2>1, <3>1, FS_AddElement
  <2>3. IsFiniteSet({-1, 1} \cup {3} \cup {5}) /\ Cardinality({-1, 1} \cup {3} \cup {5}) = 4
    <3>1. 5 \notin {-1, 1} \cup {3} /\ 3 + 1 = 4
      BY SMT
    <3>. QED
      BY <2>2, <3>1, FS_AddElement
  <2>4. {-1, 1} \cup {3} \cup {5} = {-1, 1, 3, 5}
    OBVIOUS
  <2>5. IsFiniteSet({5}) /\ Cardinality({5}) = 1
    BY FS_Singleton
  <2>. QED
    BY <2>3, <2>4, <2>5, FS_Product
<1>5. IsFiniteSet(Grid(6)) /\ Cardinality(Grid(6)) = 36
  <2>1. 6 \in Nat /\ 6 * 6 = 36
    BY SMT
  <2>. QED
    BY <2>1, GridIs
<1>. HIDE DEF C, Rank
<1>6. ExtendedQamPoints(32) = Grid(6) \ C
  BY <1>1, <1>2
<1>7. Grid(6) \cap C = C
  BY <1>3
<1>8. Cardinality(Grid(6) \ C) = 36 - 4
  BY <1>4, <1>5, <1>7, FS_Difference
<1>. QED
  BY <1>6, <1>8

LEMMA ConstellationsAreWhole == ConstellationsWhole
<1>1. ASSUME NEW m \in {16, 64, 256}
      PROVE  /\ Cardinality(QamPoints(m)) = m /\ Cardinality(ExtendedQamPoints(m)) = m
             /\ \A p \in QamPoints(m) : <<-p[1], -p[2]>> \in QamPoints(m)
  <2>1. PICK r \in {4, 8, 16} : Root(m) = r /\ r * r = m
    <3>1. 4 * 4 = 16 /\ 8 * 8 = 64 /\ 16 * 16 = 256
      BY SMT
    <3>. QED
      BY <3>1, RootsAre
  <2>2. r \in Nat /\ m \in Nat
    OBVIOUS
  <2>3. QamPoints(m) = Grid(r) /\ ExtendedQamPoints(m) = Grid(r)
    BY <2>1, <2>2, SquareConstellation
  <2>4. Cardinality(Grid(r)) = m /\ \A p \in Grid(r) : <<-p[1], -p[2]>> \in Grid(r)
    BY <2>1, <2>2, GridIs
  <2>. QED
    BY <2>3, <2>4
<1>. QED
  BY <1>1, CrossIs, FirstPoints DEF ConstellationsWhole

\* The families: every class in one of them, and in no other.
LEMMA FamiliesAre ==
    /\ DOMAIN FamilyMembers = {"QAM", "PSK", "ASK", "FSK", "PROTOCOL", "AM", "FM", "SPECIAL"}
    /\ FamilyMembers["QAM"] = {"QAM16", "QAM32", "QAM64", "QAM256"}
    /\ FamilyMembers["PSK"] = {"BPSK", "QPSK", "8PSK", "16PSK", "32PSK", "PSK31"}
    /\ FamilyMembers["ASK"] = {"4ASK", "16ASK", "OOK"}
    /\ FamilyMembers["FSK"] = {"FSK", "GFSK", "GMSK", "MSK", "4FSK", "8FSK", "RTTY", "NAVTEX", "DSC",
                               "MDC_1200", "FLEX", "POCSAG", "P25_C4FM", "P25_PHASE2", "DMR", "NXDN",
                               "DSTAR", "TETRA"}
    /\ FamilyMembers["PROTOCOL"] = {"ACARS", "ADS_B", "AIS", "VDL2", "EAS_SAME", "DTMF"}
    /\ FamilyMembers["AM"] = {"AM_DSB", "AM_DSB_SC", "AM_SSB_LSB", "AM_SSB_USB"}
    /\ FamilyMembers["FM"] = {"FM_NB", "FM_WB"}
    /\ FamilyMembers["SPECIAL"] = {"OFDM", "CSS", "LFM", "TONE"}
  BY DEF FamilyMembers

LEMMA EveryClassHasAFamily == MappedClasses = ClassNames
<1>1. ASSUME NEW c \in MappedClasses PROVE c \in ClassNames
  <2>1. PICK f \in DOMAIN FamilyMembers : c \in FamilyMembers[f]
    BY DEF MappedClasses
  <2>. QED
    BY <2>1, FamiliesAre DEF ClassNames, ExtendedClasses
<1>2. ASSUME NEW c \in ClassNames PROVE c \in MappedClasses
  <2>1. \E f \in {"QAM", "PSK", "ASK", "FSK", "PROTOCOL", "AM", "FM", "SPECIAL"} : c \in FamilyMembers[f]
    BY FamiliesAre DEF ClassNames, ExtendedClasses
  <2>. QED
    BY <2>1, FamiliesAre DEF MappedClasses
<1>. QED
  BY <1>1, <1>2

\* A name for the family of each class, so that two families cannot share one.
LEMMA FamiliesApart ==
    ASSUME NEW f \in DOMAIN FamilyMembers, NEW g \in DOMAIN FamilyMembers, f # g
    PROVE  FamilyMembers[f] \cap FamilyMembers[g] = {}
<1>. DEFINE Strangers(x, y) == FamilyMembers[x] \cap FamilyMembers[y] = {}
<1>1. Strangers("QAM", "PSK") /\ Strangers("QAM", "ASK") /\ Strangers("QAM", "FSK") /\ Strangers("QAM", "PROTOCOL")
        /\ Strangers("QAM", "AM") /\ Strangers("QAM", "FM") /\ Strangers("QAM", "SPECIAL")
  BY FamiliesAre
<1>2. Strangers("PSK", "ASK") /\ Strangers("PSK", "FSK") /\ Strangers("PSK", "PROTOCOL") /\ Strangers("PSK", "AM")
        /\ Strangers("PSK", "FM") /\ Strangers("PSK", "SPECIAL")
  BY FamiliesAre
<1>3. Strangers("ASK", "FSK") /\ Strangers("ASK", "PROTOCOL") /\ Strangers("ASK", "AM") /\ Strangers("ASK", "FM")
        /\ Strangers("ASK", "SPECIAL")
  BY FamiliesAre
<1>4. Strangers("FSK", "PROTOCOL") /\ Strangers("FSK", "AM") /\ Strangers("FSK", "FM") /\ Strangers("FSK", "SPECIAL")
  BY FamiliesAre
<1>5. Strangers("PROTOCOL", "AM") /\ Strangers("PROTOCOL", "FM") /\ Strangers("PROTOCOL", "SPECIAL")
        /\ Strangers("AM", "FM") /\ Strangers("AM", "SPECIAL") /\ Strangers("FM", "SPECIAL")
  BY FamiliesAre
<1>6. \A x, y : Strangers(x, y) => Strangers(y, x)
  OBVIOUS
<1>. HIDE DEF Strangers
<1>7. DOMAIN FamilyMembers = {"QAM", "PSK", "ASK", "FSK", "PROTOCOL", "AM", "FM", "SPECIAL"}
  BY FamiliesAre
<1>8. Strangers(f, g)
  BY <1>1, <1>2, <1>3, <1>4, <1>5, <1>6, <1>7
<1>. QED
  BY <1>8 DEF Strangers

LEMMA FamiliesArePartition == FamiliesPartition
  BY EveryClassHasAFamily, FamiliesApart DEF FamiliesPartition

\* At both window lengths in use every generator fills its window, tones, guards
\* and pulses lie inside it, constellations and families are whole, and each
\* class but DSC shows data behind its preamble, keyed by more than any offset
\* the impairments draw, unless it is one of HiddenByOffset (generate_v3.py,
\* generate_extended.py, generate_qam.py).
THEOREM LengthsAreSound == SoundLengths = {512, 1024}
<1>1. \A n \in {512, 1024} : WindowsFull(n) /\ SegmentsInside(n) /\ OneStepShown(n) /\ ClassesShown(n)
  BY WindowsAreFull, SegmentsAreInside, OneStepIsShown
<1>. QED
  BY <1>1, ConstellationsAreWhole, FamiliesArePartition DEF SoundLengths

LEMMA LengthsKept ==
    ASSUME DataInv
    PROVE  GeneratorsSound
<1>1. ASSUME NEW f \in TrainingFiles \cup HoldoutFiles \cup GeneratedFiles, Readable(f)
      PROVE  npz[f].len \in SoundLengths
  <2>1. f \in Files
    BY DEF Files
  <2>2. FileSound(f, npz[f])
    BY <1>1, <2>1, FileWithRows
  <2>3. CASE f \in GeneratedFiles
    BY <2>2, <2>3, LengthsAreSound DEF FileSound
  <2>4. CASE f \in TrainingFiles
    <3>1. npz[f].len = LEN
      BY <2>2, <2>4, GoodTruthful DEF FileSound
    <3>. QED
      BY <3>1, LengthsAreSound DEF LEN
  <2>5. CASE f \in HoldoutFiles
    <3>1. npz[f].len = LEN
      BY <2>2, <2>5, GoodTruthful DEF FileSound
    <3>. QED
      BY <3>1, LengthsAreSound DEF LEN
  <2>. QED
    BY <2>3, <2>4, <2>5
<1>. QED
  BY <1>1 DEF GeneratorsSound

\* What every file holds, in whatever order the scripts run and whichever are
\* killed while they save: labels that name the class the samples were made
\* for, n_per_snr distinct rows of every class at every SNR, and windows of a
\* length at which every generator fills its window and shows the data its
\* class is told apart by (but see HiddenByOffset for what the offsets hide).
THEOREM FilesAlwaysSound == DataSpec => []FilesSound
<1>1. DataInv => FilesSound
  BY TypesKept, LabelsKept, BalanceKept, LengthsKept DEF FilesSound
<1>. QED
  BY <1>1, DataInvAlways, PTL

=============================================================================
