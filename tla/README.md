# AnalysisApp in TLA+

AnalysisApp (`src/README.md`) is a C++20 service. It subscribes to RF detections over AMQP,
classifies each signal from an embedded IQ snapshot or from a fresh IQ capture, publishes an
`ANALYSIS_RESULT`, keeps the `signals` table in PostgreSQL up to date, and forwards
demodulation commands. Its models are made by the Python and shell programs under `tools/`: signals are generated or
captured, merged into training files, trained on and measured. This directory models the concurrent part of the service,
the decisions it takes about a signal, and the tools from capture to trained model; it checks them with TLC and proves
the main safety properties with TLAPS. Paths below are relative to the repository, `src/AnalysisService.cpp` being its main
source file.

## 1. Inventory

Threads: the main thread (start, wait for a signal, stop), the subscription thread (proton container and
its callbacks), `NUM_WORKERS` = 2 workers, and the AMQP thread of `IqTaskChannel`.

| Component | State | Operations | Interacts with | Hard behaviour | What makes it correct |
|---|---|---|---|---|---|
| Detection intake, worker pool, life cycle (`AnalysisService.cpp`) | `running_`, `queue_`, `recent_analyzed_`, `amqp_container_`, `q_mu_`, `q_cv_` | `start`, `stop`, detection callback, `subscriptionLoop`, `workerLoop`, `processDetection` | collector, engine, publisher | notification without the mutex, stop against reconnection, full queue, cooldown recorded early | nothing lost or analysed twice, cooldown, FIFO, `stop()` returns and leaves no container |
| IQ collection (`IqCollector.cpp`) | `collect_mu_`, `last_sr_`, response slot (`pending_*`), `ready_`, `wq_`, `reply_addr_`, sockets | `collect`, `exchange`, `send`, four callbacks, constructor, destructor | SdrResourceManager over AMQP and UDP | late, repeated and lost responses, reconnection in the middle of an exchange, error paths after acceptance | responses correlated, sockets closed, one task at a time or a known reason why not, calls return |
| AMQP handler (`ServiceAmqpHandler`, `publishResult`, `onDemodCommand`) | `work_queue_`, `pub_ready_`, senders, `amqp_handler_`, `recent_results_` | sender/connection callbacks, `publish`, `publishDemodRequest`, `clear_work_queue` | workers, DemodApp, broker | a handler copied and used after its replacement, readiness, losses at the end of a container | results accounted for, nothing sent into a dead container, command order |
| Persistence (`persistResult`) | `signals` table, a connection per worker | find, promote, insert in one transaction | AcquisitionApp, the other worker | READ COMMITTED races, row locks, failed commits | no hit lost; second rows and overwritten classified rows only out of a race |
| `AnalysisEngine`, `ModulationClassifier`, `ProtocolMapper` | none (pure) | `analyze`, `analyzeSnapshot`, `classify`, `map`, `ruleConfidence` | workers, ONNX | fields left over after an override, thresholds that overlap, signatures that compete for three places | a result is consistent in itself, the model decides what the rules leave open and nothing else, a fitting system is listed |
| `OnnxClassifier` | session, class names | construction with fallbacks, `classify`, `classifyBatch` | engine | loading fails half way, batch padding | not loaded implies not used |
| `FeatureExtractor` | none | DSP | engine | empty or short buffers | numeric, outside this development |
| `Config`, `main` | flag `g_shutdown` | parse, poll, stop | all | signal before the poll | stop is called once |
| Generators and data set scripts (`tools/ml/generate_*.py`, `regen_*.py`, `augment.py`, `prep_real_v8.py`, `*merge*.sh`) | `.npz` files | generate, patch, splice, augment, merge, write in place | each other, by the files | scripts run in any order, killed while they write; class numbers differ between files; seeds | labels stay with their samples, no stale class, balance, training and holdout apart |
| Capture scripts (`capture_real.py`, `capture_noise.py`, `capture_rtl.py`) | session, response boxes, socket, buckets, counts | ask for a task, receive, cut windows, keep the quota, save | SdrResourceManager, RTL-SDR | answers late, missing, incomplete or taken by another consumer; exceptions after an acceptance; stop lost at the end; empty labels | tasks stopped, or lost in a way that is known, own answers only, quota, labels name their targets |
| Training (`train.py`, `family_map.py`, `run_*.sh`) | weights, best weights, `.best.pt`, `.onnx`, `.classes.json` | load, select, cap, split, resume, train, checkpoint, report, export | the data sets; other trainings by their checkpoints | a chain of fine-tunings, a kill at any step, five label orders in play | labels and domains fit their rows, the best weights are saved, no regression, files agree |
| Test harness (`tools/test_harness`) | samples and result tables | load, classify, stress, export | mirrors the classifier and the mapper | one sample of many raises, caps, aliases | a row per sample, scores that mean what they say |
| Evaluation scripts, `model.py`, `training/` | none, or as `train.py` | measurement, networks | — | — | not modelled |
| tests, `test-env`, `deploy`, `packaging`, CI | — | — | — | — | read as statements of intent |

How they interact: the detection callback (subscription thread) puts detections into `queue_`; a worker
pops one, calls the engine on the snapshot and, below the confidence threshold, `collect()`, which sends a
`TASK_REQUEST` through the AMQP thread and receives samples over UDP; it analyses them, publishes through
the handler current at that moment (the injected function runs on the subscription thread) and persists on
its own database connection. `stop()` lowers `running_`, notifies, stops the container and joins.

The tools run by hand and one at a time. They share files: captures and generated sets become training files, the
loaders of `tools/test_harness/datasets.py` read these for training and for the harness alike, and a training leaves
a checkpoint that a later one may resume, a network and the names of its outputs. A capture script has two threads, its own and
proton's reactor, and a controller at the other end.

The hazards, each with its line and the properties that watch it, are listed in `PROJECT.json`.

## 2. Modules

| Module | Content |
|---|---|
| `AnalysisService` | intake, workers, subscription loop, start and stop |
| `DetectionIntake` | what the intake promises, abstractly: a bounded FIFO with spacing per bucket that is quiet once closed |
| `IqCollector` | `collect()`, the request/response channel and its callbacks, an external broker and controller |
| `ServicePublisher` | handlers, publishing, demodulation commands, replacement of the container |
| `SignalStore` | the transactions on the `signals` table |
| `ModulationClassifier` | the decision tree from features to a modulation, as operators |
| `SignatureDatabase` | the 59 signatures |
| `ProtocolMapper` | scores and the three hypotheses, as operators |
| `AnalysisEngine` | `processDetection()`, `analyzeSnapshot()` and `analyze()`: fast path, rules, override, mapping |
| `SyntheticGenerators` | the arithmetic of `generate_v3.py`, `generate_extended.py` and `generate_qam.py`: lengths, symbols, deviations, constellations |
| `PickedLists` | what a mask or a filtering loop makes of a list |
| `DatasetFiles` | the `.npz` files and the scripts that make one out of another; uses `SyntheticGenerators` and `PickedLists` |
| `CaptureScripts` | the three capture scripts, their reactor thread, and an external controller and consumer |
| `ClassFamilies` | `family_map.py` |
| `IqDatasets` | the loaders and the generator of `datasets.py`, as operators |
| `Training` | `train.py` and the scripts that chain trainings; uses `IqDatasets`, `ClassFamilies` and `PickedLists` |
| `MirrorClassifier`, `MirrorSignatures`, `MirrorMapper` | `classifier.py`, the Python mirror of the decision tree, data base and mapper |
| `FeatureWindows` | the slices and bins `features.py` takes |
| `TestHarness` | `harness.py`: loading, classification, stress test, export; uses the three above and `IqDatasets` |
| `MC<module>` | the symmetry sets TLC uses, the engine's signals, and the tools' files, targets and options; nothing else |
| `<module>_proofs` | theorems and their proofs; `Training_proofs` has those of `DatasetFiles` too |

### AnalysisService

Main thread: `mainPc` walks through `start()` (`Start`, `StartSubscription`) and the five parts of `stop()`
(`StopFlag`, `StopNotify`, `StopCopy` + `StopContainer`, `JoinSubscription`, `JoinWorkers`). Subscription thread:
`subPc` is the loop head, the creation of the container, `run()`, `clear_work_queue()`. `Detect(f)` is
the callback's critical section, `DetectNotify` the notification after it. A worker's `pc` splits
`wait_for` into its test of the predicate under the mutex (`PrepareToWait`), the atomic release-and-sleep
(`WorkerSleep`), a notification or the 200 ms timeout, and the pop. `stop()` does not hold `q_mu_` when
it notifies, so the notification may fall between test and sleep; that is why test and sleep are two steps.
`running_` is an atomic that is read without the mutex. Processing a detection is one step with
either outcome, a result or none; its inside is the subject of the other modules. Time is a counter
advanced by `Tick`, with `MaxTime` as its bound. `admitted`, `dropped`, `published` and `failed` are history.

### IqCollector

Each worker's call has a program counter, the request id it uses, the sockets it holds open and what it
received. The response slot is `pendingCorr`, `pendingBody`, `pendingDone`; work handed to the AMQP thread is the sequence
`workQueue`, messages on their way `wire`. A transport error (`ConnectionLost`) loses a suffix of the wire, every
response to the old dynamic address, and lowers `ready_`; what remains on the wire can still be taken by
the controller, whose answer goes nowhere. A response may be delivered twice. Timed waits may end at any
moment. The controller accepts or rejects in any of six ways (`Answers`), and its task runs until a stop arrives or
`TaskExpires`. `abandoned` records the requests whose call gave up without a `TASK_STOP` that arrives:
a timeout, an error path, a stop skipped because the channel was down, or one lost with a connection.

### ServicePublisher

Handlers are numbered by generation. `workQueueSet` and `pubReady` are fields of each; a worker keeps the
generation it copied in `held`. `RunReturns` and `ClearWorkQueue` are two steps because workers can publish between
them. What is injected in that window, or sent while the connection is down, ends in `lost`; a result
given up after five seconds in `dropped`; what is returned without a log line in `silent`.

### SignalStore

`persistResult()` statement by statement: the SELECT of a row of the same identity, the SELECT of an
unclassified row, the UPDATEs, which take and hold the row lock, the INSERT, whose row nobody else sees,
the commit; any of them may fail. Frequencies are in kHz with the code's tolerance of
10 kHz, `abs(bandwidth_hz - $3) / GREATEST(bandwidth_hz, 1000) < 0.5` is computed exactly for bandwidths of at least 1 kHz,
and bandwidth 0 stands for NULL. `credits` counts the results a row stands for, and `seen` keeps what these counts were when a transaction
looked for its row, so that a property can tell what was committed since.

### AnalysisEngine, ModulationClassifier, ProtocolMapper, SignatureDatabase

`pc` follows one call of `processDetection()`; workers call the engine's const methods on objects of their own, so one is
enough. `f` is the record `SignalFeatures`, `r` the layers 1 to 4 of `AnalysisResult`, `path` its path metadata,
`hyps` layer 5 by name. The feature extractor is abstract: it returns any member of `Features`, of which it is only
assumed that the FM deviation is the spread of the instantaneous frequency (`FeatureExtractor.cpp:685`) and that no
DSSS is ever found. A model answers with any class and confidence, or fails. The classifier's numbers are
hundredths, so each comparison of the code is one between integers. A score of 1.0 is 10^8; the one
irrational function, `exp(-x*x/2)` in the range match, is a table over quarters of x rounded up, exact at the
middle of a range and at its ends, where the run's signals are. `std::sort` is not stable, so
`TopThree` is the set of all lists that sorting may give.

### SyntheticGenerators and DatasetFiles

A waveform is the number of samples it has, how many of them are equal in every window of its class, and the smallest
deviation that carries its data; the definitions follow the arithmetic of each `gen_*` function (symbols rounded up, the
delay of the RRC filter, cuts to the window). A file is absent, torn or whole; whole, it has a window length, a list of
classes and rows. A row keeps beside its stored number and SNR what it was really made for, whether by the
generators of this commit, and the random stream it came from (`id`). Each script is one action with the guards of its
loads and assertions; `Save` is `np.savez_compressed`, which may be cut short. Scripts that share no file are not
interleaved (`group`), which changes no file. `regen_am_dsb_sc.py` writes its three files in the order of `JOBS`: its k-th
job is an action that needs the jobs before it done (`RegenAmDsbSc`), so the script may be killed between two, or fail at one.

### CaptureScripts

`script` tells the three programs apart; `pc` is the main thread, `i` the target. The reactor moves a message out of `outbox`
(`Flush`), and takes an answer in two steps, as `on_message()` does: it looks the request up in `pending` under the lock
(`LookUp`) and appends it to the box later (`Append2Box`), when the main thread may have given the request up. `Decide`,
`Expire` and `TakenByOther` are the outside. An accepted answer may be `bare`, without the `streams` or `task_id` that the script reads
(`capture_noise.py:199`), the port may not be free (:148) and a packet may not be whole (:162): each raises out of `main()` and
ends the script (`Raise`), the task still running. `lost`, `gaveUp` and `raised` are history: stops that never left the session, requests
whose answer had not come, and the request in whose turn an exception ended the script.

### Training

`script` holds the options of the trainings still to run; `pc` follows `main()`: load, select, tensors, split, build, floor,
save and train in turn, report, export, names. A sample keeps its true class beside its label, so that `LabelsHonest`
can compare them after filters, relabelling and renumbering. Weights are what the program measures of them: an
accuracy for each class, of 0, 1/2 or 1, and an epoch may lead to any. `ckpt`, `onnx` and `json` are the three files of each
`--out`. `Crash` may come at any step and leaves the file being written torn. A checkpoint of other classes or another network is
loaded where shapes fit, after which the accuracy may be anything.

### TestHarness, IqDatasets, the mirror and FeatureWindows

`jobs` are the data sets in the order of `main()`, `rows` those of the batch in work, `dfs` the tables, `table` the exported one. A
sample of NaNs may raise, and one that classification cannot handle must; the handler of each loop is in the actions. The
mirror's numbers have the units of `ModulationClassifier` and `ProtocolMapper`, so that `HypothesesRanked` can ask whether the
list is one that `ProtocolMapper` would select from the same scores, by its own threshold, its three places and its order. The scores
and the data bases of the two programs are not compared, because they are not the same (§5). The bell of the mirror's range match is
rounded down to quarters of its width, and a width has the code's `+ 1`. `FeatureWindows` has the slices
of `features.py` for a sample of any length.

## 3. Runs

| Run | Shows | Bounds |
|---|---|---|
| `service` | type invariant, `OnePlaceEach`, `CooldownSpacing`, `NoOrphanContainer` | 2 workers, 2 buckets, queue of 2, cooldown 2 of 3 time units, 2 containers |
| `service_liveness` | `StopReturns`, `QueuedIsAnalysed`, and `KeepsPromise`: the threads implement `DetectionIntake` | 2 workers, 1 bucket, queue of 2, cooldown 1 of 2 time units, 2 containers |
| `collector` | type invariant, `ResponseIsOwn`, `SocketsClosed`, `OneTaskUnlessAbandoned`, `TasksAccounted`, `CollectReturns` | 2 workers, 2 calls, 1 lost connection |
| `publisher` | type invariant, `NoResultDroppedSilently`, `ResultsAccounted`, `DemodInOrder`, `NothingAddedToCleared` | 2 workers, 2 handlers, 2 results, 2 commands, 1 transport error |
| `store` | type invariant, `HitsAreCredits`, `InsertsOnlyRaced`, `PromotesOnlyRaced` | 2 workers, 2 results, 1 planted row, 2 frequencies of one signal, bandwidths unknown, 4 kHz and 7 kHz (alike in one direction only), 2 modulations |
| `store_duplicates`* | two workers insert one signal twice; the comment says its row is updated | 2 workers, 2 results of one signal |
| `engine` | type invariant, `Coherent`, `RobustRulesStand`, `UnknownIsAsked`, `FitsListed` | the shipped thresholds; for each of the 59 signatures the signals at the edges of its bands, bandwidths and rates in each of its modulations, and a thousandth too wide; 144 weak or ambiguous signals; 3 classes with 2 confidences |
| `datasets` | `FilesSound` (labels, balance, full windows), `OriginsSound` (no stale class, holdout unseen, captures once), `SpliceLinesUp` | 6 classes, one or more for each script; 2 SNRs; 2 and 1 rows a class and SNR; 4 captures; 10 rows merged; 2 torn files |
| `capture` | `TasksAccounted`, `CaptureSound` (own answers, bound socket), `WindowsSound` (quota, labels), `Finishes` | 4, 3 and 4 targets, two of them of one label and quota; captures of 0 to 3 windows |
| `harness` | `SamplesSound` (a row per sample, caps, slices), `ScoresSound` (gates, aliases, selection of hypotheses) | 8 choices of options over all kinds of source, with files that fail and 9 labels |
| `training` | `BestIsSaved`, `RowsSound` (labels, domains, cap, lengths), `FilesAgree`, `NeverRegresses` | 13 scripts of up to 4 trainings, 2 scripts in a row, 2 models, 2 epochs, any of 2 or more accuracies for each number of classes |
| `training_worst_class`* | with `--model fusion` an epoch that ruins a class is kept as the best; the comment says this never happens | as `training` |

The runs marked * end in a counterexample: they show where the code departs from a comment, and have an entry
under `findings`. The properties with names in parentheses are conjunctions; each of their parts is
a definition of its own with its comment, and most parts have a mutant of their own.

Why the bounds are enough. The worker count is the program's own. Two buckets and a queue of two let the queue be full
with a detection in work and another bucket in cooldown; three time units with a cooldown of two
allow a bucket to be admitted, refused and admitted again. A second container exists only to be created
during `stop()` or to replace the first, and generations beyond it repeat. In the collector two calls are needed
for a late response to meet a foreign slot, one lost connection for an empty or dead reply address, and
a response can be repeated without a bound. The publisher needs two
handlers for a stale one. The engine's ambiguous signals
lie on both sides of the comparisons that decide between the rules and a model, and at a range's edge the bell
is lowest, so a fitting signature is weakest; the signals a thousandth too wide nearly fit a neighbouring signature. The store's races are between two transactions and a planted row.
The data sets need two SNRs to tell a wrong order, two rows a class to tell a replaced row from a doubled one, and classes at
both ends and in the middle of the list to tell a wrong number. A capture needs two targets of one label for the quota, a
target after the last answer for a late one, and one without windows for an empty label. Two scripts of trainings and two epochs
let a checkpoint be written, torn, resumed, improved and left alone; classes number from one to all 24 of RadioML 2018. What the small
instances leave open for the safety properties the proofs below close.

`CHECK_DEADLOCK FALSE` is set for the collector, the publisher and the store: calls, containers and results
are bounded, so these models come to rest when the bound is reached. `AnalysisService` ends in `Terminated`
and is checked for deadlock. The tools end, or wait for a script to be started that the bounds do not allow any
more; these too are checked without.

Symmetry of the workers is used in runs of safety properties only; `DemodInOrder` and the rest never
compare or name a particular worker.

Fairness. Weak fairness of every thread's own steps, which the operating system's scheduler gives. `StopReturns`
needs it for the main thread, the subscription thread and each worker; nothing is assumed of detections,
of the broker, or of `stop()` being called. For `CollectReturns` only the workers are fair: neither the channel's
thread nor the controller has to do anything. A worker waiting for a mutex is not assumed to obtain
it against others that keep taking it (the fairness is weak), which is why the property is stated for the holder.
The untimed variants of the waits, used as mutants, break `StopReturns` and `CollectReturns`: they rest on the timeouts.
`Finishes` assumes that the main thread of a capture script runs, and nothing of its reactor or the controller: it rests on the
timeout of `rpc()` and on the loop over a finite list. The specification of `Training` is fair to a started script;
its properties here are safety properties and do not need it.

## 4. Proofs

All theorems hold for every value of the constants allowed by the module's `ASSUME` (positive bounds, `None`
outside the other sets). The invariants were checked by TLC first.

* `AnalysisService_proofs`. `ServiceTypeOK`; `AdmissionsAreSpaced`, `NothingLostOrDoubled` and `StopReachesContainer` from the inductive
  invariant `IInv`. `CooldownSpacing` is not inductive: it needs `AdmissionsRecorded`, that `recent_analyzed_` bounds every
  admission of its bucket and is itself bounded by the clock. `OnePlaceEach` needs that a fresh admission
  is new, which again is the cooldown's doing: two admissions of one frequency have
  different times. `NoOrphanContainer` needs `StopProtocol`, the agreement of `running_`, the copied
  container and the program counters. `ServiceKeepsPromise` proves the refinement: the initial
  states map to initial states and every step to a step of `DetectionIntake` or a stutter.
* `IqCollector_proofs`. `CollectorTypeOK`; `ResponsesAreOwn` with `SlotIsOwn` as its strengthening (during
  an exchange the slot waits for this request or none and holds its answer or none), which is
  inductive because `collect_mu_` excludes the other callers; `NoSocketLeaks`. `OneTaskAtATime` and `TasksAreAccounted` come
  from `LineInv`: request and stop messages on their way to the controller form one line, work queue behind wire, in which every
  live request has its stop before the next request (`InTurn`), and a task that was accepted belongs to a call
  that is still in `collect()`, has its stop in the line, or was abandoned (`LiveAccounted`).
* `ServicePublisher_proofs`. `PublisherTypeOK`; `ResultsNeverSilent`; `ClearedQueuesRest`, an action property, from
  `ClearedIsClean`: a cleared handler is neither ready nor has a work queue, and no callback sets it again.
  `ResultsAreAccounted` from `AccountInv`, which adds that what was injected or dropped had been taken up before;
  `DemodKeepsOrder` from `OrderInv`: each handler's work queue ascends, and only the present handler's, while its container runs, can hold
  demodulation requests, all after what was published.
* `AnalysisEngine_proofs`. `EngineTypeOK`; `RulesStand`, `RobustRulesStand` for thresholds of at most 0.8, and
  `ModelDecidesUnknown`, `UnknownIsAsked` when `fallback_on_unknown` is set: for all features, classes and confidences. Their
  invariant `RulesFirst` carries what the rules said through the steps after them, where an override may
  have replaced it; the lemmas on `Classify` and `RuleConfidence` go through every branch of the decision tree.
  `ResultsAreCoherent` from `VerdictInv`: each outcome of the tree, and each override, leaves exactly one modulation or a reason.
  That a classified result has a hypothesis at all rests on the database: the signature of the 24 GHz radar asks for
  no bandwidth, rate or structure, so it scores at least 0.3 for every signal (`SomethingScores`). `BestSystemsListed` is the
  specification of the ranking: the listed systems are distinct, in the order of their scores, and nothing better is left out.
  `FittingSystemsListed` proves `FitsListed`, of any signal whatever. A signal that fits scores at least 0.9649, for the bell of the
  range match is at 0.883 or more within a range (`BellAbove`, `FitScore`). Whatever scores as much has the signal's band, modulation and
  structure and misses its bandwidth and rate by little (`HighScore`); since nothing left out scores more than what is listed, a system
  that fits gives way only to three such (`FittingGivesWay`). Signatures that ask for no modulation (ADS-B, weather radar) score less,
  0.8149, but too few others share their bands to displace them (`UnmodulatedIsListed`). What is used of the 59 entries is `WellFormed`, proved of
  each (`SignaturesWellFormed`), and the invariant carries along that the symbol rate is a natural number (`RateOK`).
* `SignalStore_proofs`. `StoreTypeOK`, which states that a row's lock is held exactly by the transaction that has
  updated it and not ended; `NoHitLost`, from that and from what an uncommitted UPDATE and INSERT may assume about
  their row. `PromotionsAreRaced` and `SecondRowsAreRaced` hold for any number of workers and any bandwidths: what the code does not exclude, a
  second row of a signal or a write over a classified row (§5), needs a commit between this transaction's SELECT and its own. Their invariant
  `RaceInv` says of a transaction that is going to promote or insert that a row which contradicts what its SELECT found has more credits
  now than it had then (`ClassifiedSince`, `FoundSince`): only a commit changes a row, and each commit adds a credit.
* `CaptureScripts_proofs`. `CapturesAreSound` (with `CaptureTypeOK`), `TasksAreAccounted` and `QuotasAreKept`; `FilesNameTargets` and with it
  `SavedWindowsAreSound`. A box that
  says "accepted" keeps saying so only because a request has one answer; the invariant `CaptureInv` follows it:
  nothing is about a request before it is made (`FreshAhead`), it is in the outbox once and only while its task is unknown
  to the controller (`SentOnce`), and its answer is in one place, under way, being looked up, or in its box (`OneAnswer`).
  `Undecided` is needed for the tasks: a request the controller has not decided is waited for or given up, so
  accepting it late makes no task that is not accounted for. `LabelInv` says what the rows of a session are: places in a
  list of labels, each there once and with a row. That `capture_rtl.py` sorts its buckets before it numbers them keeps
  the labels because counting the labels up to a label gives each a place and fills all places: an injection of a finite set into one of
  its size is a bijection (`PlacesFill`), which stands in for induction.
* `Training_proofs`. From one invariant `TrainInv`: `TrainingTypeOK`; `TrainingBestIsSaved`; `TrainingFilesAgree`;
  `TrainingNeverRegresses`. From a second one, `RowsInv`: `TrainingRowsAreSound`, and before it `TrainingDomainAligned`, that the
  domain labels are those of the rows whatever the sources and class lists. `RowsInv` says what `samples`
  and `data` hold in each phase of `build_tensors()`: every loaded sample bears its true class (`LoadedHonest`), every
  kept one the label of its class or family (`KeptChosen`), every draw is within the cap (`CappedIs`), and the rows of X carry
  these over (`TensorsNumbered`). It assumes that the `.npz` files are labelled with their true classes (`LabelsAssumption`)
  and that the options name files that exist (`SourcesAssumption`). The lemmas on lists are stated here and in `TestHarness_proofs`, because these
  two extend modules whose names clash. The score that a resumed training starts from is a lower bound of every checkpoint it writes, and what is on disk
  after a crash is what some epoch before it wrote.
* `Training_proofs`, second part: the data files. `FilesAlwaysSound`, `OriginsAlwaysSound` and
  `SplicesKeepPlaces` come from one invariant, `DataInv`, for any list of classes, SNRs, numbers of rows and captures. The
  three properties are not inductive: that a patch keeps the balance depends on the classes of the file that is patched, that a splice
  lines up depends on the order of its rows (`Laid`), that training and holdout differ depends on the streams they came from (`Sourced`). So
  `FileSound` says of every file which classes and what window length it has, from which seeds its rows are, which of them are fresh, and of captures and
  their merge that no window is there twice (`Once`). The lemmas are about lists: what picking, concatenation, relabelling and `FlattenSeq` keep,
  and that the rows of one class and SNR stand in blocks of equal size. That windows are full rests on
  `LengthsAreSound`: at lengths 512 and 1024 each generator fills its window and each constellation is whole, by a case for each class.
  Assumed are that classes and SNRs are listed once (`ClassesAssumption`), that there is a row of each (`PerSnrAssumption`), and that the captures
  are lists in the files the scripts know (`CapturedAssumption`).
* `TestHarness_proofs`. `SamplesAreSound` and `ScoresAreSound`, for all plans, files, features and options. `HarnessInv` says that the
  batch is what the loader makes of the first job and that the tables, the rows of the batch and what is left of it are the
  samples, in order (`RowsMatchSamples`, which the handlers of `run_batch()` have to keep when something raises). Everything
  else is a lemma about an operator: what each loader returns (`LoadRadioml2016Good`, `LoadRadioml2018Good`, `SegmentsGood`), that the
  slices of `features.py` lie inside a sample of any length from 256 on (`SlicesAreSound`), that a row classifies only past the gates
  (`ClassifiedIsGated`), and that `map()` of the mirror lists the three best (`RankedIsTopThree`). The tables are lists of lists;
  `SetInduction` proves, of a set of numbers rather than a predicate, what an induction over their length would, and `ChainCounts`
  that the place of an element is the number of those up to it. Assumed are the options and files (`PlansGiven`, `OptionsGiven`), the
  features of a sample with a label (`FeaturesGiven`). That the names of the data base differ and its ranges are ordered is a lemma, `DatabaseIs`, put together from
  one on each of its parts.

Every safety property and action property of the passing runs is proved. What stays model-checked is liveness (`StopReturns`,
`QueuedIsAnalysed`, `CollectReturns`, `Finishes`): fairness and `ENABLED` are outside what the provers installed here handle. `OldestFirst`, the
order of the queue, is proved with `OnePlaceEach` and is part of what `KeepsPromise` says in its run.
No module proved about has a recursive operator.

## 5. What else differs from the comments

Read in the code and visible in the models, without a run of their own.

In the service:

* `stop()` leaves detections in the queue: `workerLoop()` tests `running_` before it looks at the queue
  (`AnalysisService.cpp:375`; `AnalysisService.hpp:87` says "call stop() to drain the queue").
* A detection that finds the queue full stays in cooldown, recorded before the queue was tested (`AnalysisService.cpp:331`; :334 says
  it "will be re-detected and enqueued on the next sweep pass"). A bucket stays in cooldown as well when the analysis produced
  nothing (against :318), and a signal at the border of two buckets is analysed twice within the cooldown (`AnalysisService.hpp:128`).
* A worker reads `lastSampleRate()` after `collect()` released its mutex, so it may analyse its samples at the rate of the other
  worker's capture (`AnalysisService.cpp:445`; `IqCollector.hpp:47` says thread-safe). A failed collection overwrites the rate of
  the last successful one (`IqCollector.hpp:81`), and a partial capture is returned as a capture (`IqCollector.hpp:75`).
* A task given up after a timeout runs beside the next one (`IqCollector.hpp:29` says one); `OneTaskUnlessAbandoned`
  is what does hold. The collector's constructor does not throw when the channel fails to connect (`IqCollector.hpp:57`).
* Late packets of an earlier task on a reused port mix with the present samples (`IqCollector.cpp:311`), and a system clock
  that steps back prolongs a cooldown (`AnalysisService.cpp:322`).
* A `STOP_DEMOD_STREAM` that comes before any sender is open is dropped (`AnalysisService.hpp:143`).
* Two workers that find no row of an identity both insert one (run `store_duplicates`; `AnalysisService.cpp:675`, where :672 says
  the row is updated), and two
  can promote one planted row (:711). With known bandwidths even a single writer can produce two rows of
  one identity, because the ±50 % test is not symmetric and an unknown bandwidth is filled in later. Results are published
  before they are persisted (`README.md:24`); the collections of the two workers are serialised, not concurrent (`README.md:134`).

In the engine:

* BPSK of constant envelope, and other phase modulations with a phase spread above 0.3 rad, are taken for PM before the rule
  that is meant for them is reached (`ModulationClassifier.cpp:257`, :32; the rule is at :105).
* An override leaves `m_ary`, `line_code`, `bit_rate_bps` and `reject_reason` of the rules beside the model's modulation
  (`AnalysisResult.hpp:73`, :96); the model's confidence plays no part in an override and nothing runs in
  parallel (`AnalysisEngine.hpp:59-63`); structural detections have 0.95, not 1.0 (`AnalysisEngine.hpp:104`); QAM has
  0.60, with a threshold of 0.60 compared by `<` it is never reconsidered (`README.md:535`); `ruleConfidence()` expects "MSK/GMSK" where
  the classifier says "GMSK"; the QAM64 window lies almost inside that of QAM16, which is asked first; the model's
  class names (`AM_DSB`) are not those of the signatures (`AM_DSB_LC`); on the fast path the mapper sees a
  frequency only, so bandwidth, burst and OFDM requirements count against the right system; both Bluetooth signatures ask
  for FHSS and for a modulation the classifier never reports with it.
* A signal below the SNR threshold has rule confidence 0 and so is given to the model and published with its answer, however unsure
  that is: `analyze()` does not read `snr_threshold_db`. `config/analysis.xml:74-75` says such signals are "classified by rule engine only
  (no ONNX inference)", and `Config.hpp:87` says the same.
  `UnknownIsAsked` is therefore about signals the rules could have classified; it says nothing of those below the threshold, and no run shows this disagreement.
* A signal that fits a system may be published without it: an FSK burst at 144.0 MHz of 15015 Hz and 4800 baud is MPT 1327 in every respect, but the
  three entries of DMR, for each of which it is 15 Hz too wide, score 0.98218 against 0.98180 and take all three places (`ProtocolMapper.cpp:460`).
  `FitsListed` therefore allows a fitting system to give way to three that fit or nearly fit.

In training (`tools/ml`):

* With `--model fusion` the score counts two classes (run `training_worst_class`); `run_v11_train.sh` to `run_v17_train.sh` use it.
* `run_hierarchical_pipeline.sh:25` lists `DIGI_VOICE`, which `family_map.py` has merged into `FSK`: `train.py:668` refuses it, `set -e` ends the
  pipeline, and FM, FSK and the families after them are never trained nor the chain evaluated (header :12-16). "9 family names" (`train.py:594`) are 8.
* `confusion_report()` raises when the test set's labels and predictions leave out a class: a training that is over exports nothing.
* A class without a row in the validation set counts as accuracy 0, so the least accuracy is 0 and that part of the score void; a holdout
  without a common class scores 0 throughout.
* Without `--resume` an earlier `.best.pt` of the same `--out` is overwritten before the first epoch. A crash between the network and its names
  leaves the new network beside the old names; `torch.save` writes in place. A head of equal size but another order of classes is loaded as it is.
* After the warm-up the domain loss is skipped unless `--no-mixup` is given (488-498). The directory of `--out` is created only when the training is over.

In the data sets:

* `generate_v3.py:103-108` says that offsets of 600 Hz collapsed classes into one another and that now the offset "stays below
  every FSK family's smallest deviation". The 200 Hz of `_impair()` do, but for RTTY and NAVTEX. `_impair_multi_sdr()`, which most of the
  modelled files are generated with, draws up to 600, 800 or 1200 Hz (118-126, 153), which reaches P25_C4FM, DMR, ACARS and the others that `HiddenByOffset`
  lists; `FilesSound` claims nothing of these in this respect. The windows of DSC are identical at
  length 1024 (754-755), and EAS tones change every 1536 samples, so some windows show no transition (640-642 says they are visible). The sync word
  of P25 does not fit into 512 samples, and FLEX has 12 data samples left there.
* `merge_real_data.sh:13` says the newest wins: the rows are concatenated. `prep_real_v8.py:24-26` says centre-cropped: windows are resampled (58-61). `post_capture_merge.sh` run twice doubles the rows.
* `regen_am_dsb_sc.py` rewrites its only source in place. `generate_qam.py:104`: QAM32 has 24 points. `augment.py` and `generate_extended.py` keep impaired copies in the same
  file, so a random split has copies of training rows in its test set.
* `max_per_class` caps a class and SNR in RadioML 2016 and the first 24 times as many rows in RadioML 2018 (`datasets.py:168`). `load_hf_dataset()` imports
  itself (573-579). `generate_synthetic()` knows `AM_DSB_LC`, which `family_map.py` does not.

In the capture scripts:

* A response after the timeout leaves an accepted task running; `close()` may drop the last `TASK_STOP`; nothing is saved before the end, so an exception loses
  every window. `capture_noise.py` raises when an accepted answer has no stream (199) or the port cannot be bound (148, outside the `try`), and both
  scripts when a packet does not hold whole floats: no `TASK_STOP` is sent, and the task runs to the end of its duration. A capture of
  exactly 1024 samples yields no window in `capture_real.py:467` and one in `capture_rtl.py:155`. The quota of `capture_real.py` is per target.
* `capture_noise.py` ignores the timeout of its session, binds its socket after the response, and reads the shared response queue, where it and the
  service take each other's answers. `capture_rtl.py` calls its targets a subset of `capture_real.py`'s: 109.9 MHz is not.

In the test harness:

* The 128-sample examples of RadioML 2016 are below the 256 the extractor needs, so none is ever classified; OFDM, CSS and FHSS are
  detected but not `classified`; 64QAM has no alias. With a single failing sample the accuracy column is no longer
  Boolean and `~exact_match` raises; an empty table raises in the grouping; `stress_test()` is unprotected.
* The "Python mirror" is not the C++ classifier: QAM16 and QAM64, M-ASK and OOK, FM and PM branches cannot be reached, and the data bases differ.
* `verify_realworld.py` lacks classes in its family table and copies 7 fields of the configuration.

In the programs that are not modelled: `train_dae.py` fails at line 199 when no epoch has a finite loss; `training/train_classifier.py`
steps `OneCycleLR` by epochs and writes the class names before training; `eval_hierarchical_chain.py` has no prediction where
a family has no specialist (140-147).

## 6. What is not modelled

* Sample values, message texts and the network's wire format: no property is about them. UDP packets: `receiveIq()` and the captures are
  reduced to how much arrived.
* A system clock that steps back.
* `ServiceAmqpHandler::close()`, `IqCollector::connect()` and `disconnect()`: never called, or empty.
* `wq_` of a dead connection: in the model work is injected into one queue that outlives connections,
  as proton's reconnection keeps the connection object.
* `FeatureExtractor` and the ONNX networks: floating point. Loading of models and batching change no state of the service after `start()`.
* Fields of a result nothing decides on: TDMA, analog index, subcarrier spacing, category, reasoning.
* `Config` and `main`: parsing, and a loop that calls `start()` and `stop()`.
* Of `train.py`: losses, augmentation, schedules and oversampling, which the accuracies stand for. The watchers (`watch_*.sh`, `overnight_train.sh`)
  poll log lines of other programs; `overnight_train.sh` edits `train.py` itself.
* `model.py`, `evaluate.py`, `eval_*.py`, `ensemble_eval.py`, `verify_realworld.py`: measurement without state.
* `training/train_classifier.py`, `train_dae.py`: earlier programs of the same shape as `train.py`.
* `generate_torchsig.py` and the downloads of `datasets.py`: a library and the network.
* In `DatasetFiles` and `TestHarness` one process runs: two scripts started at once on one file are not considered, as the README of the tools
  has them run by hand. `CaptureScripts` has exceptions but no kill: nothing is on disk before the end.

## 7. Plan

1. *(done)* The service: `AnalysisService` with `DetectionIntake`, `IqCollector`, `ServicePublisher`, `SignalStore`; main safety properties and the refinement proved.
2. *(done)* The decision path: `ModulationClassifier`, `SignatureDatabase`, `ProtocolMapper`, `AnalysisEngine`.
3. *(done)* The tools: `SyntheticGenerators`, `DatasetFiles`, `CaptureScripts`, `IqDatasets`, `Training`, the mirror and `TestHarness`; `Training`, `CaptureScripts` and `TestHarness` proved.
4. *(done)* Proofs of every safety property of the runs, among them `FitsListed` and the data sets.
5. `Pipeline`: `processDetection()` composed of engine, collector and publisher, with `main`'s signal handling,
   against an abstract promise of at most one result per admission.
6. `OnnxClassifier`: loading with fallbacks, batching and padding. The watchers of `tools/ml`, as processes that share logs and a GPU.
