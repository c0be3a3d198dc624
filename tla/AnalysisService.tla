--------------------------- MODULE AnalysisService ---------------------------
(***************************************************************************)
(* The detection intake, the worker pool and the life cycle of the service *)
(* (src/src/AnalysisService.cpp).                                          *)
(*                                                                         *)
(* Three kinds of thread meet here: the main thread, which calls start()   *)
(* and stop(); the subscription thread, which runs one AMQP container      *)
(* after the other and, inside container->run(), the detection callback;   *)
(* and the workers, which wait on q_cv_ and analyse what they pop.  They   *)
(* share running_ (an atomic read without the lock), queue_,               *)
(* recent_analyzed_ and amqp_container_ (all three under q_mu_).           *)
(*                                                                         *)
(* A critical section of q_mu_ that cannot block is one step taken while   *)
(* the mutex is free.  Only a wait needs two: a worker tests the predicate *)
(* with the mutex held ("blocking") and releases it as it goes to sleep    *)
(* ("waiting"); a notification between the two is lost, as in the code,    *)
(* where stop() notifies without holding q_mu_.                            *)
(***************************************************************************)
EXTENDS Integers, Sequences, Functions

CONSTANTS
    Workers,        \* the NUM_WORKERS threads of the pool
    Freqs,          \* centre frequencies the scanner reports
    BucketWidth,    \* width of a cooldown bucket (100 kHz)
    MaxQueueDepth,  \* MAX_QUEUE_DEPTH
    Cooldown,       \* REANALYSIS_COOLDOWN_MS
    MaxTime,        \* bound on the modelled clock
    MaxContainers,  \* bound on the AMQP containers created after failures
    None            \* "no value": an unlocked mutex, an empty job

Detection == [freq : Freqs, at : 0..MaxTime]

Bucket(f) == f \div BucketWidth
Buckets   == {Bucket(f) : f \in Freqs}

ASSUME ServiceAssumption ==
    /\ Freqs \subseteq Nat
    /\ BucketWidth \in Nat \ {0}
    /\ MaxQueueDepth \in Nat \ {0}
    /\ Cooldown \in Nat \ {0}
    /\ MaxTime \in Nat
    /\ MaxContainers \in Nat \ {0}
    /\ None \notin Workers
    /\ None \notin Detection
    /\ None \notin 0..MaxTime

VARIABLES
    running,         \* running_
    mainPc,          \* the main thread: before start(), between it and stop(), inside stop()
    qMu,             \* the worker holding q_mu_ across a step, or None
    queue,           \* queue_
    recentAnalyzed,  \* recent_analyzed_: bucket -> time of the last admission, or None
    now,             \* system_clock, modelled as never stepping back
    pc,              \* program counter of each worker
    job,             \* the detection a worker popped, or None
    subPc,           \* program counter of the subscription thread
    container,       \* generation of amqp_container_, 0 before the first
    stopTarget,      \* the container stop() copied, 0 if there was none
    stopReq,         \* containers whose stop() was called
    admitted,        \* history: detections that passed the cooldown test
    dropped,         \* history: those of them that found the queue full
    published,       \* history: those whose processing published a result
    failed           \* history: those whose processing published nothing

intake   == <<recentAnalyzed, now, admitted, dropped>>
workers  == <<qMu, pc, job>>
outcomes == <<published, failed>>
stopping == <<stopTarget, stopReq>>
vars == <<running, mainPc, queue, subPc, container, intake, workers, outcomes, stopping>>

Init ==
    /\ running = FALSE
    /\ mainPc = "new"
    /\ qMu = None
    /\ queue = <<>>
    /\ recentAnalyzed = [b \in Buckets |-> None]
    /\ now = 0
    /\ pc = [w \in Workers |-> "unborn"]
    /\ job = [w \in Workers |-> None]
    /\ subPc = "unborn"
    /\ container = 0
    /\ stopTarget = 0
    /\ stopReq = {}
    /\ admitted = {} /\ dropped = {} /\ published = {} /\ failed = {}

-----------------------------------------------------------------------------
(* The main thread: start(), then stop(). *)

\* start() spawns the workers first ...
Start ==
    /\ mainPc = "new"
    /\ running' = TRUE
    /\ pc' = [w \in Workers |-> "loop"]
    /\ mainPc' = "spawned"
    /\ UNCHANGED <<queue, subPc, container, intake, qMu, job, outcomes, stopping>>

\* ... and then the subscription thread.
StartSubscription ==
    /\ mainPc = "spawned"
    /\ subPc' = "loop"
    /\ mainPc' = "up"
    /\ UNCHANGED <<running, queue, container, intake, workers, outcomes, stopping>>

\* stop() lowers running_ without taking q_mu_.
StopFlag ==
    /\ mainPc = "up"
    /\ running' = FALSE
    /\ mainPc' = "notify"
    /\ UNCHANGED <<queue, subPc, container, intake, workers, outcomes, stopping>>

WakeAll == [w \in Workers |-> IF pc[w] = "waiting" THEN "notified" ELSE pc[w]]

\* q_cv_.notify_all() reaches the workers asleep at that moment and no other.
StopNotify ==
    /\ mainPc = "notify"
    /\ pc' = WakeAll
    /\ mainPc' = "copy"
    /\ UNCHANGED <<running, queue, subPc, container, intake, qMu, job, outcomes, stopping>>

StopCopy ==
    /\ mainPc = "copy"
    /\ qMu = None
    /\ stopTarget' = container
    /\ mainPc' = "stopContainer"
    /\ UNCHANGED <<running, queue, subPc, container, intake, workers, outcomes, stopReq>>

StopContainer ==
    /\ mainPc = "stopContainer"
    /\ stopReq' = IF stopTarget = 0 THEN stopReq ELSE stopReq \cup {stopTarget}
    /\ mainPc' = "joinSub"
    /\ UNCHANGED <<running, queue, subPc, container, intake, workers, outcomes, stopTarget>>

JoinSubscription ==
    /\ mainPc = "joinSub"
    /\ subPc = "done"
    /\ mainPc' = "joinWorkers"
    /\ UNCHANGED <<running, queue, subPc, container, intake, workers, outcomes, stopping>>

\* Mutant: the workers are detached, not joined.
JoinNoWorker ==
    /\ mainPc = "joinWorkers"
    /\ mainPc' = "stopped"
    /\ UNCHANGED <<running, queue, subPc, container, intake, workers, outcomes, stopping>>

JoinWorkers ==
    /\ mainPc = "joinWorkers"
    /\ \A w \in Workers : pc[w] = "exited"
    /\ mainPc' = "stopped"
    /\ UNCHANGED <<running, queue, subPc, container, intake, workers, outcomes, stopping>>

StopStep == StopNotify \/ StopCopy \/ StopContainer \/ JoinSubscription \/ JoinWorkers

-----------------------------------------------------------------------------
(* The subscription thread: subscriptionLoop() around container->run(). *)

SubLoop ==
    /\ subPc = "loop"
    /\ subPc' = IF running THEN "create" ELSE "done"
    /\ UNCHANGED <<running, mainPc, queue, container, intake, workers, outcomes, stopping>>

\* Mutant: the test of running_ under q_mu_ is missing.
SubCreateUnchecked ==
    /\ subPc = "create"
    /\ qMu = None
    /\ container' = container + 1
    /\ subPc' = "run"
    /\ UNCHANGED <<running, mainPc, queue, intake, workers, outcomes, stopping>>

\* Handler and container are replaced under q_mu_, after a second test of running_.
SubCreate ==
    /\ subPc = "create"
    /\ qMu = None
    /\ IF running
         THEN container' = container + 1 /\ subPc' = "run"
         ELSE container' = container /\ subPc' = "done"
    /\ UNCHANGED <<running, mainPc, queue, intake, workers, outcomes, stopping>>

\* container->run() returns because the container was stopped.
RunStopped ==
    /\ subPc = "run"
    /\ container \in stopReq
    /\ subPc' = "clear"
    /\ UNCHANGED <<running, mainPc, queue, container, intake, workers, outcomes, stopping>>

\* container->run() returns or throws by itself: the broker closed the connection.
RunFails ==
    /\ subPc = "run"
    /\ container < MaxContainers
    /\ subPc' = "clear"
    /\ UNCHANGED <<running, mainPc, queue, container, intake, workers, outcomes, stopping>>

\* clear_work_queue() under q_mu_.  The test of running_ that follows and the
\* interruptible pause both lead to the test at the head of the loop.
SubClear ==
    /\ subPc = "clear"
    /\ qMu = None
    /\ subPc' = "loop"
    /\ UNCHANGED <<running, mainPc, queue, container, intake, workers, outcomes, stopping>>

SubStep == SubLoop \/ SubCreate \/ RunStopped \/ SubClear

-----------------------------------------------------------------------------
(* The detection callback, run by the subscription thread inside run(). *)

InCooldown(b) == recentAnalyzed[b] # None /\ now - recentAnalyzed[b] < Cooldown

\* Mutant: the admission time is recorded only when the bucket is new.
DetectRecordedOnce(f) ==
    LET b == Bucket(f)
        d == [freq |-> f, at |-> now]
        room == Len(queue) < MaxQueueDepth
    IN  /\ subPc = "run"
        /\ qMu = None
        /\ ~InCooldown(b)
        /\ recentAnalyzed' =
             [recentAnalyzed EXCEPT ![b] = IF @ = None THEN now ELSE @]
        /\ admitted' = admitted \cup {d}
        /\ queue' = IF room THEN Append(queue, d) ELSE queue
        /\ dropped' = IF room THEN dropped ELSE dropped \cup {d}
        /\ subPc' = "notifyOne"
        /\ UNCHANGED <<running, mainPc, container, now, workers, outcomes, stopping>>

\* Mutant: the newest detection goes to the front of the queue.
DetectAtFront(f) ==
    LET b == Bucket(f)
        d == [freq |-> f, at |-> now]
        room == Len(queue) < MaxQueueDepth
    IN  /\ subPc = "run"
        /\ qMu = None
        /\ ~InCooldown(b)
        /\ recentAnalyzed' = [recentAnalyzed EXCEPT ![b] = now]
        /\ admitted' = admitted \cup {d}
        /\ queue' = IF room THEN <<d>> \o queue ELSE queue
        /\ dropped' = IF room THEN dropped ELSE dropped \cup {d}
        /\ subPc' = "notifyOne"
        /\ UNCHANGED <<running, mainPc, container, now, workers, outcomes, stopping>>

\* on_det: a detection in cooldown is ignored (no state changes); any other
\* one is recorded as admitted even when the queue has no room for it.
Detect(f) ==
    LET b == Bucket(f)
        d == [freq |-> f, at |-> now]
        room == Len(queue) < MaxQueueDepth
    IN  /\ subPc = "run"
        /\ qMu = None
        /\ ~InCooldown(b)
        /\ recentAnalyzed' = [recentAnalyzed EXCEPT ![b] = now]
        /\ admitted' = admitted \cup {d}
        /\ queue' = IF room THEN Append(queue, d) ELSE queue
        /\ dropped' = IF room THEN dropped ELSE dropped \cup {d}
        /\ subPc' = "notifyOne"
        /\ UNCHANGED <<running, mainPc, container, now, workers, outcomes, stopping>>

\* q_cv_.notify_one(), after the mutex was released.
DetectNotify ==
    /\ subPc = "notifyOne"
    /\ subPc' = "run"
    /\ \/ \E w \in Workers :
             /\ pc[w] = "waiting"
             /\ pc' = [pc EXCEPT ![w] = "notified"]
       \/ /\ \A w \in Workers : pc[w] # "waiting"
          /\ pc' = pc
    /\ UNCHANGED <<running, mainPc, queue, container, intake, qMu, job, outcomes, stopping>>

-----------------------------------------------------------------------------
(* The workers: workerLoop() and processDetection(). *)

WorkerLoop(w) ==
    /\ pc[w] = "loop"
    /\ pc' = [pc EXCEPT ![w] = IF running THEN "lock" ELSE "exited"]
    /\ UNCHANGED <<running, mainPc, queue, subPc, container, intake, qMu, job, outcomes, stopping>>

Ready == queue # <<>> \/ ~running

\* The predicate of wait_for is false: the worker is about to sleep and still
\* holds q_mu_.
PrepareToWait(w) ==
    /\ ~Ready
    /\ qMu' = w
    /\ pc' = [pc EXCEPT ![w] = "blocking"]
    /\ UNCHANGED <<queue, job>>

\* After the wait, with q_mu_ held: pop the oldest detection ...
Pop(w) ==
    /\ queue # <<>>
    /\ job' = [job EXCEPT ![w] = Head(queue)]
    /\ queue' = Tail(queue)
    /\ pc' = [pc EXCEPT ![w] = "process"]
    /\ UNCHANGED qMu

\* Mutant: an idle worker breaks out of its loop.
NothingToPopBreaks(w) ==
    /\ queue = <<>>
    /\ pc' = [pc EXCEPT ![w] = "exited"]
    /\ UNCHANGED <<qMu, queue, job>>

\* ... or, with nothing to pop, leave the loop or go round it once more.
NothingToPop(w) ==
    /\ queue = <<>>
    /\ pc' = [pc EXCEPT ![w] = IF running THEN "loop" ELSE "exited"]
    /\ UNCHANGED <<qMu, queue, job>>

\* Taking q_mu_, first or on being notified, the worker tests the predicate.
WorkerLock(w) ==
    /\ pc[w] \in {"lock", "notified"}
    /\ qMu = None
    /\ PrepareToWait(w) \/ (Ready /\ (Pop(w) \/ NothingToPop(w)))
    /\ UNCHANGED <<running, mainPc, subPc, container, intake, outcomes, stopping>>

\* The wait releases the mutex and puts the worker to sleep in one step.
WorkerSleep(w) ==
    /\ pc[w] = "blocking"
    /\ qMu' = None
    /\ pc' = [pc EXCEPT ![w] = "waiting"]
    /\ UNCHANGED <<running, mainPc, queue, subPc, container, intake, job, outcomes, stopping>>

\* Mutant: an untimed wait never leaves the wait set without a notification.
WorkerWaitUntimed(w) == FALSE /\ UNCHANGED vars

\* The 200 ms of wait_for elapse: the worker will take q_mu_ and go on.
WorkerTimeout(w) ==
    /\ pc[w] = "waiting"
    /\ pc' = [pc EXCEPT ![w] = "timedOut"]
    /\ UNCHANGED <<running, mainPc, queue, subPc, container, intake, qMu, job, outcomes, stopping>>

WorkerTimedOut(w) ==
    /\ pc[w] = "timedOut"
    /\ qMu = None
    /\ Pop(w) \/ NothingToPop(w)
    /\ UNCHANGED <<running, mainPc, subPc, container, intake, outcomes, stopping>>

\* Mutant: the worker keeps the detection it has finished with.
WorkerFinishKeepsJob(w) ==
    /\ pc[w] = "process"
    /\ pc' = [pc EXCEPT ![w] = "loop"]
    /\ \/ published' = published \cup {job[w]} /\ UNCHANGED failed
       \/ failed' = failed \cup {job[w]} /\ UNCHANGED published
    /\ UNCHANGED <<running, mainPc, queue, subPc, container, intake, qMu, job, stopping>>

\* Mutant: a detection whose processing fails goes back to the queue.
WorkerFinishRequeues(w) ==
    /\ pc[w] = "process"
    /\ job' = [job EXCEPT ![w] = None]
    /\ pc' = [pc EXCEPT ![w] = "loop"]
    /\ \/ /\ published' = published \cup {job[w]}
          /\ UNCHANGED <<queue, failed>>
       \/ /\ failed' = failed \cup {job[w]}
          /\ queue' = Append(queue, job[w])
          /\ UNCHANGED published
    /\ UNCHANGED <<running, mainPc, subPc, container, intake, qMu, stopping>>

\* processDetection() returns: it published a result, or it published none
\* (no IQ was collected, or an exception was logged).
WorkerFinish(w) ==
    /\ pc[w] = "process"
    /\ job' = [job EXCEPT ![w] = None]
    /\ pc' = [pc EXCEPT ![w] = "loop"]
    /\ \/ published' = published \cup {job[w]} /\ UNCHANGED failed
       \/ failed' = failed \cup {job[w]} /\ UNCHANGED published
    /\ UNCHANGED <<running, mainPc, queue, subPc, container, intake, qMu, stopping>>

WorkerStep(w) ==
    \/ WorkerLoop(w) \/ WorkerLock(w) \/ WorkerSleep(w)
    \/ WorkerTimeout(w) \/ WorkerTimedOut(w) \/ WorkerFinish(w)

-----------------------------------------------------------------------------

Tick ==
    /\ now < MaxTime
    /\ now' = now + 1
    /\ UNCHANGED <<running, mainPc, queue, subPc, container, recentAnalyzed, admitted,
                   dropped, workers, outcomes, stopping>>

Terminated == mainPc = "stopped" /\ UNCHANGED vars

Next ==
    \/ Start \/ StartSubscription \/ StopFlag \/ StopStep
    \/ SubStep \/ RunFails
    \/ \E f \in Freqs : Detect(f)
    \/ DetectNotify
    \/ \E w \in Workers : WorkerStep(w)
    \/ Tick
    \/ Terminated

Spec == Init /\ [][Next]_vars

\* Every thread runs: a step of its own that stays possible is taken.  The
\* environment (detections, failures, the call of stop()) owes nothing.
Fairness ==
    /\ WF_vars(StopStep)
    /\ WF_vars(SubStep)
    /\ WF_vars(DetectNotify)
    /\ \A w \in Workers : WF_vars(WorkerStep(w))

FairSpec == Spec /\ Fairness

-----------------------------------------------------------------------------
(* Properties. *)

InWork   == {job[w] : w \in Workers} \ {None}
Queued   == Range(queue)
Finished == published \cup failed

\* The types of the variables.  No worker exists before start(), the holder of
\* q_mu_ is the worker about to sleep, and a worker has a job exactly while it
\* processes one.
TypeOK ==
    /\ running \in BOOLEAN
    /\ mainPc \in {"new", "spawned", "up", "notify", "copy", "stopContainer", "joinSub",
                   "joinWorkers", "stopped"}
    /\ qMu \in Workers \cup {None}
    /\ queue \in Seq(Detection)
    /\ recentAnalyzed \in [Buckets -> 0..MaxTime \cup {None}]
    /\ now \in 0..MaxTime
    /\ pc \in [Workers -> {"unborn", "loop", "lock", "blocking", "waiting", "notified",
                           "timedOut", "process", "exited"}]
    /\ job \in [Workers -> Detection \cup {None}]
    /\ subPc \in {"unborn", "loop", "create", "run", "notifyOne", "clear", "done"}
    /\ container \in Nat
    /\ stopTarget \in Nat
    /\ stopReq \subseteq Nat \ {0}
    /\ admitted \subseteq Detection
    /\ dropped \subseteq Detection
    /\ published \subseteq Detection
    /\ failed \subseteq Detection
    /\ mainPc = "new" => \A w \in Workers : pc[w] = "unborn"
    /\ \A w \in Workers : (qMu = w) <=> (pc[w] = "blocking")
    /\ \A w \in Workers : (job[w] # None) <=> (pc[w] = "process")

\* Every detection that passed the cooldown test is in exactly one place: in
\* the queue, with one worker, finished with one outcome, or dropped because
\* the queue was full.  None is lost or analysed twice, whatever the
\* interleaving of callback and workers (on_det, workerLoop).
OnePlaceEach ==
    /\ admitted = Queued \cup InWork \cup Finished \cup dropped
    /\ \A i, j \in DOMAIN queue : queue[i] = queue[j] => i = j
    /\ \A u, v \in Workers : job[u] = job[v] /\ job[u] # None => u = v
    /\ Queued \cap (InWork \cup Finished \cup dropped) = {}
    /\ InWork \cap (Finished \cup dropped) = {}
    /\ published \cap failed = {}
    /\ Finished \cap dropped = {}

\* Two admissions of one 100 kHz bucket are at least the cooldown apart, so
\* an emitter that is reported at every sweep cannot flood the workers
\* (recent_analyzed_, REANALYSIS_COOLDOWN_MS).
CooldownSpacing ==
    \A d, e \in admitted :
        d # e /\ Bucket(d.freq) = Bucket(e.freq) =>
            d.at - e.at >= Cooldown \/ e.at - d.at >= Cooldown

\* Detections are taken up in the order of their admission: whatever a worker
\* has taken is no younger than anything still queued (queue_ is a FIFO).
OldestFirst ==
    /\ \A i, j \in DOMAIN queue : i < j => queue[i].at <= queue[j].at
    /\ \A d \in InWork \cup Finished, e \in Queued : d.at <= e.at

\* Once stop() has passed on its request, no container runs that was not told
\* to stop: none was created between the lowering of running_ and the copy
\* of amqp_container_ (subscriptionLoop's test under q_mu_).
NoOrphanContainer ==
    mainPc \in {"joinSub", "joinWorkers", "stopped"} /\ subPc \in {"run", "notifyOne"} =>
        container \in stopReq

\* stop() returns: however its flag and its one notification fall between a
\* worker's test of the predicate and its sleep, every thread is joined.
StopReturns == (mainPc = "notify") ~> (mainPc = "stopped")

\* A queued detection is analysed, unless the service is being stopped.
QueuedIsAnalysed ==
    \A d \in Detection : (d \in Queued) ~> (d \in Finished \/ ~running)

SameBucket(d, e) == Bucket(d.freq) = Bucket(e.freq)

Promise == INSTANCE DetectionIntake WITH
    Reports <- Detection, Depth <- MaxQueueDepth, Spacing <- Cooldown,
    waiting <- queue, active <- InWork, finished <- Finished, refused <- dropped,
    closed <- mainPc = "stopped"

\* The threads together behave as the abstract intake: bounded, first in
\* first out, one analysis per admission, and quiet once stop() has returned.
KeepsPromise == Promise!Spec

-----------------------------------------------------------------------------
(* The inductive invariant behind the safety properties. *)

\* recent_analyzed_ holds, for each bucket, a time no admission of it exceeds.
AdmissionsRecorded ==
    /\ \A d \in admitted :
           /\ recentAnalyzed[Bucket(d.freq)] # None
           /\ d.at <= recentAnalyzed[Bucket(d.freq)]
    /\ \A b \in Buckets : recentAnalyzed[b] # None => recentAnalyzed[b] <= now

\* running_ is up exactly between start() and stop(), no container is created
\* while it is down, stop() copies the last one, and joined threads are over.
StopProtocol ==
    /\ running <=> mainPc \in {"spawned", "up"}
    /\ subPc \in {"run", "notifyOne"} => container # 0
    /\ mainPc \in {"stopContainer", "joinSub", "joinWorkers", "stopped"} =>
           stopTarget = container
    /\ mainPc \in {"joinSub", "joinWorkers", "stopped"} => container \in stopReq \cup {0}
    /\ mainPc \in {"joinWorkers", "stopped"} => subPc = "done"
    /\ mainPc = "stopped" => \A w \in Workers : pc[w] = "exited"

\* No more than MAX_QUEUE_DEPTH detections wait.
QueueBounded == Len(queue) <= MaxQueueDepth

IInv ==
    /\ TypeOK
    /\ QueueBounded
    /\ AdmissionsRecorded
    /\ CooldownSpacing
    /\ OnePlaceEach
    /\ OldestFirst
    /\ StopProtocol

=============================================================================
