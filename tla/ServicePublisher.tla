-------------------------- MODULE ServicePublisher --------------------------
(***************************************************************************)
(* The service's AMQP side (ServiceAmqpHandler and the functions of        *)
(* AnalysisService that use it, src/src/AnalysisService.cpp): workers      *)
(* publish results through the handler of the current container while the  *)
(* subscription thread runs that container, answers demodulation commands, *)
(* and replaces handler and container when run() ends.                     *)
(*                                                                         *)
(* Handlers are numbered in the order subscriptionLoop() creates them; a   *)
(* worker keeps the shared_ptr it copied and may publish through an old    *)
(* one.  The detections of AnalysisService's queue are a counter here.     *)
(*                                                                         *)
(* Proton is outside the repository.  It is modelled by what the code      *)
(* relies on: the callbacks and the injected work of a container run on    *)
(* one thread, injected work runs in order, a broken connection is opened  *)
(* again without limit, and what is sent while it is down is lost.         *)
(***************************************************************************)
EXTENDS Integers, Sequences, Functions

CONSTANTS
    Workers,      \* threads that publish results
    Buckets,      \* 100 kHz buckets of the result cache
    MaxHandlers,  \* bound on the number of containers created
    MaxResults,   \* bound on the number of results
    MaxCommands,  \* bound on the number of demodulation commands
    MaxErrors,    \* bound on the number of transport errors
    None          \* no request

ASSUME PublisherAssumption ==
    /\ MaxHandlers \in Nat \ {0}
    /\ MaxResults \in Nat
    /\ MaxCommands \in Nat
    /\ MaxErrors \in Nat
    /\ None \notin [kind : {"demod"}, n : Nat, of : Nat]

Handlers == 1..MaxHandlers
Results == 1..MaxResults
Commands == 1..MaxCommands

\* What a work queue holds: a result to publish, or the request sent to the
\* demodulator for a command, with the result it forwards (0 for a stop).
Demod == [kind : {"demod"}, n : Commands, of : Results \cup {0}]
Item == [kind : {"result"}, n : Results] \cup Demod

VARIABLES
    subPc,          \* subscriptionLoop(): "create", "run", "clear" or "over"
    handler,        \* amqp_handler_, 0 before the first
    workQueueSet,   \* work_queue_ # nullptr, of each handler
    pubReady,       \* pub_ready_ of each handler
    link,           \* the connection of the running container: "down" or "open"
    opened,         \* its senders that the broker has opened
    workQueue,      \* injected work of each handler's connection
    errors,         \* transport errors so far
    detections,     \* detections received and not yet taken by a worker
    received,       \* detections received in all
    pc,             \* program counter of each worker
    job,            \* the result it carries, 0 for none
    held,           \* the handler it copied, 0 for none
    nextResult,     \* the next result
    recentResults,  \* recent_results_: newest cached result of a bucket, 0 for none
    nextCommand,    \* the next command
    command,        \* the request being prepared for a command
    published,      \* results and requests the broker has got, in order
    dropped,        \* history: results given up after the wait for the publisher
    silent,         \* history: results and commands dropped for want of a work queue
    lost            \* history: items that were injected and never sent

subVars    == <<subPc, handler>>
senderVars == <<workQueueSet, pubReady>>
amqpVars   == <<link, opened, errors>>
intakeVars == <<detections, received>>
workerVars == <<pc, job, held, nextResult>>
demodVars  == <<nextCommand, command>>
vars == <<subVars, senderVars, amqpVars, workQueue, intakeVars, workerVars, recentResults,
          demodVars, published, dropped, silent, lost>>

Init ==
    /\ subPc = "create" /\ handler = 0
    /\ workQueueSet = [g \in Handlers |-> FALSE]
    /\ pubReady = [g \in Handlers |-> FALSE]
    /\ link = "down" /\ opened = {} /\ errors = 0
    /\ workQueue = [g \in Handlers |-> <<>>]
    /\ detections = 0 /\ received = 0
    /\ pc = [w \in Workers |-> "idle"]
    /\ job = [w \in Workers |-> 0]
    /\ held = [w \in Workers |-> 0]
    /\ nextResult = 1
    /\ recentResults = [b \in Buckets |-> 0]
    /\ nextCommand = 1 /\ command = None
    /\ published = <<>>
    /\ dropped = {} /\ silent = {} /\ lost = {}

-----------------------------------------------------------------------------
(* subscriptionLoop() *)

InRun == subPc = "run" /\ command = None

SubCreate ==
    /\ subPc = "create"
    /\ handler < MaxHandlers
    /\ handler' = handler + 1
    /\ subPc' = "run"
    /\ UNCHANGED <<senderVars, amqpVars, workQueue, intakeVars, workerVars, recentResults,
                   demodVars, published, dropped, silent, lost>>

\* container->run() ends, with an exception or because stop() was called: the
\* connection is gone and nothing runs the injected work any more.
RunReturns ==
    /\ InRun
    /\ subPc' = "clear"
    /\ link' = "down" /\ opened' = {}
    /\ lost' = lost \cup Range(workQueue[handler])
    /\ workQueue' = [workQueue EXCEPT ![handler] = <<>>]
    /\ UNCHANGED <<handler, senderVars, errors, intakeVars, workerVars, recentResults,
                   demodVars, published, dropped, silent>>

\* Mutant: the handler of the ended container is left as it is.
ClearWorkQueueForgotten ==
    /\ subPc = "clear"
    /\ \E next \in {"create", "over"} : subPc' = next
    /\ UNCHANGED <<handler, senderVars, amqpVars, workQueue, intakeVars, workerVars,
                   recentResults, demodVars, published, dropped, silent, lost>>

\* clear_work_queue(), under q_mu_ and pub_ready_mu_; the loop goes on unless
\* the service was stopped.
ClearWorkQueue ==
    /\ subPc = "clear"
    /\ workQueueSet' = [workQueueSet EXCEPT ![handler] = FALSE]
    /\ pubReady' = [pubReady EXCEPT ![handler] = FALSE]
    /\ \E next \in {"create", "over"} : subPc' = next
    /\ UNCHANGED <<handler, amqpVars, workQueue, intakeVars, workerVars, recentResults,
                   demodVars, published, dropped, silent, lost>>

-----------------------------------------------------------------------------
(* The callbacks, on the subscription thread inside container->run(). *)

\* on_connection_open: the receivers are requested, then the senders.
ConnectionOpen ==
    /\ InRun
    /\ link = "down"
    /\ link' = "open"
    /\ opened' = {}
    /\ UNCHANGED <<subVars, senderVars, errors, workQueue, intakeVars, workerVars,
                   recentResults, demodVars, published, dropped, silent, lost>>

\* Mutant: pub_ready_ before work_queue_, and not in one critical section.
PubSenderOpenReadyFirst ==
    /\ InRun
    /\ link = "open" /\ "pub" \notin opened
    /\ IF pubReady[handler]
         THEN /\ opened' = opened \cup {"pub"}
              /\ workQueueSet' = [workQueueSet EXCEPT ![handler] = TRUE]
              /\ UNCHANGED pubReady
         ELSE /\ pubReady' = [pubReady EXCEPT ![handler] = TRUE]
              /\ UNCHANGED <<opened, workQueueSet>>
    /\ UNCHANGED <<subVars, link, errors, workQueue, intakeVars, workerVars, recentResults,
                   demodVars, published, dropped, silent, lost>>

\* on_sender_open for the result sender: both fields in one critical section.
PubSenderOpen ==
    /\ InRun
    /\ link = "open" /\ "pub" \notin opened
    /\ opened' = opened \cup {"pub"}
    /\ workQueueSet' = [workQueueSet EXCEPT ![handler] = TRUE]
    /\ pubReady' = [pubReady EXCEPT ![handler] = TRUE]
    /\ UNCHANGED <<subVars, link, errors, workQueue, intakeVars, workerVars, recentResults,
                   demodVars, published, dropped, silent, lost>>

\* on_sender_open for the demodulation sender: only the work queue.
DemodSenderOpen ==
    /\ InRun
    /\ link = "open" /\ "demod" \notin opened
    /\ opened' = opened \cup {"demod"}
    /\ workQueueSet' = [workQueueSet EXCEPT ![handler] = TRUE]
    /\ UNCHANGED <<subVars, pubReady, link, errors, workQueue, intakeVars, workerVars,
                   recentResults, demodVars, published, dropped, silent, lost>>

\* on_transport_error only logs: the handler stays as it is while proton
\* reconnects.
TransportError ==
    /\ InRun
    /\ link = "open"
    /\ errors < MaxErrors
    /\ errors' = errors + 1
    /\ link' = "down" /\ opened' = {}
    /\ UNCHANGED <<subVars, senderVars, workQueue, intakeVars, workerVars, recentResults,
                   demodVars, published, dropped, silent, lost>>

\* The container runs the oldest injected function: the message goes out, or
\* is lost with the connection.
RunWork ==
    /\ InRun
    /\ workQueue[handler] # <<>>
    /\ workQueue' = [workQueue EXCEPT ![handler] = Tail(@)]
    /\ IF link = "open"
         THEN published' = Append(published, Head(workQueue[handler])) /\ UNCHANGED lost
         ELSE lost' = lost \cup {Head(workQueue[handler])} /\ UNCHANGED published
    /\ UNCHANGED <<subVars, senderVars, amqpVars, intakeVars, workerVars, recentResults,
                   demodVars, dropped, silent>>

\* on_message with a detection.
DetectionArrives ==
    /\ InRun
    /\ link = "open"
    /\ received < MaxResults
    /\ received' = received + 1
    /\ detections' = detections + 1
    /\ UNCHANGED <<subVars, senderVars, amqpVars, workQueue, workerVars, recentResults,
                   demodVars, published, dropped, silent, lost>>

\* on_message with a command; onDemodCommand() looks up the result to forward
\* under q_mu_.  STOP_DEMOD_STREAM needs none; a command with an invalid
\* frequency, no cached result or no modulation is ignored.
CommandArrives ==
    /\ InRun
    /\ link = "open"
    /\ nextCommand \in Commands
    /\ nextCommand' = nextCommand + 1
    /\ \/ command' = None
       \/ \E r \in {0} \cup (Range(recentResults) \cap Results) :
             command' = [kind |-> "demod", n |-> nextCommand, of |-> r]
    /\ UNCHANGED <<subVars, senderVars, amqpVars, workQueue, intakeVars, workerVars,
                   recentResults, published, dropped, silent, lost>>

\* Mutant: a stop is sent at once, ahead of the injected work.
ForwardStopAtOnce ==
    /\ command # None
    /\ command' = None
    /\ IF command.of = 0
         THEN published' = Append(published, command) /\ UNCHANGED workQueue
         ELSE /\ workQueue' = [workQueue EXCEPT ![handler] = Append(@, command)]
              /\ UNCHANGED published
    /\ UNCHANGED <<subVars, senderVars, amqpVars, intakeVars, workerVars, recentResults,
                   nextCommand, dropped, silent, lost>>

\* publishDemodRequest(): the request is injected without waiting for a sender;
\* before any sender is open it is dropped without a word.
ForwardDemod ==
    /\ command # None
    /\ command' = None
    /\ IF workQueueSet[handler]
         THEN /\ workQueue' = [workQueue EXCEPT ![handler] = Append(@, command)]
              /\ UNCHANGED silent
         ELSE silent' = silent \cup {command} /\ UNCHANGED workQueue
    /\ UNCHANGED <<subVars, senderVars, amqpVars, intakeVars, workerVars, recentResults,
                   nextCommand, published, dropped, lost>>

-----------------------------------------------------------------------------
(* publishResult(), on a worker. *)

\* A detection is taken from the queue and analysed.
TakeDetection(w) ==
    /\ pc[w] = "idle"
    /\ detections > 0
    /\ detections' = detections - 1
    /\ job' = [job EXCEPT ![w] = nextResult]
    /\ nextResult' = nextResult + 1
    /\ pc' = [pc EXCEPT ![w] = "cache"]
    /\ UNCHANGED <<subVars, senderVars, amqpVars, workQueue, received, held, recentResults,
                   demodVars, published, dropped, silent, lost>>

\* The result is cached under q_mu_.
CacheResult(w) ==
    /\ pc[w] = "cache"
    /\ \E b \in Buckets : recentResults' = [recentResults EXCEPT ![b] = job[w]]
    /\ pc' = [pc EXCEPT ![w] = "copy"]
    /\ UNCHANGED <<subVars, senderVars, amqpVars, workQueue, intakeVars, job, held, nextResult,
                   demodVars, published, dropped, silent, lost>>

\* The handler is copied under q_mu_.
CopyHandler(w) ==
    /\ pc[w] = "copy"
    /\ held' = [held EXCEPT ![w] = handler]
    /\ pc' = [pc EXCEPT ![w] = "publish"]
    /\ UNCHANGED <<subVars, senderVars, amqpVars, workQueue, intakeVars, job, nextResult,
                   recentResults, demodVars, published, dropped, silent, lost>>

\* Mutant: the worker keeps the handler it copied.
DoneKeepsHandler(w) ==
    /\ pc' = [pc EXCEPT ![w] = "idle"]
    /\ job' = [job EXCEPT ![w] = 0]
    /\ UNCHANGED held

\* publishResult() is over.
Done(w) ==
    /\ pc' = [pc EXCEPT ![w] = "idle"]
    /\ job' = [job EXCEPT ![w] = 0]
    /\ held' = [held EXCEPT ![w] = 0]

\* publish(): the publisher is ready, so the result is injected; without a work
\* queue it would be dropped without a word.
PublishReady(w) ==
    /\ pc[w] = "publish"
    /\ pubReady[held[w]]
    /\ LET item == [kind |-> "result", n |-> job[w]] IN
         IF workQueueSet[held[w]]
           THEN /\ workQueue' = [workQueue EXCEPT ![held[w]] = Append(@, item)]
                /\ UNCHANGED silent
           ELSE silent' = silent \cup {item} /\ UNCHANGED workQueue
    /\ Done(w)
    /\ UNCHANGED <<subVars, senderVars, amqpVars, intakeVars, nextResult, recentResults,
                   demodVars, published, dropped, lost>>

\* Mutant: a result whose publisher is not ready goes back to the queue, and is
\* reported as dropped all the same.
PublishTimeoutRequeues(w) ==
    /\ pc[w] = "publish"
    /\ ~pubReady[held[w]]
    /\ dropped' = dropped \cup {job[w]}
    /\ held' = [held EXCEPT ![w] = 0]
    /\ pc' = [pc EXCEPT ![w] = "copy"]
    /\ UNCHANGED <<subVars, senderVars, amqpVars, workQueue, intakeVars, job, nextResult,
                   recentResults, demodVars, published, silent, lost>>

\* publish(): the publisher was not ready for five seconds; the result is
\* dropped.
PublishTimeout(w) ==
    /\ pc[w] = "publish"
    /\ ~pubReady[held[w]]
    /\ dropped' = dropped \cup {job[w]}
    /\ Done(w)
    /\ UNCHANGED <<subVars, senderVars, amqpVars, workQueue, intakeVars, nextResult,
                   recentResults, demodVars, published, silent, lost>>

WorkerStep(w) ==
    \/ TakeDetection(w) \/ CacheResult(w) \/ CopyHandler(w)
    \/ PublishReady(w) \/ PublishTimeout(w)

-----------------------------------------------------------------------------

SubStep ==
    \/ SubCreate \/ RunReturns \/ ClearWorkQueue
    \/ ConnectionOpen \/ PubSenderOpen \/ DemodSenderOpen \/ TransportError \/ RunWork
    \/ DetectionArrives \/ CommandArrives \/ ForwardDemod

Next == SubStep \/ \E w \in Workers : WorkerStep(w)

Spec == Init /\ [][Next]_vars

-----------------------------------------------------------------------------
(* Properties. *)

\* The types of the variables; a worker holds a handler exactly while it
\* publishes, and only handlers created so far have been used.
TypeOK ==
    /\ subPc \in {"create", "run", "clear", "over"}
    /\ handler \in 0..MaxHandlers
    /\ workQueueSet \in [Handlers -> BOOLEAN]
    /\ pubReady \in [Handlers -> BOOLEAN]
    /\ link \in {"down", "open"}
    /\ opened \subseteq {"pub", "demod"}
    /\ errors \in 0..MaxErrors
    /\ workQueue \in [Handlers -> Seq(Item)]
    /\ received \in 0..MaxResults
    /\ detections \in 0..received
    /\ pc \in [Workers -> {"idle", "cache", "copy", "publish"}]
    /\ nextResult \in 1..(MaxResults + 1)
    /\ nextResult + detections = received + 1
    /\ job \in [Workers -> 0..(nextResult - 1)]
    /\ held \in [Workers -> 0..handler]
    /\ recentResults \in [Buckets -> Results \cup {0}]
    /\ nextCommand \in 1..(MaxCommands + 1)
    /\ command \in Demod \cup {None}
    /\ published \in Seq(Item)
    /\ dropped \subseteq Results
    /\ silent \subseteq Item
    /\ lost \subseteq Item
    /\ received > 0 \/ subPc \in {"run", "clear"} => handler > 0
    /\ command # None => subPc = "run"
    /\ \A w \in Workers : /\ (job[w] = 0) <=> (pc[w] = "idle")
                          /\ (held[w] = 0) <=> (pc[w] # "publish")

\* publish() never finds the publisher ready and the work queue missing, the
\* case in which it would drop a result without a word: work_queue_ and
\* pub_ready_ change together under pub_ready_mu_, over every reconnection and
\* every replacement of the handler.
NoResultDroppedSilently ==
    /\ \A g \in Handlers : pubReady[g] => workQueueSet[g]
    /\ \A item \in silent : item.kind = "demod"

HandedOver == (UNION {Range(workQueue[g]) : g \in Handlers}) \cup Range(published) \cup lost
Injected == {item.n : item \in {x \in HandedOver : x.kind = "result"}}

\* A result that has been taken up is with one worker, was injected into a work
\* queue, or was given up because the publisher was not ready: never two of
\* these, and nothing else becomes of it.
ResultsAccounted ==
    /\ \A v, w \in Workers : v # w /\ job[v] # 0 => job[v] # job[w]
    /\ \A w \in Workers : job[w] \notin Injected \cup dropped
    /\ Injected \cap dropped = {}
    /\ 1..(nextResult - 1) \subseteq Injected \cup dropped \cup {job[w] : w \in Workers}

\* The demodulator gets the requests in the order of the commands, each at most
\* once: a STOP_DEMOD_STREAM never overtakes the START_DEMOD_STREAM before it,
\* although one of the two may be lost.
DemodInOrder ==
    \A i, j \in DOMAIN published :
        i < j /\ published[i].kind = "demod" /\ published[j].kind = "demod"
            => published[i].n < published[j].n

Cleared(g) == g < handler \/ (g = handler /\ subPc \in {"create", "over"})

\* What makes the next property hold.
ClearedIsClean == \A g \in Handlers : Cleared(g) => ~pubReady[g] /\ ~workQueueSet[g]

\* Nothing is injected into the work queue of a container after the service has
\* cleared its handler, although workers still hold that handler.
NothingAddedToCleared ==
    [][\A g \in Handlers : Cleared(g) => workQueue'[g] = workQueue[g]]_vars

=============================================================================
