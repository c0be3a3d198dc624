----------------------------- MODULE IqCollector -----------------------------
(***************************************************************************)
(* The collection of IQ samples over one persistent AMQP channel           *)
(* (src/src/IqCollector.cpp): collect() called by several workers, the     *)
(* request/response exchange of IqTaskChannel, and the callbacks of the    *)
(* channel's own AMQP thread.                                              *)
(*                                                                         *)
(* The broker and the task controller (SdrResourceManager) are outside the *)
(* repository.  They are modelled by what IqCollector.cpp relies on: one   *)
(* FIFO request queue, replies to a dynamic address that dies with its     *)
(* connection, delivery that may be late, repeated or missing, and tasks   *)
(* that run from acceptance until TASK_STOP or the end of their duration.  *)
(*                                                                         *)
(* A critical section of the channel's mu_ is one step.  A timed wait ends *)
(* when its condition holds or at any time before, since any delay of the  *)
(* other side may be longer than the timeout.                              *)
(***************************************************************************)
EXTENDS Integers, Sequences, Functions

CONSTANTS
    Workers,      \* threads that call collect()
    Rates,        \* sample rates a controller may report
    MaxRequests,  \* bound on the number of collect() calls
    MaxDrops,     \* bound on the number of transport errors
    None          \* no worker, no response

Requests == 1..MaxRequests

\* What can come back.  "noPort" is an acceptance without a UDP port,
\* "malformed" one whose fields have the wrong type, "samePort" names the port
\* bound before the request, "otherPort" another one, and "noTaskId" is like
\* "otherPort" without the id that a TASK_STOP needs.
Answers == {"rejected", "noPort", "malformed", "samePort", "otherPort", "noTaskId"}
Response == [req : Requests, answer : Answers, rate : Rates]
Message == [kind : {"request", "stop"}, req : Requests]
Sent == [kind : {"request", "stop"}, req : Requests, answerable : BOOLEAN]

ASSUME CollectorAssumption ==
    /\ MaxRequests \in Nat \ {0}
    /\ MaxDrops \in Nat
    /\ Rates \subseteq Nat \ {0} /\ Rates # {}
    /\ None \notin Workers
    /\ None \notin Response

VARIABLES
    constructed,   \* IqCollector: "connecting", then "connected" or "timedOut", "destroyed"
    collectMu,     \* holder of collect_mu_
    pc,            \* program counter of each worker
    req,           \* request id of a worker's call, 0 outside one
    reply,         \* what exchange() returned to it
    sockets,       \* UDP sockets its call holds open
    iq,            \* samples it received: "none", "partial" or "full"
    rate,          \* the rate it read with lastSampleRate(), 0 before
    lastSr,        \* last_sr_
    nextReq,       \* the next request id
    ready,         \* ready_
    link,          \* the connection: "down", "opening" (no receiver yet) or "up"
    pendingCorr,   \* pending_corr_, 0 when empty
    pendingBody,   \* pending_body_
    pendingDone,   \* pending_done_
    workQueue,     \* work injected into the AMQP thread
    drops,         \* transport errors so far
    wire,          \* messages on their way to the controller, oldest first
    responses,     \* responses on their way to the current reply address
    tasks,         \* the controller's task for each request
    abandoned      \* history: requests given up without a TASK_STOP that arrives

calls   == <<collectMu, pc, req, reply, sockets, iq, rate, lastSr, nextReq>>
slot    == <<pendingCorr, pendingBody, pendingDone>>
channel == <<ready, link, drops>>
outside == <<wire, responses, tasks>>
vars == <<constructed, calls, slot, channel, workQueue, outside, abandoned>>

Init ==
    /\ constructed = "connecting"
    /\ collectMu = None
    /\ pc = [w \in Workers |-> "idle"]
    /\ req = [w \in Workers |-> 0]
    /\ reply = [w \in Workers |-> None]
    /\ sockets = [w \in Workers |-> {}]
    /\ iq = [w \in Workers |-> "none"]
    /\ rate = [w \in Workers |-> 0]
    /\ lastSr = 0
    /\ nextReq = 1
    /\ ready = FALSE /\ link = "down" /\ drops = 0
    /\ pendingCorr = 0 /\ pendingBody = None /\ pendingDone = FALSE
    /\ workQueue = <<>>
    /\ wire = <<>> /\ responses = {}
    /\ tasks = [r \in Requests |-> "none"]
    /\ abandoned = {}

-----------------------------------------------------------------------------
(* The constructor. *)

\* start(60000) waits for the channel; when the wait times out it only warns.
CtorReturns ==
    /\ constructed = "connecting"
    /\ constructed' = IF ready THEN "connected" ELSE "timedOut"
    /\ UNCHANGED <<calls, slot, channel, workQueue, outside, abandoned>>

Stops(msgs) == {m.req : m \in {x \in Range(msgs) : x.kind = "stop"}}

Unanswerable(m) == [kind |-> m.kind, req |-> m.req, answerable |-> FALSE]

\* The connection goes with the messages not yet taken by the broker, and with
\* the dynamic reply address: no answer to an earlier request finds its way.
ConnectionLost ==
    /\ link' = "down"
    /\ responses' = {}
    /\ \E n \in 0..Len(wire) :
          /\ wire' = [i \in 1..n |-> Unanswerable(wire[i])]
          /\ abandoned' = abandoned \cup Stops(SubSeq(wire, n + 1, Len(wire)))
                          \cup (IF constructed' = "destroyed" THEN Stops(workQueue) ELSE {})

\* The destructor, after the workers are joined, runs IqTaskChannel::stop():
\* work not yet run is dropped with the container.  ready_ is left as it is.
Destroy ==
    /\ constructed \in {"connected", "timedOut"}
    /\ \A w \in Workers : pc[w] = "idle"
    /\ constructed' = "destroyed"
    /\ ConnectionLost
    /\ workQueue' = <<>>
    /\ UNCHANGED <<calls, slot, ready, drops, tasks>>

-----------------------------------------------------------------------------
(* The callbacks of the AMQP thread. *)

\* on_connection_open: the sender exists, the dynamic receiver is requested.
ConnectionOpen ==
    /\ constructed # "destroyed"
    /\ link = "down"
    /\ link' = "opening"
    /\ UNCHANGED <<constructed, calls, slot, ready, drops, workQueue, outside, abandoned>>

\* on_receiver_open: the reply address is known and the channel is ready.
ReceiverOpen ==
    /\ link = "opening"
    /\ link' = "up"
    /\ ready' = TRUE
    /\ UNCHANGED <<constructed, calls, slot, drops, workQueue, outside, abandoned>>

\* on_transport_error; the client reconnects without limit.
TransportError ==
    /\ link # "down"
    /\ drops < MaxDrops
    /\ drops' = drops + 1
    /\ ready' = FALSE
    /\ UNCHANGED constructed
    /\ ConnectionLost
    /\ UNCHANGED <<calls, slot, workQueue, tasks>>

\* The AMQP thread runs an injected function: with no connection the message
\* is lost, and before the receiver is open it carries no reply address.
RunWork ==
    /\ workQueue # <<>>
    /\ workQueue' = Tail(workQueue)
    /\ LET m == Head(workQueue) IN
         IF link = "down"
           THEN /\ abandoned' = abandoned \cup Stops(<<m>>)
                /\ UNCHANGED wire
           ELSE /\ wire' = Append(wire, [kind |-> m.kind, req |-> m.req,
                                         answerable |-> link = "up"])
                /\ UNCHANGED abandoned
    /\ UNCHANGED <<constructed, calls, slot, channel, responses, tasks>>

\* Mutant: any response is taken for the pending one.
OnMessageUncorrelated(m) ==
    /\ link = "up"
    /\ m \in responses
    /\ \E rest \in {responses, responses \ {m}} : responses' = rest
    /\ pendingCorr # 0
    /\ pendingBody' = m /\ pendingDone' = TRUE /\ pendingCorr' = 0
    /\ UNCHANGED <<constructed, calls, channel, workQueue, wire, tasks, abandoned>>

\* on_message: only the response to the pending request is taken.  The broker
\* may deliver a response again.
OnMessage(m) ==
    /\ link = "up"
    /\ m \in responses
    /\ \E rest \in {responses, responses \ {m}} : responses' = rest
    /\ IF pendingCorr # 0 /\ m.req = pendingCorr
         THEN pendingBody' = m /\ pendingDone' = TRUE /\ pendingCorr' = 0
         ELSE UNCHANGED slot
    /\ UNCHANGED <<constructed, calls, channel, workQueue, wire, tasks, abandoned>>

-----------------------------------------------------------------------------
(* The task controller, outside the repository. *)

\* It takes the next message.  An accepted request starts its task; a response
\* finds its way only if the request carried an address that still exists.
ControllerTakes ==
    /\ wire # <<>>
    /\ wire' = Tail(wire)
    /\ LET m == Head(wire) IN
         \/ /\ m.kind = "request"
            /\ \E a \in Answers, s \in Rates :
                 /\ tasks' = [tasks EXCEPT ![m.req] = IF a = "rejected" THEN @ ELSE "running"]
                 /\ responses' =
                      IF m.answerable /\ link = "up"
                        THEN responses \cup {[req |-> m.req, answer |-> a, rate |-> s]}
                        ELSE responses
         \/ /\ m.kind = "stop"
            /\ tasks' = [tasks EXCEPT ![m.req] = "ended"]
            /\ UNCHANGED responses
    /\ UNCHANGED <<constructed, calls, slot, channel, workQueue, abandoned>>

\* The duration of a task is over.
TaskExpires(r) ==
    /\ tasks[r] = "running"
    /\ tasks' = [tasks EXCEPT ![r] = "ended"]
    /\ UNCHANGED <<constructed, calls, slot, channel, workQueue, wire, responses, abandoned>>

-----------------------------------------------------------------------------
(* collect(), called by a worker. *)

CallCollect(w) ==
    /\ constructed \in {"connected", "timedOut"}
    /\ pc[w] = "idle"
    /\ nextReq <= MaxRequests
    /\ req' = [req EXCEPT ![w] = nextReq]
    /\ nextReq' = nextReq + 1
    /\ pc' = [pc EXCEPT ![w] = "mutex"]
    /\ UNCHANGED <<constructed, collectMu, reply, sockets, iq, rate, lastSr, slot,
                   channel, workQueue, outside, abandoned>>

\* Mutant: collect_mu_ does not keep a second caller out.
EnterCollectUnlocked(w) ==
    /\ pc[w] = "mutex"
    /\ collectMu' = w
    /\ \E s \in {{}, {"pre"}} : sockets' = [sockets EXCEPT ![w] = s]
    /\ pc' = [pc EXCEPT ![w] = "exchange"]
    /\ UNCHANGED <<constructed, req, reply, iq, rate, lastSr, nextReq, slot, channel,
                   workQueue, outside, abandoned>>

\* collect_mu_ is taken and a UDP socket bound, which may fail.
EnterCollect(w) ==
    /\ pc[w] = "mutex"
    /\ collectMu = None
    /\ collectMu' = w
    /\ \E s \in {{}, {"pre"}} : sockets' = [sockets EXCEPT ![w] = s]
    /\ pc' = [pc EXCEPT ![w] = "exchange"]
    /\ UNCHANGED <<constructed, req, reply, iq, rate, lastSr, nextReq, slot, channel,
                   workQueue, outside, abandoned>>

\* exchange(): with the channel ready the slot is cleared for this request.
ExchangeArm(w) ==
    /\ pc[w] = "exchange"
    /\ ready
    /\ pendingCorr' = req[w]
    /\ pendingBody' = None
    /\ pendingDone' = FALSE
    /\ pc' = [pc EXCEPT ![w] = "enqueue"]
    /\ UNCHANGED <<constructed, collectMu, req, reply, sockets, iq, rate, lastSr, nextReq,
                   channel, workQueue, outside, abandoned>>

\* exchange(): the channel is not ready within the timeout.
ExchangeNotReady(w) ==
    /\ pc[w] = "exchange"
    /\ ~ready
    /\ pc' = [pc EXCEPT ![w] = "reply"]
    /\ UNCHANGED <<constructed, collectMu, req, reply, sockets, iq, rate, lastSr, nextReq,
                   slot, channel, workQueue, outside, abandoned>>

\* exchange(): the sending of the request is handed to the AMQP thread.
ExchangeEnqueue(w) ==
    /\ pc[w] = "enqueue"
    /\ workQueue' = Append(workQueue, [kind |-> "request", req |-> req[w]])
    /\ pc' = [pc EXCEPT ![w] = "wait"]
    /\ UNCHANGED <<constructed, collectMu, req, reply, sockets, iq, rate, lastSr, nextReq,
                   slot, channel, outside, abandoned>>

\* Mutant: the wait for the response has no timeout.
ExchangeReturnUntimed(w) ==
    /\ pc[w] = "wait"
    /\ pendingDone
    /\ reply' = [reply EXCEPT ![w] = pendingBody]
    /\ pc' = [pc EXCEPT ![w] = "reply"]
    /\ UNCHANGED <<constructed, collectMu, req, sockets, iq, rate, lastSr, nextReq,
                   slot, channel, workQueue, outside, abandoned>>

\* exchange(): the wait ends with the response or with the timeout; the body
\* is empty in the second case, and pending_corr_ stays set.
ExchangeReturn(w) ==
    /\ pc[w] = "wait"
    /\ reply' = [reply EXCEPT ![w] = pendingBody]
    /\ pc' = [pc EXCEPT ![w] = "reply"]
    /\ UNCHANGED <<constructed, collectMu, req, sockets, iq, rate, lastSr, nextReq,
                   slot, channel, workQueue, outside, abandoned>>

\* The collection cannot go on: no response, a rejection, an acceptance without
\* a port or with malformed fields, or a port that cannot be bound.
Fails(w) ==
    reply[w] # None =>
        \/ reply[w].answer \in Answers \ {"samePort"}
        \/ "pre" \notin sockets[w]

\* The samples' rate is taken from every well-formed acceptance.
RateTaken(w) ==
    IF reply[w] # None /\ reply[w].answer \notin {"rejected", "malformed"}
      THEN reply[w].rate ELSE lastSr

\* Mutant: the socket bound before the request stays open on an early return.
ReturnEmptyLeaks(w) ==
    /\ pc[w] = "reply"
    /\ Fails(w)
    /\ abandoned' = abandoned \cup {req[w]}
    /\ lastSr' = RateTaken(w)
    /\ collectMu' = None
    /\ pc' = [pc EXCEPT ![w] = "idle"]
    /\ req' = [req EXCEPT ![w] = 0]
    /\ reply' = [reply EXCEPT ![w] = None]
    /\ UNCHANGED <<constructed, sockets, iq, rate, nextReq, slot, channel,
                   workQueue, outside>>

\* collect() returns nothing.  A task the controller accepted is left to run,
\* and last_sr_ may have changed.
ReturnEmpty(w) ==
    /\ pc[w] = "reply"
    /\ Fails(w)
    /\ abandoned' = abandoned \cup {req[w]}
    /\ lastSr' = RateTaken(w)
    /\ sockets' = [sockets EXCEPT ![w] = {}]
    /\ collectMu' = None
    /\ pc' = [pc EXCEPT ![w] = "idle"]
    /\ req' = [req EXCEPT ![w] = 0]
    /\ reply' = [reply EXCEPT ![w] = None]
    /\ UNCHANGED <<constructed, iq, rate, nextReq, slot, channel, workQueue, outside>>

\* The task is accepted and a socket bound to its port: the pre-bound one if
\* the controller honoured it, else a new one.
OpenStream(w) ==
    /\ pc[w] = "reply"
    /\ reply[w] # None
    /\ reply[w].answer \in {"samePort", "otherPort", "noTaskId"}
    /\ lastSr' = RateTaken(w)
    /\ sockets' = [sockets EXCEPT ![w] = {"stream"}]
    /\ pc' = [pc EXCEPT ![w] = "receive"]
    /\ UNCHANGED <<constructed, collectMu, req, reply, iq, rate, nextReq, slot,
                   channel, workQueue, outside, abandoned>>

\* Mutant: collect_mu_ covers the collection but not the TASK_STOP.
ReceiveIqUnlocks(w) ==
    /\ pc[w] = "receive"
    /\ \E n \in {"none", "partial", "full"} : iq' = [iq EXCEPT ![w] = n]
    /\ sockets' = [sockets EXCEPT ![w] = {}]
    /\ collectMu' = None
    /\ pc' = [pc EXCEPT ![w] = "stop"]
    /\ UNCHANGED <<constructed, req, reply, rate, lastSr, nextReq, slot,
                   channel, workQueue, outside, abandoned>>

\* receiveIq(): all samples, or what came before the timeout; then the socket
\* is closed.
ReceiveIq(w) ==
    /\ pc[w] = "receive"
    /\ \E n \in {"none", "partial", "full"} : iq' = [iq EXCEPT ![w] = n]
    /\ sockets' = [sockets EXCEPT ![w] = {}]
    /\ pc' = [pc EXCEPT ![w] = "stop"]
    /\ UNCHANGED <<constructed, collectMu, req, reply, rate, lastSr, nextReq, slot,
                   channel, workQueue, outside, abandoned>>

CanStop(w) == ready /\ reply[w].answer # "noTaskId"

\* Mutant: no TASK_STOP after a capture cut short.
SendStopIfFull(w) ==
    /\ pc[w] = "stop"
    /\ workQueue' = IF CanStop(w) /\ iq[w] = "full"
                      THEN Append(workQueue, [kind |-> "stop", req |-> req[w]]) ELSE workQueue
    /\ abandoned' = IF CanStop(w) THEN abandoned ELSE abandoned \cup {req[w]}
    /\ collectMu' = None
    /\ pc' = [pc EXCEPT ![w] = "returned"]
    /\ UNCHANGED <<constructed, req, reply, sockets, iq, rate, lastSr, nextReq, slot, channel,
                   outside>>

\* TASK_STOP, unless the channel is down or the task has no id; then collect()
\* returns and releases collect_mu_.
SendStop(w) ==
    /\ pc[w] = "stop"
    /\ workQueue' = IF CanStop(w)
                      THEN Append(workQueue, [kind |-> "stop", req |-> req[w]]) ELSE workQueue
    /\ abandoned' = IF CanStop(w) THEN abandoned ELSE abandoned \cup {req[w]}
    /\ collectMu' = None
    /\ pc' = [pc EXCEPT ![w] = "returned"]
    /\ UNCHANGED <<constructed, req, reply, sockets, iq, rate, lastSr, nextReq, slot, channel,
                   outside>>

\* processDetection(): with samples in hand the worker reads the rate, outside
\* collect_mu_.
ReadRate(w) ==
    /\ pc[w] = "returned"
    /\ iq[w] # "none"
    /\ rate' = [rate EXCEPT ![w] = lastSr]
    /\ pc' = [pc EXCEPT ![w] = "analyze"]
    /\ UNCHANGED <<constructed, collectMu, req, reply, sockets, iq, lastSr, nextReq,
                   slot, channel, workQueue, outside, abandoned>>

\* processDetection() is over: analysed, or nothing was collected.
CallOver(w) ==
    /\ pc[w] = "analyze" \/ (pc[w] = "returned" /\ iq[w] = "none")
    /\ pc' = [pc EXCEPT ![w] = "idle"]
    /\ req' = [req EXCEPT ![w] = 0]
    /\ reply' = [reply EXCEPT ![w] = None]
    /\ iq' = [iq EXCEPT ![w] = "none"]
    /\ rate' = [rate EXCEPT ![w] = 0]
    /\ UNCHANGED <<constructed, collectMu, sockets, lastSr, nextReq, slot, channel,
                   workQueue, outside, abandoned>>

WorkerStep(w) ==
    \/ EnterCollect(w) \/ ExchangeArm(w) \/ ExchangeNotReady(w) \/ ExchangeEnqueue(w)
    \/ ExchangeReturn(w) \/ ReturnEmpty(w) \/ OpenStream(w) \/ ReceiveIq(w) \/ SendStop(w)
    \/ ReadRate(w) \/ CallOver(w)

-----------------------------------------------------------------------------

Next ==
    \/ CtorReturns \/ Destroy
    \/ ConnectionOpen \/ ReceiverOpen \/ TransportError \/ RunWork
    \/ \E m \in Response : OnMessage(m)
    \/ ControllerTakes
    \/ \E r \in Requests : TaskExpires(r)
    \/ \E w \in Workers : CallCollect(w) \/ WorkerStep(w)

Spec == Init /\ [][Next]_vars

\* The workers run; broker, controller and network owe nothing.
FairSpec == Spec /\ \A w \in Workers : WF_vars(WorkerStep(w))

-----------------------------------------------------------------------------
(* Properties. *)

InCollect == {"exchange", "enqueue", "wait", "reply", "receive", "stop"}
Unanswered == {"idle", "mutex", "exchange", "enqueue", "wait"}
Streaming == {"receive", "stop", "returned", "analyze"}

\* The types of the variables; collect_mu_ is held by the worker inside
\* collect(), and the channel is ready exactly while its receiver is open.
TypeOK ==
    /\ constructed \in {"connecting", "connected", "timedOut", "destroyed"}
    /\ collectMu \in Workers \cup {None}
    /\ pc \in [Workers -> InCollect \cup {"idle", "mutex", "returned", "analyze"}]
    /\ req \in [Workers -> Requests \cup {0}]
    /\ reply \in [Workers -> Response \cup {None}]
    /\ sockets \in [Workers -> SUBSET {"pre", "stream"}]
    /\ iq \in [Workers -> {"none", "partial", "full"}]
    /\ rate \in [Workers -> Rates \cup {0}]
    /\ lastSr \in Rates \cup {0}
    /\ nextReq \in 1..(MaxRequests + 1)
    /\ ready \in BOOLEAN
    /\ link \in {"down", "opening", "up"}
    /\ drops \in 0..MaxDrops
    /\ pendingCorr \in Requests \cup {0}
    /\ pendingBody \in Response \cup {None}
    /\ pendingDone \in BOOLEAN
    /\ workQueue \in Seq(Message)
    /\ wire \in Seq(Sent)
    /\ responses \subseteq Response
    /\ tasks \in [Requests -> {"none", "running", "ended"}]
    /\ abandoned \subseteq Requests
    /\ constructed # "destroyed" => (ready <=> link = "up")
    /\ \A w \in Workers : (collectMu = w) <=> (pc[w] \in InCollect)
    /\ \A w \in Workers : (req[w] = 0) <=> (pc[w] = "idle")
    /\ \A w \in Workers : pc[w] \in Streaming => reply[w] # None
    /\ \A w \in Workers : pc[w] \in Unanswered => reply[w] = None

\* exchange() returns the response to its own request or none, whatever
\* responses to earlier requests arrive late, twice or between two calls
\* (pending_corr_, pending_body_, pending_done_).
ResponseIsOwn == \A w \in Workers : reply[w] # None => reply[w].req = req[w]

\* What makes it so: during an exchange the slot holds nothing or the answer to
\* the request of the call that armed it, and waits for no other.
SlotIsOwn ==
    \A w \in Workers :
        pc[w] \in {"enqueue", "wait"} =>
            /\ pendingCorr \in {0, req[w]}
            /\ pendingBody # None => pendingBody.req = req[w]

\* Every return path of collect() closes the sockets it opened, and before
\* TASK_STOP goes out.
SocketsClosed == \A w \in Workers : pc[w] \notin InCollect \ {"stop"} => sockets[w] = {}

Running == {r \in Requests : tasks[r] = "running"}

\* A second task runs beside one of ours only if one of the two was given up:
\* TASK_STOP is queued before the next call can queue its request.
OneTaskUnlessAbandoned ==
    \A r, s \in Running : r # s => r \in abandoned \/ s \in abandoned

\* A running task is the task of the call in progress, or its TASK_STOP is on
\* the way, or it was given up on a path that sends none.
TasksAccounted ==
    \A r \in Running :
        \/ r \in abandoned
        \/ r \in Stops(workQueue) \cup Stops(wire)
        \/ \E w \in Workers : req[w] = r /\ pc[w] \in InCollect

\* No worker keeps collect_mu_ forever: a call in progress returns with the
\* broker or the controller silent or gone.
CollectReturns == \A w \in Workers : (collectMu = w) ~> (collectMu # w)

=============================================================================
